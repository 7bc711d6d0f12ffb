----------------------------- MODULE RelayBinding -----------------------------
(***************************************************************************)
(* How a relay keeps knowing where a node is: RelayClient.bind sends the   *)
(* node's token again and again, RelayServiceImpl puts it in nodeMap with  *)
(* the address the request came from (the node's NAT may give it another   *)
(* one at any time), and RelayNodeManager's sweep throws out what is old.  *)
(* What the relay is given for a token goes to the address it has for it.  *)
(*                                                                         *)
(* The binds are calls of AsyncCall.  Time passes in ticks; what is due is *)
(* done before the next.  The network is a bounded one: what it delivers   *)
(* it delivers within MaxDelay, and a bind that is sent more than Outage   *)
(* after the last one it took is taken.  The node starts once (a start     *)
(* gives it another token) and may stop for good.                          *)
(***************************************************************************)
EXTENDS AsyncCall

CONSTANTS
    Address,     \* addresses the node may have outside
    CallTimeout, \* relay.heartTimeout of the node (300 ms)
    Period,      \* the loop's sleep (1000 ms), and
    MaxPeriod,   \* what the scheduler makes of it
    MaxDelay,    \* longest way of a request
    Outage,      \* longest the network swallows all binds
    Timeouts,    \* values of relay.timeout of the relay (30000 ms)
    None         \* not in the map

\* The longest from a bind that gets through to the sending of the next.
Quiet == Outage + CallTimeout + MaxPeriod

\* The longest until the relay has heard of it.
Gap == Quiet + MaxDelay

ASSUMPTION RelayConstants ==
    /\ {CallTimeout, Period, MaxPeriod, MaxDelay, Outage} \subseteq Nat
    /\ Timeouts \subseteq Nat
    /\ Period <= MaxPeriod
    /\ MaxDelay < Period
    /\ None \notin Address

VARIABLES
    up,       \* the node runs
    address,  \* where it is reached now
    settled,  \* time since it started or its address changed (counted to Gap)
    calling,  \* the loop waits for its bind; else it sleeps
    spent,    \* time it has done so
    silence,  \* time since a bind was sent that gets through, or the start
    source,   \* address that bind came from
    entry,    \* RelayNode.targetAddress of the token in nodeMap
    age,      \* time since its lastTime or, if there is none, since it was
              \* removed or the start (counted as far as it matters)
    sweeping, \* the sweep has found the entry old and is about to remove it
    timeout   \* relay.timeout: whatever it is, it stays

nodeVars == <<up, address, settled, calling, spent, silence, source>>
relayVars == <<entry, age, sweeping, timeout>>
vars == <<callVars, nodeVars, relayVars>>

Init ==
    /\ CallInit
    /\ up = TRUE
    /\ address \in Address
    /\ settled = 0
    /\ calling = FALSE /\ spent = Period
    /\ silence = 0
    /\ source = address
    /\ entry = None
    /\ age = 0
    /\ sweeping = FALSE
    /\ timeout \in Timeouts

-----------------------------------------------------------------------------
(***************************************************************************)
(* The node's loop                                                         *)
(***************************************************************************)

\* The loop's last bind has been sent.
AllSent == \A c \in Call : at[c] \in {"idle", "sent"}

\* The loop wakes and calls invokeAsync.
Bind(c) ==
    /\ up /\ ~calling /\ spent >= Period
    /\ Wait(c)
    /\ calling' = TRUE /\ spent' = 0
    /\ UNCHANGED <<up, address, settled, silence, source, relayVars>>

BindArm(c) == up /\ Arm(c) /\ UNCHANGED <<nodeVars, relayVars>>

BindSent(c) ==
    /\ up
    /\ Send(c)
    /\ silence' = 0 /\ source' = address
    /\ UNCHANGED <<up, address, settled, calling, spent, relayVars>>

BindLost(c) ==
    /\ up /\ silence <= Outage
    /\ SendLost(c)
    /\ UNCHANGED <<nodeVars, relayVars>>

\* get() returns or throws.
Sleep ==
    /\ up /\ calling /\ AllSent
    /\ \A c \in Call : future[c] # "pending"
    /\ calling' = FALSE /\ spent' = 0
    /\ UNCHANGED <<callVars, up, address, settled, silence, source, relayVars>>

Answered(c) == (Take(c) \/ Complete(c)) /\ up /\ UNCHANGED <<nodeVars, relayVars>>

TimedOut(c) ==
    /\ up
    /\ \/ Fire(c) /\ spent >= CallTimeout
       \/ Expire(c)
    /\ UNCHANGED <<nodeVars, relayVars>>

Clean(c) == (Renew(c) \/ LoseAnswer(c)) /\ up /\ UNCHANGED <<nodeVars, relayVars>>

Move(a) ==
    /\ up /\ a # address
    /\ address' = a /\ settled' = 0
    /\ UNCHANGED <<callVars, up, calling, spent, silence, source, relayVars>>

Stop ==
    /\ up
    /\ up' = FALSE
    /\ UNCHANGED <<callVars, address, settled, calling, spent, silence, source, relayVars>>

-----------------------------------------------------------------------------
(***************************************************************************)
(* The relay                                                               *)
(***************************************************************************)

\* Mutant: a token that is known keeps its RelayNode.
BoundOnce(c) ==
    /\ Serve(c) \/ ServeCopy(c)
    /\ IF entry = None THEN entry' = source /\ age' = 0 ELSE UNCHANGED <<entry, age>>
    /\ UNCHANGED <<nodeVars, sweeping, timeout>>

\* processBindRelay: addNode puts a new RelayNode.
Bound(c) ==
    /\ Serve(c) \/ ServeCopy(c)
    /\ entry' = source /\ age' = 0
    /\ UNCHANGED <<nodeVars, sweeping, timeout>>

\* The sweep looks at the entry.
Look ==
    /\ entry # None /\ age > timeout /\ ~sweeping
    /\ sweeping' = TRUE
    /\ UNCHANGED <<callVars, nodeVars, entry, age, timeout>>

\* Mutant: the age is taken for the time left.
EvictNot ==
    /\ sweeping
    /\ sweeping' = FALSE
    /\ UNCHANGED <<callVars, nodeVars, entry, age, timeout>>

\* iterator.remove: by the key, whatever is there.
Evict ==
    /\ sweeping
    /\ sweeping' = FALSE
    /\ entry' = None /\ age' = 0
    /\ UNCHANGED <<callVars, nodeVars, timeout>>

-----------------------------------------------------------------------------
(***************************************************************************)
(* Time                                                                    *)
(***************************************************************************)

\* Mutant: the bind is given no timeout.
AtRestForever ==
    /\ AllSent /\ \A c \in Call : taken[c] = "no"
    /\ IF calling
       THEN \E c \in Call : future[c] = "pending"
       ELSE spent < MaxPeriod

\* Nobody of the node is in the middle of something, and nothing is due.
AtRest ==
    /\ AllSent /\ \A c \in Call : taken[c] = "no"
    /\ IF calling
       THEN spent < CallTimeout /\ \E c \in Call : future[c] = "pending"
       ELSE spent < MaxPeriod

\* A node that is down has no clock; the network and the relay have.
Tick ==
    /\ up => AtRest
    /\ requests # {} => silence < MaxDelay
    /\ IF up
       THEN /\ settled' = IF settled > Gap THEN settled ELSE settled + 1
            /\ spent' = spent + 1
       ELSE UNCHANGED <<settled, spent>>
    /\ silence' = IF up \/ requests # {} THEN silence + 1 ELSE silence
    /\ age' = IF \/ entry # None /\ age <= timeout
                 \/ entry = None /\ age <= Gap /\ up
              THEN age + 1 ELSE age
    /\ UNCHANGED <<callVars, up, address, calling, source, entry, sweeping, timeout>>

-----------------------------------------------------------------------------
Threads(c) == BindArm(c) \/ BindSent(c) \/ BindLost(c) \/ TimedOut(c) \/ Answered(c)

Next ==
    \/ \E c \in Call : Bind(c) \/ Threads(c) \/ Clean(c) \/ Bound(c)
    \/ \E a \in Address : Move(a)
    \/ Sleep \/ Stop \/ Look \/ Evict \/ Tick

Spec == Init /\ [][Next]_vars

\* The clock, the node's threads and the relay's go on, and a request that the
\* network has taken gets there.
FairSpec ==
    /\ Spec
    /\ WF_vars(Tick) /\ WF_vars(Sleep) /\ WF_vars(\E c \in Call : Bind(c))
    /\ \A c \in Call : WF_vars(Threads(c))
    /\ \A c \in Call : WF_vars(Bound(c) /\ c \notin requests')
    /\ WF_vars(Look) /\ WF_vars(Evict)

-----------------------------------------------------------------------------
(***************************************************************************)
(* Properties                                                              *)
(***************************************************************************)

\* Every variable has its type.
TypeOK ==
    /\ CallTypeOK
    /\ up \in BOOLEAN /\ calling \in BOOLEAN /\ sweeping \in BOOLEAN
    /\ address \in Address /\ source \in Address
    /\ entry \in Address \cup {None}
    /\ timeout \in Timeouts
    /\ settled \in Nat /\ spent \in Nat /\ silence \in Nat /\ age \in Nat

\* From Gap after it started or its address changed, the relay forwards to
\* where the node is: neither a lost or repeated bind, nor a timeout that
\* races its answer, nor the sweep - which removes by key what it found old -
\* takes the token away (RelayClient.run, processBindRelay, RelayNodeManager).
\* With a shorter timeout the sweep may, but nothing goes to an old address.
Reachable ==
    up /\ settled > Gap => entry = address \/ (entry = None /\ timeout < Gap)

\* Even where the sweep takes a fresh bind's entry, having found an old one
\* under the key (RelayNodeManager's iterator.remove), the relay is without the
\* token of a running node for Gap at most: the loop does not rely on having
\* been bound before.
SoonBack == up /\ entry = None => age <= Gap

\* Every call of the loop ends, so the loop goes on, unless the node stops.
BindEnds ==
    \A c \in Call : (future[c] = "pending") ~> (future[c] # "pending" \/ ~up)

\* The relay forgets a node that has stopped, whatever binds of it were still
\* on their way.
Cleared == ~up ~> [](entry = None)
=============================================================================
