-------------------------- MODULE RelayBindingProofs --------------------------
(***************************************************************************)
(* Reachable and SoonBack for any timing: while a timeout of Gap or more   *)
(* lasts, the sweep never finds the entry of a running node old; with a    *)
(* shorter one it may, and take a younger entry away.  The entry's address *)
(* is always the one of the last bind that got through.                    *)
(*                                                                         *)
(* The argument is about two clocks.  silence, the time since such a bind  *)
(* was sent, stays below Quiet, as the loop sleeps and waits for so long   *)
(* at most and the network swallows for so long at most.  The relay's age  *)
(* of the entry, or of its removal, is at most silence when no bind is on  *)
(* its way, and Quiet more when one is.                                    *)
(***************************************************************************)
EXTENDS RelayBinding, AsyncCallProofs

USE RelayConstants

\* Binds are sent one at a time, and one has arrived when the next is sent.
Single ==
    /\ \A c, d \in Call : at[c] \in {"put", "armed"} /\ at[d] \in {"put", "armed"} => c = d
    /\ \A c, d \in requests : c = d
    /\ requests # {} => silence <= MaxDelay
    /\ up /\ requests # {} => spent <= silence /\ AllSent
    /\ up /\ ~AllSent => calling /\ spent = 0

\* How long the loop may leave the relay without a bind.
Quietness ==
    /\ calling => spent <= CallTimeout
    /\ ~calling => spent <= MaxPeriod
    /\ IF ~AllSent THEN silence <= Quiet
       ELSE IF calling THEN silence <= Outage + spent
       ELSE silence <= Outage + CallTimeout + spent

\* The relay's clock against the loop's.
Young ==
    /\ Gap <= timeout => ~sweeping
    /\ age <= silence + (IF requests = {} THEN 0 ELSE Quiet)

\* Where the relay will forward to, and already does.
Known ==
    /\ requests # {} /\ settled > silence => source = address
    /\ settled > silence + (IF requests = {} THEN 0 ELSE Quiet) =>
           entry = address \/ (entry = None /\ timeout < Gap)
    /\ settled <= Gap + 1

IInv == TypeOK /\ CallIInv /\ Single /\ (up => Quietness /\ Young /\ Known)

LEMMA Times ==
    /\ CallTimeout \in Nat /\ Period \in Nat /\ MaxPeriod \in Nat
    /\ MaxDelay \in Nat /\ Outage \in Nat
    /\ Timeouts \subseteq Nat
    /\ Quiet \in Nat /\ Gap = Quiet + MaxDelay
    /\ Quiet = Outage + CallTimeout + MaxPeriod
    /\ Period <= MaxPeriod /\ MaxDelay < Period
    /\ \A a \in Address : a # None
BY DEF Quiet, Gap

LEMMA InitRelay == Init => IInv
<1> SUFFICES ASSUME Init PROVE IInv
  OBVIOUS
<1>1. CallIInv /\ CallTypeOK
  BY CallInitIInv DEF Init, CallIInv
<1>2. TypeOK
  BY <1>1, Times DEF Init, TypeOK
<1>3. AllSent /\ requests = {}
  BY DEF Init, CallInit, AllSent
<1>4. Single
  BY <1>3 DEF Init, CallInit, Single
<1>5. Quietness /\ Young /\ Known
  BY <1>3, Times DEF Init, Quietness, Young, Known
<1>6. QED
  BY <1>1, <1>2, <1>4, <1>5 DEF IInv

\* Every step is a step of the calls or leaves them alone.
LEMMA StepOfCalls == [Next]_vars => [CallNext]_callVars
BY DEF Next, vars, callVars, CallNext, Threads, Bind, BindArm, BindSent, BindLost, TimedOut,
   Answered, Clean, Bound, Move, Sleep, Stop, Look, Evict, Tick

LEMMA CallsKept == CallIInv /\ [Next]_vars => CallIInv' /\ CallTypeOK'
BY StepOfCalls, CallStep, CallStutter DEF CallNext, CallIInv

-----------------------------------------------------------------------------
LEMMA BindStep ==
    ASSUME IInv, CallIInv', NEW c \in Call, Bind(c)
    PROVE  IInv'
<1>1. requests = {}
  BY Times DEF IInv, TypeOK, Single, Bind
<1>2. AllSent
  BY DEF IInv, Single, Bind
<1>3. silence <= Quiet
  BY <1>2, Times DEF IInv, TypeOK, Quietness, Bind
<1>4. ~AllSent'
  BY DEF IInv, CallIInv, CallTypeOK, Bind, Wait, AllSent
<1>5. Single'
  BY <1>1, <1>2, Times DEF IInv, CallIInv, CallTypeOK, Single, AllSent, Bind, Wait
<1>6. QED
  BY <1>1, <1>3, <1>4, <1>5, Times
  DEF IInv, TypeOK, CallIInv, Quietness, Young, Known, Bind, Wait, relayVars

LEMMA ArmStep ==
    ASSUME IInv, CallIInv', NEW c \in Call, BindArm(c)
    PROVE  IInv'
<1>1. ~AllSent /\ ~AllSent'
  BY DEF IInv, CallIInv, CallTypeOK, BindArm, Arm, AllSent
<1>2. Single'
  BY <1>1 DEF IInv, CallIInv, CallTypeOK, Single, BindArm, Arm, nodeVars
<1>3. QED
  BY <1>1, <1>2 DEF IInv, TypeOK, CallIInv, Quietness, Young, Known, BindArm, Arm, nodeVars,
     relayVars

\* All is sent when the one bind that was not is.
LEMMA SentAll ==
    ASSUME IInv, NEW c \in Call, at[c] = "armed", at' = [at EXCEPT ![c] = "sent"]
    PROVE  AllSent' /\ ~AllSent
BY DEF IInv, CallIInv, CallTypeOK, Single, AllSent

LEMMA SentStep ==
    ASSUME IInv, CallIInv', NEW c \in Call, BindSent(c)
    PROVE  IInv'
<1>1. AllSent' /\ ~AllSent
  BY SentAll DEF BindSent, Send
<1>2. requests = {} /\ requests' = {c} /\ up /\ calling
  BY <1>1 DEF IInv, Single, BindSent, Send
<1>3. silence <= Quiet
  BY <1>1 DEF IInv, Quietness, BindSent
<1>4. Single'
  BY <1>1, <1>2, Times DEF IInv, TypeOK, AllSent, Single, BindSent
<1>5. QED
  BY <1>1, <1>2, <1>3, <1>4, Times
  DEF IInv, TypeOK, CallIInv, Quietness, Young, Known, BindSent, relayVars

LEMMA LostStep ==
    ASSUME IInv, CallIInv', NEW c \in Call, BindLost(c)
    PROVE  IInv'
<1>1. AllSent' /\ ~AllSent
  BY SentAll DEF BindLost, SendLost
<1>2. requests' = requests /\ requests = {} /\ calling
  BY <1>1 DEF IInv, Single, BindLost, SendLost
<1>3. Single'
  BY <1>1, <1>2 DEF IInv, AllSent, Single, BindLost, nodeVars
<1>4. QED
  BY <1>1, <1>2, <1>3, Times
  DEF IInv, TypeOK, CallIInv, Quietness, Young, Known, BindLost, nodeVars, relayVars

\* Steps of the calls that send nothing and receive no request.
LEMMA QuietStep ==
    ASSUME IInv, CallIInv', UNCHANGED <<at, requests, nodeVars, relayVars>>
    PROVE  IInv'
BY DEF IInv, TypeOK, CallIInv, Single, AllSent, Quietness, Young, Known, nodeVars, relayVars

LEMMA RenewStep ==
    ASSUME IInv, CallIInv', NEW c \in Call, Renew(c), UNCHANGED <<nodeVars, relayVars>>
    PROVE  IInv'
<1>1. \A d \in Call : at'[d] \in {"put", "armed"} <=> at[d] \in {"put", "armed"}
  BY DEF IInv, CallIInv, CallTypeOK, Renew, Over
<1>2. AllSent' = AllSent
  BY DEF IInv, CallIInv, CallTypeOK, Renew, Over, AllSent
<1>3. Single'
  BY <1>1, <1>2 DEF IInv, Single, Renew, nodeVars
<1>4. QED
  BY <1>2, <1>3 DEF IInv, TypeOK, CallIInv, Quietness, Young, Known, Renew, nodeVars, relayVars

LEMMA BoundStep ==
    ASSUME IInv, CallIInv', NEW c \in Call, Bound(c)
    PROVE  IInv'
<1>1. requests # {} /\ (requests' = {} \/ requests' = requests)
  BY DEF IInv, Single, Bound, Serve, ServeCopy, Act
<1>2. UNCHANGED <<at, nodeVars, sweeping, timeout>> /\ entry' = source /\ age' = 0
  BY DEF Bound, Serve, ServeCopy, Act
<1>3. Single'
  BY <1>1, <1>2 DEF IInv, Single, AllSent, nodeVars
<1>4. QED
  BY <1>1, <1>2, <1>3, Times
  DEF IInv, TypeOK, CallIInv, Quietness, Young, Known, AllSent, nodeVars

LEMMA NodeStep ==
    ASSUME IInv, CallIInv', Sleep \/ Stop \/ \E a \in Address : Move(a)
    PROVE  IInv'
<1> USE Times DEF IInv, TypeOK, CallIInv, Single, Quietness, Young, Known, AllSent, callVars, relayVars
<1>1. CASE Sleep
  <2>1. AllSent /\ AllSent' /\ UNCHANGED <<at, requests>>
    BY <1>1 DEF Sleep
  <2>2. silence <= Outage + CallTimeout
    BY <1>1, <2>1 DEF Sleep
  <2>3. Quietness'
    BY <1>1, <2>1, <2>2 DEF Sleep
  <2>4. Single' /\ Young' /\ Known'
    BY <1>1, <2>1 DEF Sleep
  <2>5. QED
    BY <1>1, <2>3, <2>4 DEF Sleep
<1>2. CASE Stop
  BY <1>2 DEF Stop
<1>3. ASSUME NEW a \in Address, Move(a) PROVE IInv'
  BY <1>3 DEF Move
<1>4. QED
  BY <1>1, <1>2, <1>3

\* The sweep finds the entry of a running node old with a short timeout only.
LEMMA SweepStep ==
    ASSUME IInv, CallIInv', Look \/ Evict
    PROVE  IInv'
<1>1. UNCHANGED <<at, requests, future, nodeVars, timeout>>
  BY DEF Look, Evict, callVars
<1>2. up => timeout < Gap
  <2>1. CASE Look
    BY <2>1, Times DEF Look, IInv, TypeOK, Single, Quietness, Young, AllSent
  <2>2. CASE Evict
    BY <2>2, Times DEF Evict, IInv, TypeOK, Young
  <2>3. QED
    BY <2>1, <2>2
<1>3. CallTypeOK' /\ TypeOK'
  <2>1. CallTypeOK'
    BY DEF CallIInv
  <2>2. CASE Look
    BY <2>1, <2>2, <1>1 DEF Look, IInv, TypeOK, nodeVars
  <2>3. CASE Evict
    BY <2>1, <2>3, <1>1 DEF Evict, IInv, TypeOK, nodeVars
  <2>4. QED
    BY <2>1, <2>2, <2>3
<1>4. Single'
  BY <1>1 DEF IInv, Single, AllSent, nodeVars
<1>5. up => Quietness'
  BY <1>1 DEF IInv, Quietness, AllSent, nodeVars
<1>6. up => Young' /\ Known'
  <2>1. CASE Look
    BY <2>1, <1>1, <1>2, Times DEF Look, IInv, TypeOK, Young, Known, nodeVars
  <2>2. CASE Evict
    BY <2>2, <1>1, <1>2, Times DEF Evict, IInv, TypeOK, Young, Known, nodeVars
  <2>3. QED
    BY <2>1, <2>2
<1>7. QED
  BY <1>1, <1>3, <1>4, <1>5, <1>6 DEF IInv, nodeVars

LEMMA TickStep ==
    ASSUME IInv, CallIInv', Tick
    PROVE  IInv'
<1>1. UNCHANGED <<at, requests, up, address, calling, source, entry, sweeping, timeout>>
  BY DEF Tick, callVars
<1>2. TypeOK'
  BY <1>1 DEF Tick, IInv, TypeOK, CallIInv
<1>3. Single'
  BY <1>1, Times DEF Tick, AtRest, IInv, TypeOK, Single, AllSent
<1>4. up => Quietness'
  BY <1>1, Times DEF Tick, AtRest, IInv, TypeOK, Quietness, AllSent
<1>5. up => Young'
  BY <1>1, Times DEF Tick, IInv, TypeOK, Young
<1>6. up => Known'
  BY <1>1, Times DEF Tick, AtRest, IInv, TypeOK, Single, Quietness, AllSent, Known
<1>7. QED
  BY <1>1, <1>2, <1>3, <1>4, <1>5, <1>6 DEF IInv

LEMMA NextRelay == IInv /\ [Next]_vars => IInv'
<1> SUFFICES ASSUME IInv, [Next]_vars PROVE IInv'
  OBVIOUS
<1>1. CallIInv'
  BY CallsKept DEF IInv
<1>2. CASE UNCHANGED vars
  BY <1>1, <1>2, QuietStep DEF vars, callVars
<1>3. ASSUME NEW c \in Call, TimedOut(c) \/ Answered(c) \/ Clean(c)
      PROVE  IInv'
  <2>1. CASE Renew(c)
    BY <1>1, <1>3, <2>1, RenewStep DEF TimedOut, Answered, Clean
  <2>2. CASE ~Renew(c)
    BY <1>1, <1>3, <2>2, QuietStep
    DEF TimedOut, Answered, Clean, Take, Complete, Fire, Expire, LoseAnswer
  <2>3. QED
    BY <2>1, <2>2
<1>4. QED
  BY <1>1, <1>2, <1>3, BindStep, ArmStep, SentStep, LostStep, BoundStep, NodeStep, SweepStep,
     TickStep DEF Next, Threads

LEMMA RelayInvariance == Spec => []IInv
BY InitRelay, NextRelay, PTL DEF Spec

-----------------------------------------------------------------------------
\* Every variable has its type.
THEOREM RelayTypeCorrect == Spec => []TypeOK
<1>1. IInv => TypeOK
  BY DEF IInv
<1>2. QED
  BY <1>1, RelayInvariance, PTL

\* The binds of the loop are calls: what is proved of calls holds of them.
THEOREM BindsAreCalls == Spec => CallSpec
<1>1. Init => CallInit
  BY DEF Init
<1>2. QED
  BY <1>1, StepOfCalls, PTL DEF Spec, CallSpec

\* From Gap after a start or a move on, the relay forwards to the node, for any
\* periods, delays and outages whose sum is no more than the relay's timeout;
\* for any others to the node or to nobody.  (Binds do not overtake each other:
\* MaxDelay < Period.)
THEOREM StaysReachable == Spec => []Reachable
<1>1. IInv => Reachable
  BY Times DEF IInv, TypeOK, Single, Quietness, Known, Reachable
<1>2. QED
  BY <1>1, RelayInvariance, PTL

\* For any relay timeout, the relay is without a running node's token for Gap at
\* most, although its sweep may take a bind that has just come.
THEOREM MissingBriefly == Spec => []SoonBack
<1>1. IInv => SoonBack
  BY Times DEF IInv, TypeOK, Single, Quietness, Young, SoonBack
<1>2. QED
  BY <1>1, RelayInvariance, PTL
=============================================================================
