------------------------------- MODULE NodeRoutes -------------------------------
(***************************************************************************)
(* The routes of a node: RouteManager, with the two threads that call it.  *)
(* The tun thread (TunEngine.autoBoot) registers, gives the tun device its *)
(* address, asks for the routes, calls initRoute, waits for its connection *)
(* to close and calls releaseRoute.  The event loop of the connection      *)
(* calls updateRouteList for each list the controller pushes.  Each of     *)
(* them reads the cache, removes the old routes from the system and adds   *)
(* the new ones, a command at a time, and sets the cache, without a lock.  *)
(*                                                                         *)
(* A list is a set of rules: the order in which a list's commands run does *)
(* not matter to the system's routes, of which there is one per            *)
(* destination (a second `add` of it fails, a second `delete` is accepted).*)
(* The system's routes through the tun device are the set `os`.            *)
(*                                                                         *)
(* The controller is reduced to its current list, sent in order            *)
(* (RouteConfig has what it really does).  The node keeps one VIP.         *)
(***************************************************************************)
EXTENDS Naturals, Sequences

CONSTANTS
    Dest,       \* destinations
    Hop,        \* VIPs of mesh nodes
    Own,        \* the VIP of this node
    Lists,      \* lists the administrator may set up
    Early,      \* when the routes may change while the node boots: any of Timing
    MaxInbox    \* bound on the messages on their way to the node

Rule == [dest : Dest, nexthop : Hop]

\* The routes of a node that is listed and boots do not change, or only when its
\* tun device has the address, or at any time.
Timing == {"never", "addressed", "any"}

ASSUMPTION NodeConstants ==
    /\ Own \in Hop
    /\ Lists \subseteq SUBSET Rule
    /\ Early \subseteq Timing
    /\ MaxInbox \in Nat

VARIABLES
    early,      \* which of Early it is: chosen at the start, it stays
    routes,     \* the controller's list
    conn,       \* whether the control connection is open
    listed,     \* whether the controller pushes to it (registered)
    inbox,      \* messages on their way to the node, in order
    stage,      \* where the tun thread is in autoBoot
    vip,        \* whether the tun address has been set
    cache,      \* RouteManager.cache
    os,         \* destinations the system routes into the tun device
    busy,       \* threads inside doUpdateRouteList
    dels, adds, \* destinations a thread has still to delete, to add
    new         \* the list a thread will put in the cache

controller == <<early, routes, conn, listed>>
frames == <<busy, dels, adds, new>>
vars == <<controller, inbox, stage, vip, cache, os, frames>>

Thread == {"tun", "loop"}

\* Before regist, setAddress and getRouteList; its answer awaited and there;
\* in initRoute, waiting for the close, in releaseRoute.
Stage == {"down", "address", "ask", "asked", "answered", "init", "wait", "release"}

Message == [type : {"push", "answer", "late"}, list : Lists]
Push(l) == [type |-> "push", list |-> l]
Answer(l) == [type |-> "answer", list |-> l]

Dests(l) == {r.dest : r \in l}
Foreign(l) == {r \in l : r.nexthop # Own}

\* Mutant: nothing is filtered.
FilterForgotten(l) == IF vip THEN l ELSE l

\* The filter of the lists: it compares with the VIP the tun address has.
Filtered(l) == IF vip THEN Foreign(l) ELSE l

Init ==
    /\ early \in Early
    /\ routes \in Lists
    /\ conn = TRUE /\ listed = FALSE
    /\ inbox = <<>>
    /\ stage = "down"
    /\ vip = FALSE
    /\ cache = {} /\ os = {}
    /\ busy = {}
    /\ dels = [p \in Thread |-> {}]
    /\ adds = [p \in Thread |-> {}]
    /\ new = [p \in Thread |-> {}]

-----------------------------------------------------------------------------
(***************************************************************************)
(* doUpdateRouteList                                                       *)
(***************************************************************************)

\* Mutant: whole rules are kept where the commands take destinations.
BeginRules(p, old, l) ==
    /\ busy' = busy \cup {p}
    /\ dels' = [dels EXCEPT ![p] = old]
    /\ adds' = [adds EXCEPT ![p] = Dests(Filtered(l))]
    /\ new' = [new EXCEPT ![p] = l]

\* Thread p has read the cache and the address and goes about replacing the
\* destinations of `old` by those of `l`, which then becomes the cache.
Begin(p, old, l) ==
    /\ busy' = busy \cup {p}
    /\ dels' = [dels EXCEPT ![p] = Dests(old)]
    /\ adds' = [adds EXCEPT ![p] = Dests(Filtered(l))]
    /\ new' = [new EXCEPT ![p] = l]

\* deleteRoute.  Deleting what is not there is accepted; without an address the
\* command fails, which is logged.
Delete(p) ==
    /\ p \in busy
    /\ \E d \in dels[p] :
          /\ dels' = [dels EXCEPT ![p] = @ \ {d}]
          /\ os' = IF vip THEN os \ {d} ELSE os
    /\ UNCHANGED <<controller, inbox, stage, vip, cache, busy, adds, new>>

\* Mutant: routes are added while old ones are still being deleted.
AddEarly(p) ==
    /\ p \in busy
    /\ \E d \in adds[p] :
          /\ adds' = [adds EXCEPT ![p] = @ \ {d}]
          /\ os' = IF vip THEN os \cup {d} ELSE os
    /\ UNCHANGED <<controller, inbox, stage, vip, cache, busy, dels, new>>

\* addRoute.  Adding what is there fails, which is logged; without an address
\* there is no interface to name.
Add(p) ==
    /\ p \in busy
    /\ dels[p] = {}
    /\ \E d \in adds[p] :
          /\ adds' = [adds EXCEPT ![p] = @ \ {d}]
          /\ os' = IF vip THEN os \cup {d} ELSE os
    /\ UNCHANGED <<controller, inbox, stage, vip, cache, busy, dels, new>>

\* Mutant: the cache keeps the filtered list.
DoneFiltered(p) ==
    /\ p \in busy
    /\ dels[p] = {} /\ adds[p] = {}
    /\ cache' = Foreign(new[p])
    /\ busy' = busy \ {p}
    /\ new' = [new EXCEPT ![p] = {}]
    /\ UNCHANGED <<dels, adds>>

Done(p) ==
    /\ p \in busy
    /\ dels[p] = {} /\ adds[p] = {}
    /\ cache' = new[p]
    /\ busy' = busy \ {p}
    /\ new' = [new EXCEPT ![p] = {}]
    /\ UNCHANGED <<dels, adds>>

-----------------------------------------------------------------------------
(***************************************************************************)
(* The tun thread: autoBoot                                                *)
(***************************************************************************)

\* The controller registers the session.  The answer may come too late.
Regist ==
    /\ stage = "down" /\ conn
    /\ listed' = TRUE
    /\ stage' \in {"down", "address"}
    /\ UNCHANGED <<early, routes, conn, inbox, vip, cache, os, frames>>

\* The device gets its address, or not in time: autoBoot ends.
SetAddress ==
    /\ stage = "address"
    /\ \/ vip' = TRUE /\ stage' = "ask"
       \/ UNCHANGED vip /\ stage' = "down"
    /\ UNCHANGED <<controller, inbox, cache, os, frames>>

\* getRouteList: the controller answers with what it has.
Ask ==
    /\ stage = "ask" /\ conn
    /\ Len(inbox) < MaxInbox
    /\ inbox' = Append(inbox, Answer(routes))
    /\ stage' = "asked"
    /\ UNCHANGED <<controller, vip, cache, os, frames>>

\* "channel closed", or the call timeout: autoBoot ends with an exception and
\* the thread begins again.  An answer that is still to come is late.
AskFails ==
    /\ \/ stage = "ask" /\ ~conn
       \/ stage = "asked"
    /\ stage' = "down"
    /\ inbox' = [i \in 1..Len(inbox) |->
                    IF inbox[i].type = "answer"
                    THEN [inbox[i] EXCEPT !.type = "late"]
                    ELSE inbox[i]]
    /\ UNCHANGED <<controller, vip, cache, os, frames>>

\* initRoute: its old list is the cache as it is, not filtered.
InitRoute ==
    /\ stage = "answered"
    /\ Begin("tun", cache, new["tun"])
    /\ stage' = "init"
    /\ UNCHANGED <<controller, inbox, vip, cache, os>>

\* initRoute is over; the thread waits for the connection it finds to close.
InitDone ==
    /\ stage = "init"
    /\ Done("tun")
    /\ stage' = IF conn THEN "wait" ELSE "release"
    /\ UNCHANGED <<controller, inbox, vip, os>>

\* Mutant: the cache is emptied and the system's routes stay.
ReleaseForgets ==
    /\ stage = "release"
    /\ "tun" \notin busy
    /\ Begin("tun", {}, {})
    /\ UNCHANGED <<controller, inbox, stage, vip, cache, os>>

\* releaseRoute: nothing replaces the routes of the cache.
Release ==
    /\ stage = "release"
    /\ "tun" \notin busy
    /\ Begin("tun", Filtered(cache), {})
    /\ UNCHANGED <<controller, inbox, stage, vip, cache, os>>

ReleaseDone ==
    /\ stage = "release"
    /\ Done("tun")
    /\ stage' = "down"
    /\ UNCHANGED <<controller, inbox, vip, os>>

-----------------------------------------------------------------------------
(***************************************************************************)
(* The event loop                                                          *)
(***************************************************************************)

\* updateRouteList
DeliverPush ==
    /\ "loop" \notin busy
    /\ inbox # <<>> /\ Head(inbox).type = "push"
    /\ Begin("loop", Filtered(cache), Head(inbox).list)
    /\ inbox' = Tail(inbox)
    /\ UNCHANGED <<controller, stage, vip, cache, os>>

UpdateDone ==
    /\ Done("loop")
    /\ UNCHANGED <<controller, inbox, stage, vip, os>>

\* The answer completes the future the tun thread waits for.
DeliverAnswer ==
    /\ "loop" \notin busy
    /\ inbox # <<>> /\ Head(inbox).type = "answer"
    /\ stage = "asked"
    /\ new' = [new EXCEPT !["tun"] = Head(inbox).list]
    /\ stage' = "answered"
    /\ inbox' = Tail(inbox)
    /\ UNCHANGED <<controller, vip, cache, os, busy, dels, adds>>

\* No future is left for the answer.
DropLate ==
    /\ "loop" \notin busy
    /\ inbox # <<>> /\ Head(inbox).type = "late"
    /\ inbox' = Tail(inbox)
    /\ UNCHANGED <<controller, stage, vip, cache, os, frames>>

\* The connection closes, in between two messages; the tun thread may be
\* waiting for it.  What was on its way is lost.
Close ==
    /\ conn
    /\ "loop" \notin busy
    /\ conn' = FALSE /\ listed' = FALSE
    /\ inbox' = <<>>
    /\ stage' = IF stage = "wait" THEN "release" ELSE stage
    /\ UNCHANGED <<early, routes, vip, cache, os, frames>>

\* SDWanNode connects again.
Connect ==
    /\ ~conn
    /\ conn' = TRUE
    /\ UNCHANGED <<early, routes, listed, inbox, stage, vip, cache, os, frames>>

-----------------------------------------------------------------------------
(***************************************************************************)
(* The controller                                                          *)
(***************************************************************************)

\* A route is added, changed or removed, and the list pushed to who is listed.
Change(l) ==
    /\ listed => \/ stage = "wait"
                 \/ early = "addressed" /\ vip
                 \/ early = "any"
    /\ Len(inbox) < MaxInbox
    /\ routes' = l
    /\ inbox' = IF listed THEN Append(inbox, Push(l)) ELSE inbox
    /\ UNCHANGED <<early, conn, listed, stage, vip, cache, os, frames>>

-----------------------------------------------------------------------------
TunStep == Regist \/ SetAddress \/ Ask \/ AskFails \/ InitRoute \/ Release
TunUpdate == Delete("tun") \/ Add("tun") \/ InitDone \/ ReleaseDone
LoopStep ==
    \/ DeliverPush \/ DeliverAnswer \/ DropLate
    \/ Delete("loop") \/ Add("loop") \/ UpdateDone

Next ==
    \/ TunStep \/ TunUpdate \/ LoopStep
    \/ Close \/ Connect
    \/ \E l \in Lists : Change(l)

Spec == Init /\ [][Next]_vars

\* The threads of the node run, and the controller can be reached.
FairSpec ==
    /\ Spec
    /\ WF_vars(TunStep) /\ WF_vars(TunUpdate) /\ WF_vars(LoopStep)
    /\ WF_vars(Connect)

-----------------------------------------------------------------------------
(***************************************************************************)
(* Properties                                                              *)
(***************************************************************************)

\* Every variable has its type.
TypeOK ==
    /\ early \in Early
    /\ routes \in Lists
    /\ conn \in BOOLEAN /\ listed \in BOOLEAN
    /\ inbox \in Seq(Message)
    /\ stage \in Stage
    /\ vip \in BOOLEAN
    /\ cache \in Lists \cup {{}}
    /\ os \in SUBSET Dest
    /\ busy \in SUBSET Thread
    /\ dels \in [Thread -> SUBSET Dest]
    /\ adds \in [Thread -> SUBSET Dest]
    /\ new \in [Thread -> Lists \cup {{}}]

Current == stage = "wait" /\ listed /\ inbox = <<>> /\ busy = {} => cache = routes

Clean == stage = "release" /\ stage' = "down" => os' = {}

\* Between two updates the system has exactly the routes of the cache through
\* the tun device, those of the node itself excepted: none is left behind by a
\* list that was replaced, a boot that failed or a connection that closed, and
\* none is missing (doUpdateRouteList), if no push meets a boot.
OsFollows == early = "never" /\ busy = {} => os = Dests(Foreign(cache))

\* A node never routes into its tunnel what lies behind itself (the filters by
\* the VIP in initRoute and updateRouteList), even while the two threads are in
\* an update together: true as long as none is pushed before the address is set.
NoOwn == os \subseteq Dests(Foreign(UNION Lists))

\* Once booted and with nothing on its way, a node works with the list of the
\* controller: the answer to its request and the pushes come to the same, if no
\* push meets a boot.
CacheCurrent == early = "never" => Current

\* Whatever the tun thread is in the middle of, an update of the event loop with
\* nothing more on its way ends with the list of the controller (updateRouteList).
QuietUpdate == [][UpdateDone /\ listed /\ inbox = <<>> => cache' = routes]_vars

\* releaseRoute leaves no route in the system, if no push meets a boot.
ReleaseClean == [][early = "never" => Clean]_vars

\* A node whose connection lasts is registered on it: autoBoot waits for the
\* close of the connection it registered, to begin again on the next.
KeptRegistered == <>[]conn => []<>listed
=============================================================================
