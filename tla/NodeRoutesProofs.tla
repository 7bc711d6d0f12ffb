---------------------------- MODULE NodeRoutesProofs ----------------------------
(***************************************************************************)
(* What the routes of a node come to, for all sets of destinations, next   *)
(* hops and lists.  If none changes while it boots (early = "never"): the   *)
(* system follows the cache, the cache follows the controller, a release   *)
(* leaves nothing.  However the threads meet: an update of the event loop  *)
(* ends with the controller's list, and the node's own routes stay out of  *)
(* the system if no update precedes the address.                           *)
(*                                                                         *)
(* The argument: without a change during the boot no push is on its way    *)
(* then, so the two threads are never in an update together (Solo); each   *)
(* update, taken alone, goes from the old list to the new one (Progress).  *)
(* Otherwise, all that is left is what each thread adds by itself (Kept)   *)
(* and the order of the pushes on one connection (Newest).                 *)
(***************************************************************************)
EXTENDS NodeRoutes, SequenceTheorems, TLAPS

\* Who may be in an update, with an address and with which list.
Solo ==
    /\ "loop" \in busy => stage = "wait"
    /\ "tun" \in busy => stage \in {"init", "release"}
    /\ stage = "init" => "tun" \in busy
    /\ stage \notin {"down", "address"} => vip
    /\ stage \notin {"answered", "init"} => new["tun"] = {}

\* What is on its way at each stage of the tun thread.
Traffic ==
    /\ stage \in {"down", "address", "ask"} =>
           \A i \in 1..Len(inbox) : inbox[i].type = "late"
    /\ stage = "asked" =>
           \A i \in 1..Len(inbox) :
               inbox[i].type = "late" \/ (inbox[i].type = "answer" /\ i = Len(inbox))
    /\ stage \in {"answered", "init", "release"} => inbox = <<>>
    /\ stage = "wait" => \A i \in 1..Len(inbox) : inbox[i].type = "push"

\* The last list on its way, or in work, is the controller's.
Latest ==
    listed =>
        /\ stage = "asked" =>
               \A i \in 1..Len(inbox) : inbox[i].type = "answer" => inbox[i].list = routes
        /\ stage \in {"answered", "init"} => new["tun"] = routes
        /\ stage = "wait" =>
               IF inbox # <<>> THEN inbox[Len(inbox)].list = routes
               ELSE IF "loop" \in busy THEN new["loop"] = routes
               ELSE cache = routes

Target(p) == Dests(Foreign(new[p]))

\* An update deletes what the system has, then adds what it should have.
Progress ==
    /\ busy = {} => os = Dests(Foreign(cache))
    /\ \A p \in busy :
          \/ adds[p] = Target(p) /\ os = Dests(Foreign(cache)) \cap dels[p]
          \/ dels[p] = {} /\ adds[p] \subseteq Target(p) /\ os = Target(p) \ adds[p]

IInv == TypeOK /\ (early = "never" => Solo /\ Traffic /\ Latest /\ Progress)

USE NodeConstants

-----------------------------------------------------------------------------
LEMMA DestsTyped ==
    ASSUME NEW l \in SUBSET Rule
    PROVE  Dests(l) \in SUBSET Dest /\ Foreign(l) \in SUBSET Rule
  BY DEF Dests, Foreign, Rule

LEMMA MessageTyped ==
    ASSUME NEW l \in Lists
    PROVE  Push(l) \in Message /\ Answer(l) \in Message
  BY DEF Push, Answer, Message

\* What an event loop takes from its inbox.
LEMMA HeadTyped ==
    ASSUME TypeOK, inbox # <<>>
    PROVE  /\ Head(inbox) \in Message /\ Head(inbox).list \in Lists
           /\ Tail(inbox) \in Seq(Message)
<1>1. inbox \in Seq(Message)
  BY DEF TypeOK
<1>2. Head(inbox) \in Message /\ Tail(inbox) \in Seq(Message)
  BY <1>1
<1>3. QED
  BY <1>2 DEF Message

\* The types of the frame an update begins with.
LEMMA BeginTyped ==
    ASSUME TypeOK, NEW p \in Thread, NEW old \in Lists \cup {{}},
           NEW l \in Lists \cup {{}}, Begin(p, old, l)
    PROVE  /\ busy' \in SUBSET Thread
           /\ dels' \in [Thread -> SUBSET Dest]
           /\ adds' \in [Thread -> SUBSET Dest]
           /\ new' \in [Thread -> Lists \cup {{}}]
<1>1. old \in SUBSET Rule /\ l \in SUBSET Rule
  OBVIOUS
<1>2. Dests(old) \in SUBSET Dest /\ Dests(Filtered(l)) \in SUBSET Dest
  BY <1>1, DestsTyped DEF Filtered
<1>3. QED
  BY <1>2 DEF Begin, TypeOK

-----------------------------------------------------------------------------
LEMMA InitInductive == Init => IInv
<1> SUFFICES ASSUME Init PROVE IInv
  OBVIOUS
<1>1. TypeOK
  <2>1. inbox \in Seq(Message)
    BY DEF Init
  <2>2. new \in [Thread -> Lists \cup {{}}] /\ cache \in Lists \cup {{}}
    BY DEF Init
  <2>3. dels \in [Thread -> SUBSET Dest] /\ adds \in [Thread -> SUBSET Dest]
    BY DEF Init
  <2>4. QED
    BY <2>1, <2>2, <2>3 DEF Init, TypeOK, Stage
<1>2. Solo /\ Traffic /\ Latest
  BY DEF Init, Solo, Traffic, Latest, Thread
<1>3. Progress
  BY DEF Init, Progress, Dests, Foreign
<1>4. QED
  BY <1>1, <1>2, <1>3 DEF IInv

LEMMA TypeInductive == TypeOK /\ [Next]_vars => TypeOK'
<1> SUFFICES ASSUME TypeOK, [Next]_vars PROVE TypeOK'
  OBVIOUS
<1> USE DEF controller, frames, Stage
<1>1. CASE Regist \/ SetAddress
  BY <1>1 DEF Regist, SetAddress, TypeOK
<1>2. CASE Ask
  <2>1. Answer(routes) \in Message
    BY MessageTyped DEF TypeOK
  <2>2. QED
    BY <1>2, <2>1 DEF Ask, TypeOK
<1>3. CASE AskFails
  <2>1. ASSUME NEW m \in Message PROVE [m EXCEPT !.type = "late"] \in Message
    BY DEF Message
  <2>2. \A i \in 1..Len(inbox) : inbox[i] \in Message
    BY DEF TypeOK
  <2>3. inbox' \in Seq(Message)
    <3> DEFINE late(i) == IF inbox[i].type = "answer"
                          THEN [inbox[i] EXCEPT !.type = "late"] ELSE inbox[i]
    <3>1. \A i \in 1..Len(inbox) : late(i) \in Message
      BY <2>1, <2>2
    <3>2. Len(inbox) \in Nat
      BY DEF TypeOK
    <3>3. inbox' = [i \in 1..Len(inbox) |-> late(i)]
      BY <1>3 DEF AskFails
    <3> HIDE DEF late
    <3>4. QED
      BY <3>1, <3>2, <3>3
  <2>4. QED
    BY <1>3, <2>3 DEF AskFails, TypeOK
<1>4. CASE InitRoute
  BY <1>4, BeginTyped DEF InitRoute, TypeOK, Thread
<1>5. CASE Release
  <2>1. ASSUME NEW p \in Thread, Begin(p, Filtered(cache), {})
        PROVE  /\ busy' \in SUBSET Thread
               /\ dels' \in [Thread -> SUBSET Dest]
               /\ adds' \in [Thread -> SUBSET Dest]
               /\ new' \in [Thread -> Lists \cup {{}}]
    <3>1. cache \in SUBSET Rule
      BY DEF TypeOK
    <3>2. Dests(Filtered(cache)) \in SUBSET Dest /\ Dests(Filtered({})) \in SUBSET Dest
      BY <3>1, DestsTyped DEF Filtered
    <3>3. QED
      BY <2>1, <3>2 DEF Begin, TypeOK
  <2>2. QED
    BY <1>5, <2>1 DEF Release, TypeOK, Thread
<1>6. CASE DeliverPush
  <2>1. Head(inbox).list \in Lists /\ Tail(inbox) \in Seq(Message)
    BY <1>6, HeadTyped DEF DeliverPush
  <2>2. cache \in SUBSET Rule /\ Head(inbox).list \in SUBSET Rule
    BY <2>1 DEF TypeOK
  <2>3. /\ Dests(Filtered(cache)) \in SUBSET Dest
        /\ Dests(Filtered(Head(inbox).list)) \in SUBSET Dest
    BY <2>2, DestsTyped DEF Filtered
  <2>4. QED
    BY <1>6, <2>1, <2>3 DEF DeliverPush, Begin, TypeOK, Thread
<1>7. CASE DeliverAnswer
  BY <1>7, HeadTyped DEF DeliverAnswer, TypeOK, Thread
<1>14. CASE DropLate
  BY <1>14, HeadTyped DEF DropLate, TypeOK
<1>8. ASSUME NEW p \in Thread, Delete(p) \/ Add(p) PROVE TypeOK'
  <2>1. CASE Delete(p)
    BY <2>1 DEF Delete, TypeOK
  <2>2. CASE Add(p)
    BY <2>2 DEF Add, TypeOK
  <2>3. QED
    BY <1>8, <2>1, <2>2
<1>15. ASSUME NEW p \in Thread, Done(p)
       PROVE  /\ cache' \in Lists \cup {{}} /\ busy' \in SUBSET Thread
              /\ dels' \in [Thread -> SUBSET Dest] /\ adds' \in [Thread -> SUBSET Dest]
              /\ new' \in [Thread -> Lists \cup {{}}]
  BY <1>15 DEF Done, TypeOK
<1>9. CASE InitDone \/ ReleaseDone \/ UpdateDone
  <2>1. CASE InitDone
    BY <2>1, <1>15 DEF InitDone, TypeOK, Thread
  <2>2. CASE ReleaseDone
    BY <2>2, <1>15 DEF ReleaseDone, TypeOK, Thread
  <2>3. CASE UpdateDone
    BY <2>3, <1>15 DEF UpdateDone, TypeOK, Thread
  <2>4. QED
    BY <1>9, <2>1, <2>2, <2>3
<1>10. CASE Close \/ Connect
  <2>1. <<>> \in Seq(Message)
    OBVIOUS
  <2>2. CASE Close
    BY <2>1, <2>2 DEF Close, TypeOK
  <2>3. CASE Connect
    BY <2>3 DEF Connect, TypeOK
  <2>4. QED
    BY <1>10, <2>2, <2>3
<1>11. ASSUME NEW l \in Lists, Change(l) PROVE TypeOK'
  <2>1. Push(l) \in Message
    BY MessageTyped
  <2>2. QED
    BY <1>11, <2>1 DEF Change, TypeOK
<1>12. CASE UNCHANGED vars
  BY <1>12 DEF vars, TypeOK
<1>13. QED
  BY <1>1, <1>2, <1>3, <1>4, <1>5, <1>6, <1>7, <1>8, <1>9, <1>10, <1>11, <1>12,
     <1>14 DEF Next, TunStep, TunUpdate, LoopStep, Thread

\* The type invariant holds whenever the routes change.
THEOREM TypeCorrect == Spec => []TypeOK
<1>1. Init => TypeOK
  BY InitInductive DEF IInv
<1>2. QED
  BY <1>1, TypeInductive, PTL DEF Spec

-----------------------------------------------------------------------------
(***************************************************************************)
(* With no change of the routes while the node boots.                      *)
(***************************************************************************)

\* A thread in an update is alone in it, and the tun device has its address.
LEMMA Alone ==
    ASSUME TypeOK, Solo, NEW p \in busy
    PROVE  p \in Thread /\ busy = {p} /\ vip /\ stage \notin {"answered", "asked", "ask"}
<1>1. p \in Thread
  BY DEF TypeOK
<1>2. QED
  BY <1>1 DEF Solo, TypeOK, Thread

LEMMA SoloInductive == early = "never" /\ TypeOK /\ Solo /\ Traffic /\ [Next]_vars => Solo'
<1> SUFFICES ASSUME early = "never", TypeOK, Solo, Traffic, [Next]_vars PROVE Solo'
  OBVIOUS
<1> USE DEF controller, frames, Thread
<1>1. CASE TunStep
  BY <1>1 DEF TunStep, Regist, SetAddress, Ask, AskFails, InitRoute, Release, Begin,
              Solo, TypeOK
<1>2. CASE InitDone \/ ReleaseDone
  BY <1>2 DEF InitDone, ReleaseDone, Done, Solo, TypeOK
<1>3. ASSUME NEW p \in Thread, Delete(p) \/ Add(p) PROVE Solo'
  BY <1>3 DEF Delete, Add, Solo
<1>4. CASE DeliverPush
  <2>1. stage = "wait"
    <3>1. Len(inbox) \in Nat /\ Len(inbox) >= 1 /\ Head(inbox) = inbox[1]
      BY <1>4 DEF DeliverPush, TypeOK
    <3>2. inbox[1].type = "push"
      BY <1>4, <3>1 DEF DeliverPush
    <3>3. QED
      BY <3>1, <3>2, <1>4 DEF DeliverPush, Traffic, TypeOK, Stage
  <2>2. QED
    BY <1>4, <2>1 DEF DeliverPush, Begin, Solo, TypeOK
<1>5. CASE UpdateDone \/ DeliverAnswer \/ DropLate
  BY <1>5 DEF UpdateDone, DeliverAnswer, DropLate, Done, Solo, TypeOK
<1>6. CASE Close \/ Connect
  BY <1>6 DEF Close, Connect, Solo
<1>7. CASE \E l \in Lists : Change(l)
  BY <1>7 DEF Change, Solo
<1>8. CASE UNCHANGED vars
  BY <1>8 DEF vars, Solo
<1>9. QED
  BY <1>1, <1>2, <1>3, <1>4, <1>5, <1>6, <1>7, <1>8 DEF Next, TunUpdate, LoopStep

LEMMA ProgressInductive == TypeOK /\ Solo /\ Solo' /\ Progress /\ [Next]_vars => Progress'
<1> SUFFICES ASSUME TypeOK, Solo, Solo', Progress, [Next]_vars PROVE Progress'
  OBVIOUS
<1> USE DEF controller, frames
<1>1. ASSUME NEW p \in Thread, NEW old, NEW l, Begin(p, old, l), busy = {},
             vip, UNCHANGED <<cache, os>>,
             old = cache \/ old = Foreign(cache)
      PROVE  Progress'
  <2>1. Dests(Foreign(cache)) \subseteq Dests(old)
    BY <1>1 DEF Dests, Foreign
  <2>2. busy' = {p} /\ dels'[p] = Dests(old) /\ adds'[p] = Dests(Foreign(l)) /\ new'[p] = l
    BY <1>1 DEF Begin, TypeOK, Filtered
  <2>3. os = Dests(Foreign(cache))
    BY <1>1 DEF Progress
  <2>4. Target(p)' = Dests(Foreign(l))
    BY <2>2 DEF Target, Dests, Foreign
  <2>5. os' = Dests(Foreign(cache))' \cap dels'[p]
    BY <1>1, <2>1, <2>2, <2>3 DEF Dests, Foreign
  <2>6. QED
    BY <2>2, <2>4, <2>5 DEF Progress
<1>2. CASE InitRoute
  <2>1. busy = {} /\ vip
    BY <1>2 DEF InitRoute, Solo, TypeOK, Thread
  <2>2. QED
    BY <1>1, <1>2, <2>1 DEF InitRoute, Thread
<1>3. CASE Release
  <2>1. busy = {} /\ vip
    BY <1>3 DEF Release, Solo, TypeOK, Thread
  <2>2. QED
    BY <1>1, <1>3, <2>1 DEF Release, Thread, Filtered
<1>4. CASE DeliverPush
  <2>1. busy = {} /\ vip
    BY <1>4 DEF DeliverPush, Begin, Solo, TypeOK, Thread
  <2>2. QED
    BY <1>1, <1>4, <2>1 DEF DeliverPush, Thread, Filtered
<1>5. ASSUME NEW p \in Thread, Delete(p) PROVE Progress'
  <2>1. p \in busy /\ busy = {p} /\ vip
    BY <1>5, Alone DEF Delete
  <2>2. PICK d \in dels[p] : dels' = [dels EXCEPT ![p] = @ \ {d}] /\ os' = os \ {d}
    BY <1>5, <2>1 DEF Delete
  <2>3. dels'[p] = dels[p] \ {d}
    BY <2>2 DEF TypeOK
  <2>4. adds[p] = Target(p) /\ os = Dests(Foreign(cache)) \cap dels[p]
    BY <2>1, <2>2 DEF Progress
  <2>5. UNCHANGED <<Target(p), Dests(Foreign(cache)), busy, adds>>
    BY <1>5 DEF Delete, Target, Dests, Foreign
  <2>6. QED
    BY <2>1, <2>2, <2>3, <2>4, <2>5 DEF Progress
<1>6. ASSUME NEW p \in Thread, Add(p) PROVE Progress'
  <2>1. p \in busy /\ busy = {p} /\ vip /\ dels[p] = {}
    BY <1>6, Alone DEF Add
  <2>2. PICK d \in adds[p] : adds' = [adds EXCEPT ![p] = @ \ {d}] /\ os' = os \cup {d}
    BY <1>6, <2>1 DEF Add
  <2>3. adds'[p] = adds[p] \ {d}
    BY <2>2 DEF TypeOK
  <2>4. adds[p] \subseteq Target(p) /\ os = Target(p) \ adds[p]
    BY <2>1 DEF Progress
  <2>5. UNCHANGED <<Target(p), Dests(Foreign(cache)), busy, dels>>
    BY <1>6 DEF Add, Target, Dests, Foreign
  <2>6. QED
    BY <2>1, <2>2, <2>3, <2>4, <2>5 DEF Progress
<1>7. ASSUME NEW p \in Thread, Done(p), UNCHANGED os PROVE Progress'
  <2>1. busy = {p} /\ busy' = {} /\ cache' = new[p]
    BY <1>7, Alone DEF Done
  <2>2. os = Target(p)
    BY <1>7, <2>1 DEF Progress, Done
  <2>3. Dests(Foreign(cache))' = Target(p)
    BY <2>1 DEF Target, Dests, Foreign
  <2>4. QED
    BY <1>7, <2>1, <2>2, <2>3 DEF Progress
<1>8. CASE InitDone \/ ReleaseDone \/ UpdateDone
  BY <1>7, <1>8 DEF InitDone, ReleaseDone, UpdateDone, Thread
<1>9. CASE DeliverAnswer
  <2>1. busy = {} /\ UNCHANGED <<busy, os, cache>>
    BY <1>9 DEF DeliverAnswer, Solo, TypeOK, Thread
  <2>2. QED
    BY <2>1 DEF Progress, Dests, Foreign
<1>10. ASSUME UNCHANGED <<os, cache, frames>> PROVE Progress'
  BY <1>10 DEF Progress, Target, Dests, Foreign
<1>11. CASE Regist \/ SetAddress \/ Ask \/ AskFails \/ DropLate \/ Close \/ Connect
  BY <1>10, <1>11 DEF Regist, SetAddress, Ask, AskFails, DropLate, Close, Connect
<1>12. CASE \E l \in Lists : Change(l)
  BY <1>10, <1>12 DEF Change
<1>13. CASE UNCHANGED vars
  BY <1>10, <1>13 DEF vars
<1>14. QED
  BY <1>2, <1>3, <1>4, <1>5, <1>6, <1>8, <1>9, <1>11, <1>12, <1>13
     DEF Next, TunStep, TunUpdate, LoopStep, Thread

\* An inbox from which the first message was taken.
LEMMA TailInbox ==
    ASSUME TypeOK, inbox # <<>>
    PROVE  /\ Len(inbox) \in Nat /\ Len(inbox) >= 1 /\ Head(inbox) = inbox[1]
           /\ Len(Tail(inbox)) = Len(inbox) - 1
           /\ \A i \in 1..(Len(inbox) - 1) : Tail(inbox)[i] = inbox[i + 1]
           /\ Tail(inbox) = <<>> <=> Len(inbox) = 1
<1>1. inbox \in Seq(Message)
  BY DEF TypeOK
<1>2. /\ Len(inbox) \in Nat /\ Len(inbox) >= 1 /\ Head(inbox) = inbox[1]
      /\ Tail(inbox) \in Seq(Message) /\ Len(Tail(inbox)) = Len(inbox) - 1
      /\ \A i \in 1..(Len(inbox) - 1) : Tail(inbox)[i] = inbox[i + 1]
  BY <1>1
<1>3. Tail(inbox) = <<>> <=> Len(Tail(inbox)) = 0
  BY <1>2, EmptySeq
<1>4. QED
  BY <1>2, <1>3

\* An inbox to which a message was appended.
LEMMA AppendInbox ==
    ASSUME TypeOK, NEW m
    PROVE  /\ Len(inbox) \in Nat /\ Append(inbox, m) # <<>>
           /\ Len(Append(inbox, m)) = Len(inbox) + 1
           /\ \A i \in 1..Len(inbox) : Append(inbox, m)[i] = inbox[i]
           /\ Append(inbox, m)[Len(inbox) + 1] = m
<1>1. inbox \in Seq(Message)
  BY DEF TypeOK
<1>2. QED
  BY <1>1

\* Which thread may take the first message, and what is left behind it.
LEMMA FirstMessage ==
    ASSUME TypeOK, Traffic, inbox # <<>>
    PROVE  /\ Head(inbox).type = "push" => stage = "wait"
           /\ Head(inbox).type = "answer" => stage = "asked" /\ Len(inbox) = 1
           /\ Head(inbox).type = "late" => stage \in {"down", "address", "ask", "asked"}
<1>1. Len(inbox) \in Nat /\ Len(inbox) >= 1 /\ Head(inbox) = inbox[1]
  BY TailInbox
<1>2. stage \in Stage
  BY DEF TypeOK
<1>3. 1 \in 1..Len(inbox)
  BY <1>1
<1>4. CASE stage \in {"down", "address", "ask"}
  <2>1. inbox[1].type = "late"
    BY <1>3, <1>4 DEF Traffic
  <2>2. QED
    BY <1>1, <1>4, <2>1
<1>5. CASE stage = "asked"
  <2>1. inbox[1].type = "late" \/ (inbox[1].type = "answer" /\ 1 = Len(inbox))
    BY <1>3, <1>5 DEF Traffic
  <2>2. QED
    BY <1>1, <1>5, <2>1
<1>6. CASE stage = "wait"
  <2>1. inbox[1].type = "push"
    BY <1>3, <1>6 DEF Traffic
  <2>2. QED
    BY <1>1, <1>6, <2>1
<1>7. QED
  BY <1>2, <1>4, <1>5, <1>6 DEF Traffic, Stage

LEMMA TrafficInductive ==
    early = "never" /\ TypeOK /\ Solo /\ Traffic /\ [Next]_vars => Traffic'
<1> SUFFICES ASSUME early = "never", TypeOK, Solo, Traffic, [Next]_vars PROVE Traffic'
  OBVIOUS
<1> USE DEF controller, frames
<1>1. CASE Regist \/ SetAddress \/ InitRoute \/ Release
  BY <1>1 DEF Regist, SetAddress, InitRoute, Release, Traffic
<1>2. CASE Ask
  <2>1. \A i \in 1..Len(inbox) : inbox[i].type = "late"
    BY <1>2 DEF Ask, Traffic
  <2>2. Answer(routes).type = "answer"
    BY DEF Answer
  <2>3. inbox' = Append(inbox, Answer(routes)) /\ stage' = "asked"
    BY <1>2 DEF Ask
  <2>4. \A i \in 1..Len(inbox)' :
            inbox'[i].type = "late" \/ (inbox'[i].type = "answer" /\ i = Len(inbox)')
    BY <2>1, <2>2, <2>3, AppendInbox
  <2>5. QED
    BY <2>3, <2>4 DEF Traffic
<1>3. CASE AskFails
  <2>1. Len(inbox) \in Nat
    BY DEF TypeOK
  <2>2. Len(inbox)' = Len(inbox)
    BY <1>3, <2>1 DEF AskFails
  <2>3. \A i \in 1..Len(inbox) : inbox[i].type \in {"late", "answer"}
    BY <1>3 DEF AskFails, Traffic
  <2>4. \A i \in 1..Len(inbox) : inbox[i] \in Message
    BY DEF TypeOK
  <2>5. \A i \in 1..Len(inbox) : inbox'[i].type = "late"
    BY <1>3, <2>1, <2>3, <2>4 DEF AskFails, Message
  <2>6. QED
    BY <1>3, <2>2, <2>5 DEF AskFails, Traffic
<1>4. CASE InitDone \/ ReleaseDone
  <2>1. inbox' = <<>> /\ stage' \in {"wait", "release", "down"}
    BY <1>4 DEF InitDone, ReleaseDone, Traffic
  <2>2. Len(inbox') = 0
    BY <2>1
  <2>3. QED
    BY <2>1, <2>2 DEF Traffic
<1>5. ASSUME NEW p \in Thread, Delete(p) \/ Add(p) PROVE Traffic'
  BY <1>5 DEF Delete, Add, Traffic
<1>6. CASE DeliverPush
  <2>1. inbox # <<>> /\ inbox' = Tail(inbox) /\ stage' = "wait"
    BY <1>6, FirstMessage DEF DeliverPush
  <2>2. \A i \in 1..Len(inbox) : inbox[i].type = "push"
    BY <2>1, <1>6 DEF DeliverPush, Traffic
  <2>3. \A i \in 1..Len(inbox)' : inbox'[i].type = "push"
    BY <2>1, <2>2, TailInbox
  <2>4. QED
    BY <2>1, <2>3 DEF Traffic
<1>7. CASE DeliverAnswer
  <2>1. inbox' = <<>> /\ stage' = "answered"
    BY <1>7, FirstMessage, TailInbox DEF DeliverAnswer
  <2>2. QED
    BY <2>1 DEF Traffic
<1>8. CASE DropLate
  <2>1. /\ inbox # <<>> /\ inbox' = Tail(inbox)
        /\ stage' = stage /\ stage \in {"down", "address", "ask", "asked"}
    BY <1>8, FirstMessage DEF DropLate
  <2>2. CASE stage = "asked"
    <3>1. \A i \in 1..Len(inbox) :
              inbox[i].type = "late" \/ (inbox[i].type = "answer" /\ i = Len(inbox))
      BY <2>2 DEF Traffic
    <3>2. \A i \in 1..Len(inbox)' :
              inbox'[i].type = "late" \/ (inbox'[i].type = "answer" /\ i = Len(inbox)')
      <4> TAKE i \in 1..Len(inbox)'
      <4>1. Len(inbox) \in Nat /\ Len(inbox)' = Len(inbox) - 1
        BY <2>1, TailInbox
      <4>2. i \in 1..(Len(inbox) - 1) /\ i + 1 \in 1..Len(inbox)
        BY <4>1
      <4>3. inbox'[i] = inbox[i + 1]
        BY <2>1, <4>2, TailInbox
      <4>4. inbox[i + 1].type = "late" \/ (inbox[i + 1].type = "answer" /\ i + 1 = Len(inbox))
        BY <3>1, <4>2
      <4>5. QED
        BY <4>1, <4>2, <4>3, <4>4
    <3>3. QED
      BY <2>1, <2>2, <3>2 DEF Traffic
  <2>3. CASE stage # "asked"
    <3>1. \A i \in 1..Len(inbox) : inbox[i].type = "late"
      BY <2>1, <2>3 DEF Traffic
    <3>2. \A i \in 1..Len(inbox)' : inbox'[i].type = "late"
      BY <2>1, <3>1, TailInbox
    <3>3. QED
      BY <2>1, <2>3, <3>2 DEF Traffic
  <2>4. QED
    BY <2>2, <2>3
<1>9. CASE UpdateDone
  BY <1>9 DEF UpdateDone, Done, Traffic
<1>10. CASE Close
  <2>1. inbox' = <<>> /\ Len(inbox') = 0
    BY <1>10 DEF Close
  <2>2. QED
    BY <2>1 DEF Traffic
<1>11. CASE Connect
  BY <1>11 DEF Connect, Traffic
<1>12. ASSUME NEW l \in Lists, Change(l) PROVE Traffic'
  <2>1. CASE ~listed
    BY <1>12, <2>1 DEF Change, Traffic
  <2>2. CASE listed
    <3>1. stage = "wait" /\ stage' = "wait" /\ inbox' = Append(inbox, Push(l))
      BY <1>12, <2>2 DEF Change
    <3>2. Push(l).type = "push"
      BY DEF Push
    <3>3. \A i \in 1..Len(inbox)' : inbox'[i].type = "push"
      BY <3>1, <3>2, AppendInbox DEF Traffic
    <3>4. QED
      BY <3>1, <3>3 DEF Traffic
  <2>3. QED
    BY <2>1, <2>2
<1>13. CASE UNCHANGED vars
  BY <1>13 DEF vars, Traffic
<1>14. QED
  BY <1>1, <1>2, <1>3, <1>4, <1>5, <1>6, <1>7, <1>8, <1>9, <1>10, <1>11, <1>12, <1>13
     DEF Next, TunStep, TunUpdate, LoopStep, Thread

LEMMA LatestInductive ==
    early = "never" /\ TypeOK /\ Solo /\ Traffic /\ Latest /\ [Next]_vars => Latest'
<1> SUFFICES ASSUME early = "never", TypeOK, Solo, Traffic, Latest, [Next]_vars PROVE Latest'
  OBVIOUS
<1> USE DEF controller, frames
<1>1. CASE Regist \/ SetAddress \/ AskFails \/ Release \/ ReleaseDone \/ Close
  <2>1. ~listed' \/ stage' \in {"down", "address", "ask", "release"}
    BY <1>1 DEF Regist, SetAddress, AskFails, Release, ReleaseDone, Close
  <2>2. QED
    BY <2>1 DEF Latest
<1>2. CASE Ask
  <2>1. \A i \in 1..Len(inbox) : inbox[i].type = "late"
    BY <1>2 DEF Ask, Traffic
  <2>2. Answer(routes).list = routes
    BY DEF Answer
  <2>3. inbox' = Append(inbox, Answer(routes)) /\ stage' = "asked" /\ routes' = routes
    BY <1>2 DEF Ask
  <2>4. \A i \in 1..Len(inbox)' : inbox'[i].type = "answer" => inbox'[i].list = routes'
    BY <2>1, <2>2, <2>3, AppendInbox
  <2>5. QED
    BY <2>3, <2>4 DEF Latest
<1>3. CASE InitRoute
  BY <1>3 DEF InitRoute, Begin, Latest, TypeOK, Thread
<1>4. CASE InitDone
  <2>1. inbox' = <<>> /\ "loop" \notin busy'
    BY <1>4 DEF InitDone, Done, Traffic, Solo
  <2>2. QED
    BY <1>4, <2>1 DEF InitDone, Done, Latest
<1>5. ASSUME NEW p \in Thread, Delete(p) \/ Add(p) PROVE Latest'
  BY <1>5 DEF Delete, Add, Latest
<1>6. CASE DeliverPush
  <2>1. inbox # <<>> /\ inbox' = Tail(inbox) /\ stage = "wait" /\ stage' = "wait"
    BY <1>6, FirstMessage DEF DeliverPush
  <2>2. "loop" \in busy' /\ new'["loop"] = Head(inbox).list /\ UNCHANGED <<routes, listed>>
    BY <1>6 DEF DeliverPush, Begin, TypeOK, Thread
  <2>3. listed => inbox[Len(inbox)].list = routes
    BY <2>1 DEF Latest
  <2>4. CASE Len(inbox) = 1
    BY <2>1, <2>2, <2>3, <2>4, TailInbox DEF Latest
  <2>5. CASE Len(inbox) # 1
    <3>1. inbox' # <<>> /\ inbox'[Len(inbox')] = inbox[Len(inbox)]
      BY <2>1, <2>5, TailInbox
    <3>2. QED
      BY <2>1, <2>2, <2>3, <3>1 DEF Latest
  <2>6. QED
    BY <2>4, <2>5
<1>7. CASE DeliverAnswer
  <2>1. Len(inbox) = 1 /\ Head(inbox) = inbox[1] /\ inbox[1].type = "answer"
    BY <1>7, FirstMessage, TailInbox DEF DeliverAnswer
  <2>2. listed => Head(inbox).list = routes
    BY <1>7, <2>1 DEF DeliverAnswer, Latest
  <2>3. QED
    BY <1>7, <2>2 DEF DeliverAnswer, Latest, TypeOK, Thread
<1>8. CASE DropLate
  <2>1. /\ inbox # <<>> /\ inbox' = Tail(inbox) /\ UNCHANGED <<stage, routes, listed>>
        /\ stage \in {"down", "address", "ask", "asked"}
    BY <1>8, FirstMessage DEF DropLate
  <2>2. CASE listed /\ stage = "asked"
    <3>1. \A i \in 1..Len(inbox) : inbox[i].type = "answer" => inbox[i].list = routes
      BY <2>2 DEF Latest
    <3>2. \A i \in 1..Len(inbox)' : inbox'[i].type = "answer" => inbox'[i].list = routes'
      BY <2>1, <3>1, TailInbox
    <3>3. QED
      BY <2>1, <2>2, <3>2 DEF Latest
  <2>3. QED
    BY <2>1, <2>2 DEF Latest
<1>9. CASE UpdateDone
  <2>1. "loop" \in busy /\ stage = "wait" /\ cache' = new["loop"] /\ "loop" \notin busy'
    BY <1>9 DEF UpdateDone, Done, Solo
  <2>2. QED
    BY <1>9, <2>1 DEF UpdateDone, Latest
<1>10. CASE Connect
  BY <1>10 DEF Connect, Latest
<1>11. ASSUME NEW l \in Lists, Change(l) PROVE Latest'
  <2>1. CASE ~listed
    BY <1>11, <2>1 DEF Change, Latest
  <2>2. CASE listed
    <3>1. stage = "wait" /\ stage' = "wait" /\ inbox' = Append(inbox, Push(l)) /\ routes' = l
      BY <1>11, <2>2 DEF Change
    <3>2. Push(l).list = l
      BY DEF Push
    <3>3. inbox' # <<>> /\ inbox'[Len(inbox')].list = routes'
      BY <3>1, <3>2, AppendInbox
    <3>4. QED
      BY <3>1, <3>3 DEF Latest
  <2>3. QED
    BY <2>1, <2>2
<1>12. CASE UNCHANGED vars
  BY <1>12 DEF vars, Latest
<1>13. QED
  BY <1>1, <1>2, <1>3, <1>4, <1>5, <1>6, <1>7, <1>8, <1>9, <1>10, <1>11, <1>12
     DEF Next, TunStep, TunUpdate, LoopStep, Thread

\* When the routes may change stays as it was chosen.
LEMMA EarlyStays == [Next]_vars => early' = early
BY DEF Next, TunStep, TunUpdate, LoopStep, Regist, SetAddress, Ask, AskFails, InitRoute,
       Release, Delete, Add, InitDone, ReleaseDone, DeliverPush, UpdateDone, DeliverAnswer,
       DropLate, Close, Connect, Change, vars, controller

LEMMA Inductive == IInv /\ [Next]_vars => IInv'
BY TypeInductive, SoloInductive, TrafficInductive, LatestInductive, ProgressInductive,
   EarlyStays DEF IInv

-----------------------------------------------------------------------------
\* If no push meets a boot, the system has exactly the routes of the cache between
\* two updates.
THEOREM SystemFollows == Spec => []OsFollows
<1>1. IInv => OsFollows
  BY DEF IInv, Progress, OsFollows
<1>2. QED
  BY <1>1, InitInductive, Inductive, PTL DEF Spec

\* If no push meets a boot, a node with nothing on its way works with the
\* controller's list.
THEOREM CacheFollows == Spec => []CacheCurrent
<1>1. IInv => CacheCurrent
  BY DEF IInv, Latest, CacheCurrent, Current
<1>2. QED
  BY <1>1, InitInductive, Inductive, PTL DEF Spec

\* If no push meets a boot, releaseRoute leaves no route in the system.
THEOREM ReleaseLeavesNone == Spec => ReleaseClean
<1>1. IInv /\ [Next]_vars => [early = "never" => Clean]_vars
  <2> SUFFICES ASSUME IInv, Next, early = "never", stage = "release", stage' = "down"
               PROVE  os' = {}
    BY DEF vars, Clean
  <2>1. ReleaseDone
    BY DEF Next, TunStep, TunUpdate, LoopStep, Regist, SetAddress, Ask, AskFails, InitRoute,
           Release, Delete, Add, InitDone, DeliverPush, UpdateDone, DeliverAnswer,
           DropLate, Close, Connect, Change
  <2>2. "tun" \in busy /\ dels["tun"] = {} /\ adds["tun"] = {} /\ os' = os
    BY <2>1 DEF ReleaseDone, Done
  <2>3. new["tun"] = {}
    BY DEF IInv, Solo
  <2>4. os = {}
    BY <2>2, <2>3 DEF IInv, Progress, Target, Dests, Foreign
  <2>5. QED
    BY <2>2, <2>4
<1>2. QED
  BY <1>1, InitInductive, Inductive, PTL DEF Spec, ReleaseClean

-----------------------------------------------------------------------------
(***************************************************************************)
(* However the two threads meet.                                           *)
(***************************************************************************)

\* What a thread has still to add, and what was added, is behind other nodes;
\* the tun thread updates nothing before there is an address.
Kept ==
    /\ stage \notin {"down", "address"} => vip
    /\ \A p \in Thread : adds[p] \subseteq Dests(Foreign(UNION Lists))
    /\ os \subseteq Dests(Foreign(UNION Lists))

LEMMA FilteredKept ==
    ASSUME NEW l \in Lists \cup {{}}, vip
    PROVE  Dests(Filtered(l)) \subseteq Dests(Foreign(UNION Lists))
  BY DEF Dests, Foreign, Filtered

LEMMA KeptInductive ==
    TypeOK /\ Kept /\ [Next]_vars /\ [DeliverPush => vip]_vars => Kept'
<1> SUFFICES ASSUME TypeOK, Kept, [Next]_vars, [DeliverPush => vip]_vars PROVE Kept'
  OBVIOUS
<1> USE DEF controller, frames, Thread
<1> DEFINE Behind == Dests(Foreign(UNION Lists))
<1>0. Kept' <=> /\ stage' \notin {"down", "address"} => vip'
                /\ \A p \in Thread : adds'[p] \subseteq Behind
                /\ os' \subseteq Behind
  BY DEF Kept, Dests, Foreign
<1>00. Kept <=> /\ stage \notin {"down", "address"} => vip
                /\ \A p \in Thread : adds[p] \subseteq Behind
                /\ os \subseteq Behind
  BY DEF Kept
<1>a. \A l \in Lists \cup {{}} : vip => Dests(Filtered(l)) \subseteq Behind
  BY FilteredKept
<1>b. Dests(Filtered({})) \subseteq Behind
  BY DEF Dests, Foreign, Filtered
<1> HIDE DEF Behind
<1>1. CASE Regist \/ SetAddress \/ Ask \/ AskFails
  BY <1>0, <1>00, <1>1 DEF Regist, SetAddress, Ask, AskFails
<1>2. ASSUME NEW p \in Thread, NEW old, NEW l \in Lists \cup {{}}, Begin(p, old, l), vip \/ l = {}
      PROVE  \A q \in Thread : adds'[q] \subseteq Behind
  <2>1. Dests(Filtered(l)) \subseteq Behind
    BY <1>a, <1>b, <1>2
  <2>2. QED
    BY <1>00, <1>2, <2>1 DEF Begin, TypeOK
<1>3. CASE InitRoute
  <2>1. vip /\ new["tun"] \in Lists \cup {{}}
    BY <1>00, <1>3 DEF InitRoute, TypeOK
  <2>2. QED
    BY <1>0, <1>00, <1>2, <1>3, <2>1 DEF InitRoute
<1>4. CASE Release
  BY <1>0, <1>00, <1>2, <1>4 DEF Release
<1>5. ASSUME NEW p \in Thread, Delete(p) PROVE Kept'
  BY <1>0, <1>00, <1>5 DEF Delete
<1>6. ASSUME NEW p \in Thread, Add(p) PROVE Kept'
  <2>1. PICK d \in adds[p] : /\ adds' = [adds EXCEPT ![p] = @ \ {d}]
                             /\ os' = IF vip THEN os \cup {d} ELSE os
    BY <1>6 DEF Add
  <2>2. \A q \in Thread : adds'[q] \subseteq adds[q]
    BY <2>1 DEF TypeOK
  <2>3. os' \subseteq Behind
    BY <1>00, <2>1
  <2>4. UNCHANGED <<stage, vip>>
    BY <1>6 DEF Add
  <2>5. QED
    BY <1>0, <1>00, <2>2, <2>3, <2>4
<1>7. CASE InitDone \/ ReleaseDone \/ UpdateDone
  BY <1>0, <1>00, <1>7 DEF InitDone, ReleaseDone, UpdateDone, Done
<1>8. CASE DeliverPush
  <2>1. vip /\ Head(inbox).list \in Lists
    BY <1>8, HeadTyped DEF DeliverPush, vars, Begin, TypeOK
  <2>2. QED
    BY <1>0, <1>00, <1>2, <1>8, <2>1 DEF DeliverPush
<1>9. CASE DeliverAnswer \/ DropLate \/ Close \/ Connect
  BY <1>0, <1>00, <1>9 DEF DeliverAnswer, DropLate, Close, Connect
<1>10. CASE \E l \in Lists : Change(l)
  BY <1>0, <1>00, <1>10 DEF Change
<1>11. CASE UNCHANGED vars
  BY <1>0, <1>00, <1>11 DEF vars
<1>12. QED
  BY <1>1, <1>3, <1>4, <1>5, <1>6, <1>7, <1>8, <1>9, <1>10, <1>11
     DEF Next, TunStep, TunUpdate, LoopStep

\* An own route can only come into the system by an update that precedes the
\* address: without one, none does, whatever the two threads do to each other.
THEOREM OwnLeftOut == Spec /\ [][DeliverPush => vip]_vars => []NoOwn
<1>1. Init => TypeOK /\ Kept
  <2>1. Init => TypeOK
    BY InitInductive DEF IInv
  <2>2. Init => Kept
    BY DEF Init, Kept, Thread
  <2>3. QED
    BY <2>1, <2>2
<1>2. Kept => NoOwn
  BY DEF Kept, NoOwn
<1>3. QED
  BY <1>1, <1>2, TypeInductive, KeptInductive, PTL DEF Spec

IsPush(i) == inbox[i].type = "push"
Pushless == \A i \in 1..Len(inbox) : ~IsPush(i)

\* Pushes are on their way, or in work, on a registered connection only, and the
\* last of them is the controller's list.
Newest ==
    /\ ~listed => "loop" \notin busy /\ Pushless
    /\ listed =>
           /\ "loop" \in busy /\ Pushless => new["loop"] = routes
           /\ \A i \in 1..Len(inbox) :
                  IsPush(i) /\ (\A j \in 1..Len(inbox) : j > i => ~IsPush(j))
                      => inbox[i].list = routes

\* What keeps the pushes of the inbox as they are keeps Newest.
LEMMA NewestKept ==
    ASSUME TypeOK, Newest, Len(inbox') = Len(inbox), UNCHANGED <<routes, busy, new>>,
           listed' = listed \/ (listed' /\ ~listed),
           \A i \in 1..Len(inbox) :
               /\ inbox'[i].type = "push" <=> inbox[i].type = "push"
               /\ IsPush(i) => inbox'[i] = inbox[i]
    PROVE  Newest'
  BY DEF Newest, IsPush, Pushless

LEMMA NewestInductive == TypeOK /\ Newest /\ [Next]_vars => Newest'
<1> SUFFICES ASSUME TypeOK, Newest, [Next]_vars PROVE Newest'
  OBVIOUS
<1> USE DEF controller, frames, Thread
<1>0. Len(inbox) \in Nat
  BY DEF TypeOK
<1>a. ASSUME UNCHANGED <<inbox, routes, busy>>, listed' = listed \/ (listed' /\ ~listed),
             new'["loop"] = new["loop"]
      PROVE  Newest'
  BY <1>a DEF Newest, IsPush, Pushless
<1>1. CASE Regist \/ SetAddress \/ Connect
  BY <1>a, <1>1 DEF Regist, SetAddress, Connect, TypeOK
<1>2. CASE Ask
  <2>1. Answer(routes).type = "answer"
    BY DEF Answer
  <2>2. inbox' = Append(inbox, Answer(routes)) /\ UNCHANGED <<routes, listed, busy, new>>
    BY <1>2 DEF Ask
  <2>3. Len(inbox)' = Len(inbox) + 1 /\ inbox'[Len(inbox) + 1].type # "push"
    BY <2>1, <2>2, AppendInbox
  <2>4. \A i \in 1..Len(inbox) : inbox'[i] = inbox[i]
    BY <2>2, AppendInbox
  <2>5. Pushless' <=> Pushless
    BY <1>0, <2>3, <2>4 DEF Pushless, IsPush
  <2>6. ASSUME listed, NEW i \in 1..Len(inbox)', IsPush(i)',
               \A j \in 1..Len(inbox)' : j > i => ~IsPush(j)'
        PROVE  inbox'[i].list = routes
    <3>1. i \in 1..Len(inbox)
      BY <1>0, <2>3, <2>6 DEF IsPush
    <3>2. IsPush(i) /\ \A j \in 1..Len(inbox) : j > i => ~IsPush(j)
      BY <1>0, <2>3, <2>4, <2>6, <3>1 DEF IsPush
    <3>3. QED
      BY <2>4, <2>6, <3>1, <3>2 DEF Newest
  <2>7. QED
    BY <2>2, <2>5, <2>6 DEF Newest
<1>3. CASE AskFails
  <2>1. Len(inbox') = Len(inbox) /\ UNCHANGED <<routes, listed, busy, new>>
    BY <1>0, <1>3 DEF AskFails
  <2>2. \A i \in 1..Len(inbox) : inbox[i] \in Message
    BY DEF TypeOK
  <2>3. \A i \in 1..Len(inbox) :
            /\ inbox'[i].type = "push" <=> inbox[i].type = "push"
            /\ IsPush(i) => inbox'[i] = inbox[i]
    BY <1>0, <1>3, <2>2 DEF AskFails, IsPush, Message
  <2>4. QED
    BY <2>1, <2>3, NewestKept
<1>4. ASSUME NEW p \in Thread, Delete(p) \/ Add(p) PROVE Newest'
  BY <1>a, <1>4 DEF Delete, Add
<1>5. ASSUME UNCHANGED <<inbox, routes, listed>>, new'["loop"] = new["loop"],
             "loop" \in busy' <=> "loop" \in busy
      PROVE  Newest'
  BY <1>5 DEF Newest, IsPush, Pushless
<1>6. CASE InitRoute \/ Release
  BY <1>5, <1>6 DEF InitRoute, Release, Begin, TypeOK
<1>7. CASE InitDone \/ ReleaseDone
  BY <1>5, <1>7 DEF InitDone, ReleaseDone, Done, TypeOK
<1>8. CASE UpdateDone
  <2>1. "loop" \notin busy' /\ UNCHANGED <<inbox, routes, listed>>
    BY <1>8 DEF UpdateDone, Done
  <2>2. QED
    BY <2>1 DEF Newest, IsPush, Pushless
<1>9. ASSUME inbox # <<>>, inbox' = Tail(inbox), UNCHANGED <<routes, listed>>,
             "loop" \notin busy,
             \/ "loop" \notin busy' /\ Head(inbox).type # "push"
             \/ "loop" \in busy' /\ Head(inbox).type = "push" /\ new'["loop"] = Head(inbox).list
      PROVE  Newest'
  <2>1. /\ Len(inbox) >= 1 /\ Head(inbox) = inbox[1] /\ Len(inbox)' = Len(inbox) - 1
        /\ \A i \in 1..(Len(inbox) - 1) : inbox'[i] = inbox[i + 1]
    BY <1>9, TailInbox
  <2>2. \A i \in 1..(Len(inbox) - 1) : IsPush(i)' <=> IsPush(i + 1)
    BY <2>1 DEF IsPush
  <2>3. ASSUME Pushless' PROVE \A j \in 1..Len(inbox) : j > 1 => ~IsPush(j)
    <3> TAKE j \in 1..Len(inbox)
    <3> HAVE j > 1
    <3>1. j - 1 \in 1..(Len(inbox) - 1) /\ (j - 1) + 1 = j
      BY <1>0
    <3>2. QED
      BY <2>1, <2>2, <2>3, <3>1 DEF Pushless
  <2>4. ASSUME listed, NEW i \in 1..Len(inbox)', IsPush(i)',
               \A j \in 1..Len(inbox)' : j > i => ~IsPush(j)'
        PROVE  inbox'[i].list = routes
    <3>1. i + 1 \in 1..Len(inbox) /\ IsPush(i + 1) /\ inbox'[i] = inbox[i + 1]
      BY <1>0, <2>1, <2>2, <2>4
    <3>2. \A j \in 1..Len(inbox) : j > i + 1 => ~IsPush(j)
      <4> TAKE j \in 1..Len(inbox)
      <4> HAVE j > i + 1
      <4>1. j - 1 \in 1..(Len(inbox) - 1) /\ (j - 1) + 1 = j /\ j - 1 > i
        BY <1>0, <2>1
      <4>2. QED
        BY <2>1, <2>2, <2>4, <4>1
    <3>3. QED
      BY <2>4, <3>1, <3>2 DEF Newest
  <2>5. ASSUME listed, "loop" \in busy', Pushless' PROVE new'["loop"] = routes
    <3>1. 1 \in 1..Len(inbox) /\ IsPush(1)
      BY <1>0, <1>9, <2>1, <2>5 DEF IsPush
    <3>2. QED
      BY <1>9, <2>1, <2>3, <2>5, <3>1 DEF Newest
  <2>6. ASSUME ~listed PROVE "loop" \notin busy' /\ Pushless'
    <3>1. Pushless
      BY <2>6 DEF Newest
    <3>2. Head(inbox).type # "push"
      BY <1>0, <2>1, <3>1 DEF Pushless, IsPush
    <3>3. \A i \in 1..Len(inbox)' : ~IsPush(i)'
      <4> TAKE i \in 1..Len(inbox)'
      <4>1. i \in 1..(Len(inbox) - 1) /\ i + 1 \in 1..Len(inbox)
        BY <1>0, <2>1
      <4>2. QED
        BY <2>2, <3>1, <4>1 DEF Pushless
    <3>4. QED
      BY <1>9, <3>2, <3>3 DEF Pushless
  <2>7. QED
    BY <1>9, <2>4, <2>5, <2>6 DEF Newest
<1>10. CASE DeliverPush
  <2>1. new'["loop"] = Head(inbox).list /\ "loop" \in busy'
    BY <1>10 DEF DeliverPush, Begin, TypeOK
  <2>2. QED
    BY <1>9, <1>10, <2>1 DEF DeliverPush
<1>11. CASE DeliverAnswer \/ DropLate
  BY <1>9, <1>11 DEF DeliverAnswer, DropLate
<1>12. CASE Close
  <2>1. ~listed' /\ "loop" \notin busy' /\ Len(inbox') = 0
    BY <1>12 DEF Close
  <2>2. QED
    BY <2>1 DEF Newest, Pushless
<1>13. ASSUME NEW l \in Lists, Change(l) PROVE Newest'
  <2>1. CASE ~listed
    BY <1>13, <2>1 DEF Change, Newest, Pushless, IsPush
  <2>2. CASE listed
    <3>1. inbox' = Append(inbox, Push(l)) /\ routes' = l /\ UNCHANGED <<listed, busy, new>>
      BY <1>13, <2>2 DEF Change
    <3>2. Push(l).type = "push" /\ Push(l).list = l
      BY DEF Push
    <3>3. Len(inbox)' = Len(inbox) + 1 /\ inbox'[Len(inbox) + 1] = Push(l)
      BY <3>1, AppendInbox
    <3>4. Len(inbox) + 1 \in 1..Len(inbox)' /\ inbox'[Len(inbox) + 1].type = "push"
      BY <1>0, <3>2, <3>3
    <3>5. ~Pushless'
      BY <3>4 DEF Pushless, IsPush
    <3>6. ASSUME NEW i \in 1..Len(inbox)', \A j \in 1..Len(inbox)' : j > i => ~IsPush(j)'
          PROVE  inbox'[i].list = l
      <4>1. i = Len(inbox) + 1
        BY <1>0, <3>3, <3>4, <3>6 DEF IsPush
      <4>2. QED
        BY <3>2, <3>3, <4>1
    <3>7. QED
      BY <2>2, <3>1, <3>5, <3>6 DEF Newest
  <2>3. QED
    BY <2>1, <2>2
<1>14. CASE UNCHANGED vars
  BY <1>a, <1>14 DEF vars
<1>15. QED
  BY <1>1, <1>2, <1>3, <1>4, <1>6, <1>7, <1>8, <1>10, <1>11, <1>12, <1>13, <1>14
     DEF Next, TunStep, TunUpdate, LoopStep

\* Whatever the tun thread is in the middle of, an update of the event loop with
\* nothing more on its way ends with the controller's list.
THEOREM LoopCatchesUp == Spec => QuietUpdate
<1>1. Init => TypeOK /\ Newest
  <2>1. Init => TypeOK
    BY InitInductive DEF IInv
  <2>2. Init => Newest
    BY DEF Init, Newest, Pushless
  <2>3. QED
    BY <2>1, <2>2
<1>2. TypeOK /\ Newest => [UpdateDone /\ listed /\ inbox = <<>> => cache' = routes]_vars
  <2> SUFFICES ASSUME Newest, UpdateDone, listed, inbox = <<>> PROVE cache' = routes
    OBVIOUS
  <2>1. Pushless
    BY DEF Pushless
  <2>2. "loop" \in busy /\ cache' = new["loop"]
    BY DEF UpdateDone, Done
  <2>3. QED
    BY <2>1, <2>2 DEF Newest
<1>3. QED
  BY <1>1, <1>2, TypeInductive, NewestInductive, PTL DEF Spec, QuietUpdate
=============================================================================
