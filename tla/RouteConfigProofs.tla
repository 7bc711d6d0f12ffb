--------------------------- MODULE RouteConfigProofs ---------------------------
(***************************************************************************)
(* For any number of nodes, routes and HTTP threads: the types of          *)
(* RouteConfig, and CurrentTold - no interleaving of calls, joins and      *)
(* leaves makes an online node miss the routes the table ends with.        *)
(*                                                                         *)
(* CurrentTold speaks of the moments at rest only.  What is true all along *)
(* is that somebody still owes the present routes to each node that has    *)
(* not been sent them: the handler of its own request, which has its read  *)
(* of the routes ahead, or a push that has that read ahead or has read     *)
(* what the table still has, and not come to that node yet.                *)
(*                                                                         *)
(* With a single dashboard thread, what a node was sent last is what the   *)
(* table has (CurrentLast).                                                *)
(***************************************************************************)
EXTENDS RouteConfig, TLAPS

\* Thread t will still send n the routes the table has now.
Owes(t, n) ==
    \/ pc[t] = "routes"
    \/ pc[t] \in {"nodes", "channels"} /\ list[t] = route
    \/ pc[t] = "send" /\ list[t] = route /\ n \in todo[t]

Owed(n) ==
    \/ n \in told
    \/ boot[n] \in {"ask", "mesh"}
    \/ \E t \in Http : Owes(t, n)

\* While routes name mesh nodes no push fails, so every debt is paid.
Owing == Refers => \A n \in Online : Owed(n)

\* Routes only name ids that have been given out: no registration to come can
\* make a list possible that was not when a push failed.
Known ==
    /\ \A r \in Rows(route) : node[route[r].mesh] # Fresh
    /\ \A t \in Http : row[t] # None => node[row[t].mesh] # Fresh

\* A call that is going to write has its row.
Frames == \A t \in Http : pc[t] \in {"insert", "write"} => row[t] # None

IInv == TypeOK /\ Known /\ Frames /\ Owing

USE RouteConstants

\* The values that stand for no row are no rows.
LEMMA NullValues ==
    /\ Fresh # Gone
    /\ Fresh \notin NodeRow /\ Gone \notin NodeRow
    /\ Fresh \notin RouteRow /\ Gone \notin RouteRow /\ None \notin RouteRow
    /\ None \notin Vip
  BY DEF NodeRow, RouteRow

-----------------------------------------------------------------------------
\* HopsOf is a map from nodes to addresses.
LEMMA HopsTyped ==
    ASSUME TypeOK, NEW S \in SUBSET Existing
    PROVE  HopsOf(S) \in Hops
  BY DEF TypeOK, HopsOf, Hops, Existing, NodeRow

\* A join that finds all its nodes is a list of rules.
LEMMA JoinTyped ==
    ASSUME NEW table \in Table, NEW hop \in Hops, Joinable(table, hop)
    PROVE  Joined(table, hop) \in RuleList
<1>1. ASSUME NEW r \in Rows(table)
      PROVE  [dest |-> table[r].dest, nexthop |-> hop[table[r].mesh]] \in Rule
  <2>1. table[r] \in RouteRow
    BY DEF Rows
  <2>2. table[r].dest \in Dest /\ table[r].mesh \in Node
    BY <2>1 DEF RouteRow
  <2>3. hop[table[r].mesh] \in Vip
    BY <2>2 DEF Joinable, Hops
  <2>4. QED
    BY <2>2, <2>3 DEF Rule
<1>2. QED
  BY <1>1 DEF Joined, RuleList

\* The join over the nodes that exist fails only where Refers is false.
LEMMA RefersJoins ==
    ASSUME TypeOK, Refers
    PROVE  Joinable(route, HopsOf(Existing))
<1>1. ASSUME NEW r \in Rows(route)
      PROVE  HopsOf(Existing)[route[r].mesh] # None
  <2>1. route[r].mesh \in Existing
    BY DEF Refers, MeshNodes
  <2>2. node[route[r].mesh].vip \in Vip
    BY <2>1 DEF Existing, NodeRow
  <2>3. QED
    BY <2>1, <2>2 DEF HopsOf, Existing
<1>2. QED
  BY <1>1 DEF Joinable

\* The types of what LeaveAll leaves.
LEMMA LeaveTyped ==
    ASSUME TypeOK, NEW out \in SUBSET Node, LeaveAll(out)
    PROVE  /\ sess' \in [Node -> Vip \cup {None}]
           /\ boot' \in [Node -> {"off", "ask", "mesh", "reply", "served"}]
           /\ hops' \in [Node -> Hops]
           /\ own' \in [Node -> RuleList \cup {None}]
           /\ queued' \in [Node -> RuleList \cup {None}]
           /\ last' \in [Node -> RuleList \cup {None}]
           /\ todo' \in [Http -> SUBSET Node]
           /\ told' \in SUBSET Node
  BY DEF TypeOK, LeaveAll, Hops

\* Who leaves is owed nothing; nobody else loses a debt.
LEMMA LeaveOwing ==
    ASSUME TypeOK, NEW out \in SUBSET Node, LeaveAll(out), Owing,
           UNCHANGED <<tables, list>>,
           \A t \in Http : pc'[t] = pc[t] \/ (pc[t] = "kick" /\ pc'[t] = "idle")
    PROVE  Owing'
<1>1. SUFFICES ASSUME Refers', NEW n \in Online'
               PROVE  Owed(n)'
  BY DEF Owing
<1>2. n \in Online /\ n \notin out
  BY <1>1 DEF Online, LeaveAll
<1>3. Refers
  BY <1>1 DEF Refers, Rows, MeshNodes, Existing, tables
<1>4. Owed(n)
  BY <1>2, <1>3 DEF Owing
<1>5. CASE n \in told
  BY <1>5, <1>2 DEF Owed, LeaveAll
<1>6. CASE boot[n] \in {"ask", "mesh"}
  BY <1>6, <1>2 DEF Owed, LeaveAll, Online
<1>7. CASE \E t \in Http : Owes(t, n)
  <2>1. PICK t \in Http : Owes(t, n)
    BY <1>7
  <2>2. pc'[t] = pc[t]
    BY <2>1 DEF Owes
  <2>3. n \in todo[t] => n \in todo'[t]
    BY <1>2 DEF LeaveAll
  <2>4. Owes(t, n)'
    BY <2>1, <2>2, <2>3 DEF Owes, tables
  <2>5. QED
    BY <2>4 DEF Owed
<1>8. QED
  BY <1>4, <1>5, <1>6, <1>7 DEF Owed

-----------------------------------------------------------------------------
LEMMA InitInductive == Init => IInv
<1> SUFFICES ASSUME Init PROVE IInv
  OBVIOUS
<1>1. TypeOK
  BY DEF Init, TypeOK, Table, NoTable, NoRules, RuleList, Hops, Stage
<1>2. Known /\ Frames
  BY NullValues DEF Init, Known, Frames, Rows, NoTable
<1>3. Owing
  BY DEF Init, Owing, Online
<1>4. QED
  BY <1>1, <1>2, <1>3 DEF IInv

\* A call about to push owes every node.
LEMMA PushOwing ==
    ASSUME NEW t \in Http, pc' = [pc EXCEPT ![t] = "routes"],
           TypeOK
    PROVE  Owing'
  BY DEF Owing, Owed, Owes, TypeOK

\* What becomes of debts where only their grounds can change.
LEMMA OwingKept ==
    ASSUME Owing, Refers' => Refers, Online' \subseteq Online,
           \A n \in Online' : Owed(n) => Owed(n)'
    PROVE  Owing'
  BY DEF Owing

-----------------------------------------------------------------------------
LEMMA Inductive == IInv /\ [Next]_vars => IInv'
<1> SUFFICES ASSUME TypeOK, Known, Frames, Owing, [Next]_vars
             PROVE  IInv'
  BY DEF IInv
<1> USE NullValues
<1> USE DEF tables, calls, sessions, Goto
<1>1. ASSUME NEW n \in Node, Register(n) PROVE IInv'
  <2>1. PICK new \in NodeRow : node' = [node EXCEPT ![n] = new]
    BY <1>1 DEF Register
  <2>2. TypeOK'
    BY <1>1, <2>1 DEF Register, TypeOK
  <2>3. Known' /\ Frames'
    BY <1>1, <2>1 DEF Register, Known, Frames, TypeOK, Rows, RouteRow, Table
  <2>4. Refers' => Refers
    <3>1. ASSUME NEW r \in Rows(route) PROVE route[r].mesh # n
      BY <1>1 DEF Known, Register
    <3>2. MeshNodes' \subseteq MeshNodes \cup {n}
      BY <2>1 DEF MeshNodes, Existing, TypeOK
    <3>3. QED
      BY <1>1, <3>1, <3>2 DEF Register, Refers, Rows
  <2>5. Owing'
    BY <1>1, <2>4, OwingKept DEF Register, Online, Owed, Owes
  <2>6. QED
    BY <2>2, <2>3, <2>5 DEF IInv
<1>2. ASSUME NEW n \in Node, Join(n) PROVE IInv'
  <2>1. TypeOK'
    BY <1>2 DEF Join, TypeOK, Existing, NodeRow
  <2>2. Known' /\ Frames'
    BY <1>2 DEF Join, Known, Frames, Rows
  <2>3. Owing'
    BY <1>2 DEF Join, Owing, Owed, Owes, Online, Refers, Rows, MeshNodes,
                Existing, TypeOK
  <2>4. QED
    BY <2>1, <2>2, <2>3 DEF IInv
<1>3. ASSUME NEW n \in Node, Leave(n) PROVE IInv'
  <2>1. TypeOK'
    BY <1>3, LeaveTyped DEF Leave, TypeOK
  <2>2. Known' /\ Frames'
    BY <1>3 DEF Leave, Known, Frames, Rows
  <2>3. Owing'
    BY <1>3, LeaveOwing DEF Leave
  <2>4. QED
    BY <2>1, <2>2, <2>3 DEF IInv
<1>4. ASSUME NEW n \in Node, Handle(n) PROVE IInv'
  <2>1. TypeOK'
    <3>1. CASE ReadMesh(n)
      <4>1. HopsOf(MeshNodes) \in Hops
        BY HopsTyped DEF MeshNodes
      <4>2. QED
        BY <3>1, <4>1 DEF ReadMesh, TypeOK
    <3>2. CASE ReadRules(n)
      <4>1. Joined(route, hops[n]) \in RuleList
        BY <3>2, JoinTyped DEF ReadRules, TypeOK
      <4>2. QED
        BY <3>2, <4>1 DEF ReadRules, TypeOK, Hops
    <3>5. CASE AnswerRoutes(n)
      BY <3>5 DEF AnswerRoutes, Answered, TypeOK
    <3>3. CASE AnswerFails(n)
      BY <3>3 DEF AnswerFails, Answered, TypeOK, Hops
    <3>4. QED
      BY <1>4, <3>1, <3>2, <3>3, <3>5 DEF Handle
  <2>2. UNCHANGED <<node, route, pc, list, todo, row, sess>>
    BY <1>4 DEF Handle, ReadMesh, ReadRules, AnswerRoutes, AnswerFails
  <2>3. Known' /\ Frames'
    BY <2>2 DEF Known, Frames, Rows
  <2>4. /\ told \subseteq told'
        /\ n \in told' \/ boot'[n] \in {"ask", "mesh"} \/ boot[n] = "reply"
        /\ \A m \in Node \ {n} : boot'[m] = boot[m]
    BY <1>4 DEF Handle, ReadMesh, ReadRules, AnswerRoutes, AnswerFails, TypeOK
  <2>5. Owing'
    BY <2>2, <2>4, OwingKept
       DEF Refers, Rows, MeshNodes, Existing, Online, Owed, Owes
  <2>6. QED
    BY <2>1, <2>3, <2>5 DEF IInv
<1>5. ASSUME NEW t \in Http, NEW n \in Node, NEW d \in Dest, SaveRoute(t, n, d)
      PROVE  IInv'
  <2>1. [dest |-> d, mesh |-> n] \in RouteRow
    BY DEF RouteRow
  <2>2. TypeOK'
    BY <1>5, <2>1 DEF SaveRoute, TypeOK, Stage
  <2>3. Known' /\ Frames'
    BY <1>5, <2>1 DEF SaveRoute, Known, Frames, Rows, TypeOK, MeshNodes, Existing
  <2>4. Owing'
    BY <1>5, OwingKept DEF SaveRoute, TypeOK, Refers, Rows, MeshNodes, Existing,
                           Online, Owed, Owes
  <2>5. QED
    BY <2>2, <2>3, <2>4 DEF IInv
<1>6. ASSUME NEW t \in Http, NEW r \in Route, InsertRoute(t, r) PROVE IInv'
  <2>1. row[t] \in RouteRow /\ node[row[t].mesh] # Fresh
    BY <1>6 DEF InsertRoute, TypeOK, Frames, Known
  <2>2. TypeOK'
    BY <1>6, <2>1 DEF InsertRoute, SetRoutes, TypeOK, Table, Stage
  <2>3. Known' /\ Frames'
    BY <1>6, <2>1 DEF InsertRoute, SetRoutes, Known, Frames, Rows, TypeOK, Table
  <2>4. Owing'
    BY <1>6, PushOwing DEF InsertRoute
  <2>5. QED
    BY <2>2, <2>3, <2>4 DEF IInv
<1>7. ASSUME NEW t \in Http, NEW r \in Route, DeleteRoute(t, r) PROVE IInv'
  <2>1. TypeOK'
    BY <1>7 DEF DeleteRoute, SetRoutes, TypeOK, Table, Stage
  <2>2. Known' /\ Frames'
    BY <1>7 DEF DeleteRoute, SetRoutes, Known, Frames, Rows, TypeOK, Table
  <2>3. Owing'
    BY <1>7, PushOwing DEF DeleteRoute
  <2>4. QED
    BY <2>1, <2>2, <2>3 DEF IInv
<1>8. ASSUME NEW t \in Http, NEW r \in Route, NEW n \in Node, NEW d \in Dest,
             UpdateRoute(t, r, n, d)
      PROVE  IInv'
  <2>1. [dest |-> d, mesh |-> n] \in RouteRow
    BY DEF RouteRow
  <2>2. TypeOK'
    BY <1>8, <2>1 DEF UpdateRoute, TypeOK, Stage
  <2>3. Known' /\ Frames'
    BY <1>8, <2>1 DEF UpdateRoute, Known, Frames, Rows, TypeOK
  <2>4. Owing'
    BY <1>8, OwingKept DEF UpdateRoute, TypeOK, Refers, Rows, MeshNodes,
                           Existing, Online, Owed, Owes
  <2>5. QED
    BY <2>2, <2>3, <2>4 DEF IInv
<1>9. ASSUME NEW t \in Http, WriteRoute(t) PROVE IInv'
  <2>1. row[t] \in RouteRow /\ node[row[t].mesh] # Fresh
    BY <1>9 DEF WriteRoute, TypeOK, Frames, Known
  <2>2. TypeOK'
    BY <1>9, <2>1 DEF WriteRoute, SetRoutes, TypeOK, Table, Stage
  <2>3. Known' /\ Frames'
    BY <1>9, <2>1 DEF WriteRoute, SetRoutes, Known, Frames, Rows, TypeOK, Table
  <2>4. Owing'
    BY <1>9, PushOwing DEF WriteRoute
  <2>5. QED
    BY <2>2, <2>3, <2>4 DEF IInv
<1>10. ASSUME NEW t \in Http,
              ReadRoutes(t) \/ ReadNodes(t) \/ ReadChannels(t) \/ Pushed(t)
       PROVE  IInv'
  <2>1. TypeOK'
    <3>1. CASE ReadRoutes(t)
      BY <3>1 DEF ReadRoutes, TypeOK, Stage, RuleList, NoRules
    <3>2. CASE ReadNodes(t)
      <4>1. HopsOf(Existing) \in Hops
        BY HopsTyped
      <4>2. Joined(list[t], HopsOf(Existing)) \in RuleList
        BY <3>2, <4>1, JoinTyped DEF ReadNodes, TypeOK
      <4>3. QED
        BY <3>2, <4>2 DEF ReadNodes, TypeOK, Stage
    <3>3. CASE ReadChannels(t)
      BY <3>3 DEF ReadChannels, TypeOK, Stage, Online
    <3>4. CASE Pushed(t)
      BY <3>4 DEF Pushed, EndPush, TypeOK, Stage, Table, NoTable, RuleList, NoRules
    <3>5. QED
      BY <1>10, <3>1, <3>2, <3>3, <3>4
  <2>2. Known' /\ Frames'
    BY <1>10 DEF ReadRoutes, ReadNodes, ReadChannels, Pushed, EndPush, Known,
                 Frames, Rows, TypeOK
  <2>3. UNCHANGED <<node, route, sess, boot, told>>
    BY <1>10 DEF ReadRoutes, ReadNodes, ReadChannels, Pushed
  <2>4. ASSUME NEW n \in Online, Owes(t, n) PROVE Owes(t, n)'
    BY <1>10, <2>4 DEF ReadRoutes, ReadNodes, ReadChannels, Pushed, Owes, TypeOK
  <2>5. ASSUME NEW u \in Http \ {t}, NEW n \in Online, Owes(u, n) PROVE Owes(u, n)'
    BY <1>10, <2>5 DEF ReadRoutes, ReadNodes, ReadChannels, Pushed, EndPush, Owes,
                       TypeOK
  <2>6. Owing'
    BY <2>3, <2>4, <2>5, OwingKept
       DEF Refers, Rows, MeshNodes, Existing, Online, Owed
  <2>7. QED
    BY <2>1, <2>2, <2>6 DEF IInv
<1>11. ASSUME NEW t \in Http, PushFails(t) PROVE IInv'
  <2>1. TypeOK'
    BY <1>11 DEF PushFails, EndPush, TypeOK, Stage, Table, NoTable, RuleList, NoRules
  <2>2. Known' /\ Frames'
    BY <1>11 DEF PushFails, EndPush, Known, Frames, Rows, TypeOK
  <2>3. Refers' => Refers
    BY <1>11 DEF PushFails, Refers, Rows, MeshNodes, Existing
  <2>4. Refers => \A n \in Online : ~Owes(t, n)
    BY <1>11, RefersJoins DEF PushFails, Owes
  <2>5. ASSUME NEW u \in Http \ {t}, NEW n \in Online, Owes(u, n) PROVE Owes(u, n)'
    BY <1>11, <2>5 DEF PushFails, EndPush, Owes, TypeOK
  <2>6. Owing'
    BY <1>11, <2>3, <2>4, <2>5 DEF PushFails, Owing, Owed, Online
  <2>7. QED
    BY <2>1, <2>2, <2>6 DEF IInv
<1>12. ASSUME NEW t \in Http, NEW n \in Node, Send(t, n) PROVE IInv'
  <2>1. TypeOK'
    BY <1>12 DEF Send, TypeOK
  <2>2. Known' /\ Frames'
    BY <1>12 DEF Send, Known, Frames, Rows
  <2>3. ASSUME NEW u \in Http, NEW m \in Online, Owes(u, m)
        PROVE  Owes(u, m)' \/ m \in told'
    BY <1>12, <2>3 DEF Send, Owes, TypeOK
  <2>4. Owing'
    BY <1>12, <2>3, OwingKept
       DEF Send, Refers, Rows, MeshNodes, Existing, Online, Owed
  <2>5. QED
    BY <2>1, <2>2, <2>4 DEF IInv
<1>13. ASSUME NEW t \in Http, NEW n \in Node, NEW v \in EditVip, UpdateNode(t, n, v)
       PROVE  IInv'
  <2>1. [node[n] EXCEPT !.vip = v] \in NodeRow /\ node[n].vip \in Vip
    BY <1>13 DEF UpdateNode, Existing, NodeRow
  <2>2. node' = [node EXCEPT ![n] = [node[n] EXCEPT !.vip = v]]
    BY <1>13 DEF UpdateNode
  <2>3. TypeOK'
    BY <1>13, <2>1, <2>2 DEF UpdateNode, TypeOK, Stage
  <2>4. Known' /\ Frames'
    BY <1>13, <2>1, <2>2 DEF UpdateNode, Known, Frames, Rows, TypeOK
  <2>5. Refers' => Refers
    <3>1. MeshNodes' \subseteq MeshNodes
      BY <1>13, <2>1, <2>2 DEF UpdateNode, MeshNodes, Existing, NodeRow, TypeOK
    <3>2. QED
      BY <1>13, <3>1 DEF UpdateNode, Refers, Rows
  <2>6. Owing'
    BY <1>13, <2>5, OwingKept DEF UpdateNode, TypeOK, Online, Owed, Owes
  <2>7. QED
    BY <2>3, <2>4, <2>6 DEF IInv
<1>14. ASSUME NEW t \in Http, NEW n \in Node, DeleteNode(t, n) PROVE IInv'
  <2>1. TypeOK'
    BY <1>14 DEF DeleteNode, TypeOK, Stage, Existing, NodeRow
  <2>2. Known' /\ Frames'
    BY <1>14 DEF DeleteNode, Known, Frames, Rows, TypeOK
  <2>3. Owing'
    BY <1>14, OwingKept DEF DeleteNode, TypeOK, Refers, Rows, MeshNodes, Existing,
                            Online, Owed, Owes
  <2>4. QED
    BY <2>1, <2>2, <2>3 DEF IInv
<1>15. ASSUME NEW t \in Http, CountRoutes(t) \/ DeleteRefused(t) PROVE IInv'
  <2>1. TypeOK'
    BY <1>15 DEF CountRoutes, DeleteRefused, TypeOK, Stage
  <2>2. Known' /\ Frames'
    BY <1>15 DEF CountRoutes, DeleteRefused, Known, Frames, Rows, TypeOK
  <2>3. Owing'
    BY <1>15, OwingKept DEF CountRoutes, DeleteRefused, TypeOK, Refers, Rows,
                            MeshNodes, Existing, Online, Owed, Owes
  <2>4. QED
    BY <2>1, <2>2, <2>3 DEF IInv
<1>16. ASSUME NEW t \in Http, DropNode(t) PROVE IInv'
  <2>1. node' = [node EXCEPT ![id[t]] = Gone]
    BY <1>16 DEF DropNode
  <2>2. TypeOK'
    BY <1>16 DEF DropNode, TypeOK, Stage
  <2>3. Known' /\ Frames'
    BY <1>16 DEF DropNode, Known, Frames, Rows, TypeOK, Table, RouteRow
  <2>4. Refers' => Refers
    <3>1. MeshNodes' \subseteq MeshNodes
      BY <2>1 DEF MeshNodes, Existing, TypeOK
    <3>2. QED
      BY <1>16, <3>1 DEF DropNode, Refers, Rows
  <2>5. Owing'
    BY <1>16, <2>4, OwingKept DEF DropNode, TypeOK, Online, Owed, Owes
  <2>6. QED
    BY <2>2, <2>3, <2>5 DEF IInv
<1>17. ASSUME NEW t \in Http, Kick(t) PROVE IInv'
  <2>1. {n \in Online : sess[n] = vip[t]} \in SUBSET Node
    BY DEF Online
  <2>2. TypeOK'
    BY <1>17, <2>1, LeaveTyped DEF Kick, TypeOK, Stage
  <2>3. Known' /\ Frames'
    BY <1>17 DEF Kick, Known, Frames, Rows, TypeOK
  <2>4. Owing'
    BY <1>17, <2>1, LeaveOwing DEF Kick, TypeOK
  <2>5. QED
    BY <2>2, <2>3, <2>4 DEF IInv
<1>18. CASE UNCHANGED vars
  BY <1>18 DEF vars, IInv, TypeOK, Known, Frames, Owing, Owed, Owes, Refers, Rows,
               MeshNodes, Existing, Online
<1>19. QED
  BY <1>1, <1>2, <1>3, <1>4, <1>5, <1>6, <1>7, <1>8, <1>9, <1>10, <1>11, <1>12,
     <1>13, <1>14, <1>15, <1>16, <1>17, <1>18 DEF Next, Begin, CallStep

-----------------------------------------------------------------------------
\* The variables keep their types.
THEOREM TypeCorrect == Spec => []TypeOK
<1>1. IInv => TypeOK
  BY DEF IInv
<1>2. QED
  BY InitInductive, Inductive, <1>1, PTL DEF Spec

\* At rest there are no debts, so every node that is online has been sent the
\* routes of the table, if they name mesh nodes (CurrentTold).
THEOREM PushesReach == Spec => []CurrentTold
<1>1. IInv => CurrentTold
  BY DEF IInv, CurrentTold, Quiet, Owing, Owed, Owes
<1>2. QED
  BY InitInductive, Inductive, <1>1, PTL DEF Spec

-----------------------------------------------------------------------------
(***************************************************************************)
(* CurrentLast, for one thread and without edits of VIPs.  The list a node *)
(* will have once the handler it is in ends is the table's, unless its     *)
(* question or the thread's push is still to come.                         *)
(***************************************************************************)
Now == Joined(route, HopsOf(Existing))

Pending(n) ==
    IF queued[n] # None THEN queued[n]
    ELSE IF boot[n] = "reply" THEN own[n] ELSE last[n]

\* With one thread nothing changes between its reads and its writes.
Abreast ==
    \A t \in Http :
        /\ pc[t] \in {"nodes", "channels", "send"} => list[t] = route
        /\ pc[t] \in {"channels", "send"} => rules[t] = Now

\* Lists wait for a handler only, and handlers run for sessions only.
Handled ==
    \A n \in Node :
        /\ queued[n] # None => boot[n] \in {"mesh", "reply"}
        /\ sess[n] = None => boot[n] = "off"

\* What a handler has read of a node is so unless the node is gone.
Seen ==
    \A n \in Node, m \in Node :
        hops[n][m] # None =>
            \/ node[m] = Gone
            \/ m \in Existing /\ node[m].vip = hops[n][m]

Asks(n) == boot[n] \in {"ask", "mesh"} /\ queued[n] = None

Lasting ==
    Refers => \A n \in Online :
        \/ \E t \in Http : Owes(t, n)
        \/ Asks(n)
        \/ Pending(n) = Now

Latest == Abreast /\ Handled /\ Seen /\ Lasting

\* The list of the present is the same where routes and the VIPs of their
\* nodes are.
LEMMA NowKept ==
    ASSUME UNCHANGED route,
           \A r \in Rows(route) :
              HopsOf(Existing)'[route[r].mesh] = HopsOf(Existing)[route[r].mesh]
    PROVE  Now' = Now
  BY DEF Now, Joined, Rows

\* Debts and answers where nothing but the places they are kept in changes.
LEMMA LastingKept ==
    ASSUME Lasting, Refers' => Refers, Online' \subseteq Online,
           Refers' => Now' = Now,
           Refers' => \A n \in Online' :
              /\ \A t \in Http : Owes(t, n) => \/ \E u \in Http : Owes(u, n)'
                                               \/ Pending(n)' = Now
              /\ Asks(n) => Asks(n)' \/ Pending(n)' = Now
              /\ Pending(n) = Now => Pending(n)' = Now
    PROVE  Lasting'
  BY DEF Lasting

LEMMA LatestInit == Init => Latest
BY DEF Init, Latest, Abreast, Handled, Seen, Lasting, Online

\* The routes were joined to the VIPs the nodes have.
LEMMA JoinIsNow ==
    ASSUME TypeOK, Refers, Seen, NEW n \in Node, Joinable(route, hops[n])
    PROVE  Joined(route, hops[n]) = Now
<1>1. ASSUME NEW r \in Rows(route)
      PROVE  hops[n][route[r].mesh] = HopsOf(Existing)[route[r].mesh]
  <2>1. route[r].mesh \in Existing /\ route[r].mesh \in Node
    BY DEF Refers, MeshNodes, Existing
  <2>2. hops[n][route[r].mesh] # None
    BY DEF Joinable
  <2>3. node[route[r].mesh] # Gone
    BY <2>1, NullValues DEF Existing
  <2>4. QED
    BY <2>1, <2>2, <2>3 DEF Seen, HopsOf
<1>2. QED
  BY <1>1 DEF Now, Joined

LEMMA LatestKept ==
    ASSUME NEW t \in Http, Http = {t}, EditVip = {}
    PROVE  IInv /\ TypeOK' /\ Latest /\ [Next]_vars => Latest'
<1> SUFFICES ASSUME IInv, TypeOK', Latest, [Next]_vars PROVE Latest'
  OBVIOUS
<1> USE NullValues DEF tables, calls, sessions, Goto
<1>0. TypeOK /\ Known /\ Abreast /\ Handled /\ Seen /\ Lasting
  BY DEF IInv, Latest
<1>1. ASSUME NEW n \in Node, Register(n) PROVE Latest'
  <2>1. PICK new \in NodeRow : node' = [node EXCEPT ![n] = new]
    BY <1>1 DEF Register
  <2>2. \A m \in Node \ {n} : node'[m] = node[m]
    BY <2>1, <1>0 DEF TypeOK
  <2>3. n \notin Existing /\ node[n] = Fresh
    BY <1>1 DEF Register, Existing
  <2>4. \A r \in Rows(route) : route[r].mesh # n /\ route[r].mesh \in Node
    BY <2>3, <1>0 DEF Known, Rows, RouteRow
  <2>5. Now' = Now
    BY <1>1, <2>2, <2>4, NowKept DEF Register, HopsOf, Existing
  <2>6. Seen'
    BY <1>1, <1>0, <2>2, <2>3 DEF Register, Seen, Existing
  <2>7. Refers' => Refers
    BY <1>1, <2>2, <2>4 DEF Register, Refers, Rows, MeshNodes, Existing
  <2>8. Lasting'
    BY <1>1, <1>0, <2>5, <2>7, LastingKept
       DEF Register, Online, Owes, Asks, Pending
  <2>9. QED
    BY <1>1, <1>0, <2>5, <2>6, <2>8 DEF Register, Latest, Abreast, Handled
<1>2. ASSUME NEW n \in Node, Join(n) PROVE Latest'
  <2>1. /\ UNCHANGED <<node, route, pc, list, rules, todo, hops, own, queued, last>>
        /\ boot[n] = "off" /\ queued[n] = None
        /\ boot'[n] = "ask" /\ sess'[n] # None
        /\ \A m \in Node \ {n} : boot'[m] = boot[m] /\ sess'[m] = sess[m]
    BY <1>2, <1>0 DEF Join, Handled, TypeOK, Existing, NodeRow
  <2>2. Now' = Now /\ (Refers' => Refers)
    BY <2>1 DEF Now, Joined, HopsOf, Existing, Rows, Refers, MeshNodes
  <2>3. Abreast' /\ Handled' /\ Seen'
    BY <2>1, <2>2, <1>0 DEF Abreast, Handled, Seen, Existing
  <2>4. Lasting'
    BY <2>1, <2>2, <1>0 DEF Lasting, Online, Owes, Asks, Pending
  <2>5. QED
    BY <2>3, <2>4 DEF Latest
<1>3. ASSUME NEW out \in SUBSET Node, LeaveAll(out),
             UNCHANGED <<node, route, list, rules>>,
             \A u \in Http : pc'[u] = pc[u] \/ (pc[u] = "kick" /\ pc'[u] = "idle")
      PROVE  Latest'
  <2>1. Now' = Now /\ (Refers' => Refers) /\ Existing' = Existing
    BY <1>3 DEF Now, Joined, HopsOf, Existing, Rows, Refers, MeshNodes
  <2>2. Abreast'
    BY <1>3, <2>1, <1>0 DEF Abreast
  <2>3. Handled' /\ Seen'
    BY <1>3, <2>1, <1>0 DEF LeaveAll, Handled, Seen
  <2>4. \A n \in Online' :
          /\ n \in Online /\ n \notin out
          /\ boot'[n] = boot[n] /\ own'[n] = own[n]
          /\ queued'[n] = queued[n] /\ last'[n] = last[n]
          /\ \A u \in Http : n \in todo[u] => n \in todo'[u]
    BY <1>3 DEF LeaveAll, Online
  <2>5. Lasting'
    BY <1>3, <2>1, <2>4, <1>0, LastingKept DEF Owes, Asks, Pending
  <2>6. QED
    BY <2>2, <2>3, <2>5 DEF Latest
<1>4. ASSUME NEW n \in Node, Handle(n) PROVE Latest'
  <2>1. UNCHANGED <<node, route, pc, list, rules, todo, sess>>
    BY <1>4 DEF Handle, ReadMesh, ReadRules, AnswerRoutes, AnswerFails
  <2>2. /\ Now' = Now /\ (Refers' <=> Refers) /\ Existing' = Existing
        /\ Online' = Online /\ \A u \in Http, m \in Node : Owes(u, m)' <=> Owes(u, m)
    BY <2>1 DEF Now, Joined, HopsOf, Existing, Rows, Refers, MeshNodes, Online, Owes
  <2>3. Abreast'
    BY <2>1, <2>2, <1>0 DEF Abreast
  <2>4. Handled'
    BY <1>4, <2>1, <1>0
       DEF Handle, ReadMesh, ReadRules, AnswerRoutes, AnswerFails, Answered, Handled,
           TypeOK
  <2>5. Seen'
    <3>1. CASE ReadMesh(n)
      BY <3>1, <2>1, <2>2, <1>0
         DEF ReadMesh, Seen, HopsOf, MeshNodes, Existing, TypeOK
    <3>2. CASE ~ReadMesh(n)
      <4>1. \A m \in Node : hops'[m] = hops[m] \/ hops'[m] = [k \in Node |-> None]
        BY <3>2, <1>4, <1>0
           DEF Handle, ReadRules, AnswerRoutes, AnswerFails, TypeOK
      <4>2. QED
        BY <4>1, <2>1, <2>2, <1>0 DEF Seen
    <3>3. QED
      BY <3>1, <3>2
  <2>6. \A m \in Node \ {n} :
          /\ boot'[m] = boot[m] /\ own'[m] = own[m]
          /\ queued'[m] = queued[m] /\ last'[m] = last[m]
    BY <1>4, <1>0
       DEF Handle, ReadMesh, ReadRules, AnswerRoutes, AnswerFails, Answered, TypeOK
  <2>7. ASSUME Refers
        PROVE  /\ Asks(n) => Asks(n)' \/ Pending(n)' = Now
               /\ Pending(n) = Now => Pending(n)' = Now
    <3>1. CASE ReadMesh(n)
      BY <3>1, <1>0 DEF ReadMesh, Asks, Pending, Handled, TypeOK
    <3>2. CASE ReadRules(n)
      <4>1. Joined(route, hops[n]) = Now
        BY <3>2, <2>7, <1>0, JoinIsNow DEF ReadRules
      <4>2. QED
        BY <3>2, <4>1, <1>0 DEF ReadRules, Asks, Pending, TypeOK
    <3>3. CASE AnswerRoutes(n)
      BY <3>3, <1>0 DEF AnswerRoutes, Answered, Asks, Pending, TypeOK
    <3>4. CASE AnswerFails(n)
      BY <3>4, <1>0 DEF AnswerFails, Answered, Asks, Pending, TypeOK
    <3>5. QED
      BY <1>4, <3>1, <3>2, <3>3, <3>4 DEF Handle
  <2>8. ASSUME NEW m \in Node \ {n}
        PROVE  (Asks(m)' <=> Asks(m)) /\ Pending(m)' = Pending(m)
    BY <2>6 DEF Asks, Pending
  <2>9. Lasting'
    BY <2>2, <2>7, <2>8, <1>0 DEF Lasting, Online
  <2>10. QED
    BY <2>3, <2>4, <2>5, <2>9 DEF Latest
\* A call that writes the routes has its push ahead of it.
<1>5. ASSUME pc'[t] = "routes",
             UNCHANGED <<node, list, rules, todo, sess, boot, hops, own, queued, last>>
      PROVE  Latest'
  <2>1. Abreast'
    BY <1>5 DEF Abreast
  <2>2. Handled' /\ Seen'
    BY <1>5, <1>0 DEF Handled, Seen, Existing
  <2>3. Lasting'
    BY <1>5 DEF Lasting, Owes
  <2>4. QED
    BY <2>1, <2>2, <2>3 DEF Latest
<1>6. CASE \/ \E n \in Node, d \in Dest : SaveRoute(t, n, d)
           \/ \E r \in Route, n \in Node, d \in Dest : UpdateRoute(t, r, n, d)
           \/ \E n \in Node : DeleteNode(t, n)
           \/ CountRoutes(t) \/ DeleteRefused(t)
  <2>1. /\ UNCHANGED <<node, route, list, rules, todo, sess, boot, hops, own, queued, last>>
        /\ pc[t] \in {"idle", "count"}
        /\ pc'[t] \in {"insert", "write", "count", "drop", "idle"}
    BY <1>6, <1>0 DEF SaveRoute, UpdateRoute, DeleteNode, CountRoutes, DeleteRefused, TypeOK
  <2>2. Now' = Now /\ (Refers' => Refers) /\ Existing' = Existing
    BY <2>1 DEF Now, Joined, HopsOf, Existing, Rows, Refers, MeshNodes
  <2>3. Abreast' /\ Handled' /\ Seen'
    BY <2>1, <2>2, <1>0 DEF Abreast, Handled, Seen
  <2>4. Lasting'
    BY <2>1, <2>2, <1>0, LastingKept DEF Online, Owes, Asks, Pending
  <2>5. QED
    BY <2>3, <2>4 DEF Latest
<1>7. CASE ReadRoutes(t) \/ ReadNodes(t) \/ ReadChannels(t) \/ Pushed(t)
  <2>1. UNCHANGED <<node, route, sess, boot, hops, own, queued, last>>
    BY <1>7 DEF ReadRoutes, ReadNodes, ReadChannels, Pushed
  <2>2. Now' = Now /\ (Refers' => Refers) /\ Existing' = Existing
    BY <2>1 DEF Now, Joined, HopsOf, Existing, Rows, Refers, MeshNodes
  <2>3. Abreast'
    <3>1. CASE ReadRoutes(t)
      <4>1. Rows(route) = {} => Now = NoRules
        BY DEF Now, Joined, NoRules
      <4>2. QED
        BY <3>1, <4>1, <2>2, <1>0 DEF ReadRoutes, Abreast, TypeOK
    <3>2. CASE ReadNodes(t)
      BY <3>2, <2>2, <1>0 DEF ReadNodes, Abreast, Now, TypeOK
    <3>3. CASE ReadChannels(t)
      BY <3>3, <2>2, <1>0 DEF ReadChannels, Abreast, TypeOK
    <3>4. CASE Pushed(t)
      BY <3>4, <1>0 DEF Pushed, EndPush, Abreast, TypeOK
    <3>5. QED
      BY <1>7, <3>1, <3>2, <3>3, <3>4
  <2>4. Handled' /\ Seen'
    BY <2>1, <2>2, <1>0 DEF Handled, Seen
  <2>5. ASSUME NEW n \in Online, Owes(t, n) PROVE Owes(t, n)'
    BY <1>7, <2>5, <1>0
       DEF ReadRoutes, ReadNodes, ReadChannels, Pushed, Owes, TypeOK
  <2>6. Lasting'
    BY <2>1, <2>2, <2>5, <1>0, LastingKept DEF Online, Asks, Pending
  <2>7. QED
    BY <2>3, <2>4, <2>6 DEF Latest
<1>8. CASE PushFails(t)
  <2>1. UNCHANGED <<node, route, sess, boot, hops, own, queued, last>>
        /\ pc[t] = "nodes" /\ pc'[t] = "idle"
    BY <1>8, <1>0 DEF PushFails, EndPush, TypeOK
  <2>2. ~Refers'
    BY <1>8, <2>1, <1>0, RefersJoins
       DEF PushFails, Abreast, Refers, Rows, MeshNodes, Existing
  <2>3. QED
    BY <2>1, <2>2, <1>0 DEF Latest, Abreast, Handled, Seen, Lasting, Existing
<1>9. ASSUME NEW n \in Node, Send(t, n) PROVE Latest'
  <2>1. /\ UNCHANGED <<node, route, pc, list, rules, sess, boot, hops, own>>
        /\ pc[t] = "send" /\ todo' = [todo EXCEPT ![t] = @ \ {n}]
    BY <1>9 DEF Send
  <2>2. Now' = Now /\ (Refers' => Refers) /\ Existing' = Existing
    BY <2>1 DEF Now, Joined, HopsOf, Existing, Rows, Refers, MeshNodes
  <2>3. Abreast' /\ Seen'
    BY <2>1, <2>2, <1>0 DEF Abreast, Seen
  <2>4. Handled'
    BY <1>9, <1>0 DEF Send, Handled, TypeOK
  <2>5. rules[t] = Now /\ Now # None
    <3>1. Now = rules[t] /\ rules[t] \in RuleList
      BY <2>1, <1>0 DEF Abreast, TypeOK
    <3>2. QED
      BY <3>1, ListConstants
  <2>6. Pending(n)' = Now
    BY <1>9, <2>1, <2>5, <1>0 DEF Send, Pending, Handled, TypeOK
  <2>7. ASSUME NEW m \in Node \ {n}
        PROVE  /\ Owes(t, m) => Owes(t, m)'
               /\ Asks(m)' <=> Asks(m)
               /\ Pending(m)' = Pending(m)
    BY <1>9, <2>1, <1>0 DEF Send, Owes, Asks, Pending, TypeOK
  <2>8. Lasting'
    BY <2>1, <2>2, <2>6, <2>7, <1>0 DEF Lasting, Online
  <2>9. QED
    BY <2>3, <2>4, <2>8 DEF Latest
<1>10. CASE DropNode(t)
  <2>1. /\ node' = [node EXCEPT ![id[t]] = Gone]
        /\ pc[t] = "drop" /\ pc'[t] = "kick"
        /\ UNCHANGED <<route, list, rules, todo, sess, boot, hops, own, queued, last>>
    BY <1>10, <1>0 DEF DropNode, TypeOK
  <2>2. \A m \in Node : node'[m] = node[m] \/ node'[m] = Gone
    BY <2>1, <1>0 DEF TypeOK
  <2>3. Refers' => Refers
    BY <2>1, <2>2 DEF Refers, Rows, MeshNodes, Existing
  <2>4. ASSUME Refers' PROVE Now' = Now
    <3>1. ASSUME NEW r \in Rows(route)
          PROVE  HopsOf(Existing)'[route[r].mesh] = HopsOf(Existing)[route[r].mesh]
      <4>1. route[r].mesh \in Existing'
        BY <2>1, <2>4 DEF Refers, Rows, MeshNodes
      <4>2. QED
        BY <4>1, <2>2 DEF HopsOf, Existing
    <3>2. QED
      BY <3>1, <2>1, NowKept
  <2>5. Abreast' /\ Handled'
    BY <2>1, <1>0 DEF Abreast, Handled
  <2>6. Seen'
    BY <2>1, <2>2, <1>0 DEF Seen, Existing
  <2>7. Lasting'
    BY <2>1, <2>3, <2>4, <1>0, LastingKept DEF Online, Owes, Asks, Pending
  <2>8. QED
    BY <2>5, <2>6, <2>7 DEF Latest
<1>11. CASE UNCHANGED vars
  <2>1. UNCHANGED <<node, route, pc, list, rules, todo, sess, boot, hops, own, queued, last>>
    BY <1>11 DEF vars
  <2>2. Now' = Now /\ (Refers' => Refers) /\ Existing' = Existing
    BY <2>1 DEF Now, Joined, HopsOf, Existing, Rows, Refers, MeshNodes
  <2>3. QED
    BY <2>1, <2>2, <1>0
       DEF Latest, Abreast, Handled, Seen, Lasting, Online, Owes, Asks, Pending
<1>12. ASSUME NEW n \in Node, Leave(n) PROVE Latest'
  BY <1>12, <1>3 DEF Leave
<1>13. CASE Kick(t)
  <2>1. {n \in Online : sess[n] = vip[t]} \in SUBSET Node
    BY DEF Online
  <2>2. pc'[t] = "idle" /\ pc[t] = "kick"
    BY <1>13, <1>0 DEF Kick, TypeOK
  <2>3. QED
    BY <1>13, <2>1, <2>2, <1>3 DEF Kick
<1>14. CASE (\E r \in Route : InsertRoute(t, r) \/ DeleteRoute(t, r)) \/ WriteRoute(t)
  BY <1>14, <1>5, <1>0 DEF InsertRoute, DeleteRoute, WriteRoute, TypeOK
<1>15. QED
  BY <1>1, <1>2, <1>4, <1>6, <1>7, <1>8, <1>9, <1>10, <1>11, <1>12, <1>13, <1>14
     DEF Next, Begin, CallStep

\* With one dashboard thread and VIPs that stay, a node at rest that is online
\* was sent the routes of the table last, with the next hops of now (CurrentLast).
THEOREM LastIsCurrent ==
    ASSUME NEW t \in Http, Http = {t}, EditVip = {}
    PROVE  Spec => []CurrentLast
<1>1. IInv /\ Latest /\ [Next]_vars => (IInv /\ Latest)'
  <2>1. IInv' => TypeOK'
    BY DEF IInv
  <2>2. QED
    BY <2>1, Inductive, LatestKept
<1>2. IInv /\ Latest => CurrentLast
  <2>1. SUFFICES ASSUME IInv, Latest, Quiet, Refers, NEW n \in Online
                 PROVE  last[n] = Now
    BY DEF CurrentLast, Now
  <2>2. boot[n] = "served" /\ queued[n] = None
    BY <2>1 DEF Quiet, Latest, Handled, Online
  <2>3. QED
    BY <2>1, <2>2 DEF Latest, Lasting, Owes, Asks, Pending, Quiet
<1>3. QED
  BY InitInductive, LatestInit, <1>1, <1>2, PTL DEF Spec
=============================================================================
