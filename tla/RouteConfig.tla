------------------------------ MODULE RouteConfig ------------------------------
(***************************************************************************)
(* The static routes of the dashboard (ConfigServiceImpl) and how nodes    *)
(* get to know them: the push to every online channel after each change,   *)
(* and the answer to the RouteListReq a node sends once it is registered   *)
(* (SDWanControlServiceImpl.processRouteList).                             *)
(*                                                                         *)
(* HTTP threads run without a lock between them.  A transaction commits    *)
(* with its one write, whose row other connections cannot see before (the  *)
(* database is read committed), so the write is the commit; the reads that *)
(* come before it in the transaction are actions of their own.  A list     *)
(* carries, per route, its destination and the VIP of its mesh node.       *)
(*                                                                         *)
(* The session of a node is reduced to the VIP it is listed under; how it  *)
(* gets there is in VipRegistry.                                           *)
(***************************************************************************)
EXTENDS Naturals, FiniteSets

CONSTANTS
    Node,       \* ids of table node, never used twice
    Route,      \* ids of table static_route, never used twice
    Vip,        \* addresses nodes are given
    Dest,       \* destinations of routes
    EditVip,    \* addresses an administrator may give a node
    EditMesh,   \* mesh ids an administrator may give a route that is there
    Http,       \* threads that serve the dashboard
    Fresh,      \* a row whose id has not been given out yet
    Gone,       \* a row that has been deleted
    None        \* null

ASSUMPTION RouteConstants ==
    /\ EditVip \subseteq Vip
    /\ EditMesh \subseteq Node
    /\ None \notin Node \cup Route \cup Vip
    /\ Fresh # Gone
    /\ {Fresh, Gone, None} \cap [mesh : BOOLEAN, vip : Vip] = {}
    /\ {Fresh, Gone, None} \cap [dest : Dest, mesh : Node] = {}

VARIABLES
    node,       \* table node
    route,      \* table static_route
    pc, id, row, vip, list, rules, todo,  \* the call an HTTP thread is in
    sess,       \* VIP a node is listed under in channelMap, or None
    boot,       \* where a session is with its own RouteListReq
    hops,       \* nodeMap of processRouteList: VIPs of the mesh nodes it read
    own,        \* the answer of a handler that has read the routes
    queued,     \* last list written while the event loop was in a handler
    last,       \* last list sent to the node, in the order of the connection
    told        \* history: sessions sent the routes the table has now, or
                \* with an answer in the handler that has them

tables == <<node, route>>
calls == <<pc, id, row, vip, list, rules, todo>>
sessions == <<sess, boot, hops, own, queued, last>>
vars == <<tables, calls, sessions, told>>

NodeRow == [mesh : BOOLEAN, vip : Vip]
RouteRow == [dest : Dest, mesh : Node]
Table == [Route -> RouteRow \cup {Fresh, Gone}]
Hops == [Node -> Vip \cup {None}]
Rule == [dest : Dest, nexthop : Vip]
RuleList == [Route -> Rule \cup {None}]

\* No list of rules is null.
ASSUMPTION ListConstants == None \notin RuleList

NoTable == [r \in Route |-> Fresh]
NoRules == [r \in Route |-> None]

Stage == {"idle", "insert", "write", "count", "drop", "kick",
          "routes", "nodes", "channels", "send"}

Existing == {n \in Node : node[n] \in NodeRow}
MeshNodes == {n \in Existing : node[n].mesh}
Rows(table) == {r \in Route : table[r] \in RouteRow}
Online == {n \in Node : sess[n] # None}

(***************************************************************************)
(* The join of getRouteList and processRouteList.  Where a route's node is *)
(* not in the map, map.get(..).getVip() throws: there is no list.          *)
(***************************************************************************)
HopsOf(nodes) == [n \in Node |-> IF n \in nodes THEN node[n].vip ELSE None]
Joinable(table, hop) == \A r \in Rows(table) : hop[table[r].mesh] # None
Joined(table, hop) ==
    [r \in Route |->
        IF r \in Rows(table)
        THEN [dest |-> table[r].dest, nexthop |-> hop[table[r].mesh]]
        ELSE None]

Init ==
    /\ node = [n \in Node |-> Fresh]
    /\ route = NoTable
    /\ pc = [t \in Http |-> "idle"]
    /\ id = [t \in Http |-> None]
    /\ row = [t \in Http |-> None]
    /\ vip = [t \in Http |-> None]
    /\ list = [t \in Http |-> NoTable]
    /\ rules = [t \in Http |-> NoRules]
    /\ todo = [t \in Http |-> {}]
    /\ sess = [n \in Node |-> None]
    /\ boot = [n \in Node |-> "off"]
    /\ hops = [n \in Node |-> [m \in Node |-> None]]
    /\ own = [n \in Node |-> None]
    /\ queued = [n \in Node |-> None]
    /\ last = [n \in Node |-> None]
    /\ told = {}

-----------------------------------------------------------------------------
(***************************************************************************)
(* Nodes                                                                   *)
(***************************************************************************)

\* A first registration inserts the node's row; the VIP column is unique.
Register(n) ==
    /\ node[n] = Fresh
    /\ \E new \in NodeRow :
          /\ \A m \in Existing : node[m].vip # new.vip
          /\ node' = [node EXCEPT ![n] = new]
    /\ UNCHANGED <<route, calls, sessions, told>>

\* Mutant: the node waits for the next push instead of asking.
JoinSilent(n) ==
    /\ n \in Existing /\ sess[n] = None
    /\ \A m \in Online : sess[m] # node[n].vip
    /\ sess' = [sess EXCEPT ![n] = node[n].vip]
    /\ boot' = [boot EXCEPT ![n] = "served"]
    /\ UNCHANGED <<tables, calls, hops, own, queued, last, told>>

\* addChannel: the session is listed; its node then asks for the routes.
Join(n) ==
    /\ n \in Existing /\ sess[n] = None
    /\ \A m \in Online : sess[m] # node[n].vip
    /\ sess' = [sess EXCEPT ![n] = node[n].vip]
    /\ boot' = [boot EXCEPT ![n] = "ask"]
    /\ UNCHANGED <<tables, calls, hops, own, queued, last, told>>

\* The channels of the nodes in `out` close: what is sent to them is lost.
LeaveAll(out) ==
    /\ sess' = [n \in Node |-> IF n \in out THEN None ELSE sess[n]]
    /\ boot' = [n \in Node |-> IF n \in out THEN "off" ELSE boot[n]]
    /\ hops' = [n \in Node |-> IF n \in out THEN [m \in Node |-> None] ELSE hops[n]]
    /\ own' = [n \in Node |-> IF n \in out THEN None ELSE own[n]]
    /\ queued' = [n \in Node |-> IF n \in out THEN None ELSE queued[n]]
    /\ last' = [n \in Node |-> IF n \in out THEN None ELSE last[n]]
    /\ todo' = [t \in Http |-> todo[t] \ out]
    /\ told' = told \ out

Leave(n) ==
    /\ n \in Online
    /\ LeaveAll({n})
    /\ UNCHANGED <<tables, pc, id, row, vip, list, rules>>

\* processRouteList, first query: the mesh nodes.
ReadMesh(n) ==
    /\ boot[n] = "ask"
    /\ hops' = [hops EXCEPT ![n] = HopsOf(MeshNodes)]
    /\ boot' = [boot EXCEPT ![n] = "mesh"]
    /\ UNCHANGED <<tables, calls, sess, own, queued, last, told>>

\* processRouteList, second query: the routes.
ReadRules(n) ==
    /\ boot[n] = "mesh"
    /\ Joinable(route, hops[n])
    /\ own' = [own EXCEPT ![n] = Joined(route, hops[n])]
    /\ hops' = [hops EXCEPT ![n] = [m \in Node |-> None]]
    /\ boot' = [boot EXCEPT ![n] = "reply"]
    /\ told' = told \cup {n}
    /\ UNCHANGED <<tables, calls, sess, queued, last>>

\* Mutant: the answer overtakes what other threads wrote during the handler.
AnsweredLate(n, answer) ==
    /\ last' = [last EXCEPT ![n] = answer]
    /\ queued' = [queued EXCEPT ![n] = None]

\* The handler ends: the writes other threads made meanwhile are tasks of the
\* event loop and reach the connection after the handler's own.
Answered(n, answer) ==
    /\ last' = [last EXCEPT ![n] = IF queued[n] # None THEN queued[n] ELSE answer]
    /\ queued' = [queued EXCEPT ![n] = None]

AnswerRoutes(n) ==
    /\ boot[n] = "reply"
    /\ Answered(n, own[n])
    /\ own' = [own EXCEPT ![n] = None]
    /\ boot' = [boot EXCEPT ![n] = "served"]
    /\ UNCHANGED <<tables, calls, sess, hops, told>>

\* Mutant: the handler tries again with the nodes it has read already.
AnswerRetries(n) ==
    /\ boot[n] = "mesh"
    /\ ~Joinable(route, hops[n])
    /\ UNCHANGED vars

\* A route of a node that is not in the map: NullPointerException, no answer.
\* The node's request times out; it registers and asks again.
AnswerFails(n) ==
    /\ boot[n] = "mesh"
    /\ ~Joinable(route, hops[n])
    /\ Answered(n, last[n])
    /\ hops' = [hops EXCEPT ![n] = [m \in Node |-> None]]
    /\ boot' = [boot EXCEPT ![n] = "ask"]
    /\ UNCHANGED <<tables, calls, sess, own, told>>

-----------------------------------------------------------------------------
(***************************************************************************)
(* Routes                                                                  *)
(***************************************************************************)

\* A write to static_route: what nodes were told may not be so any more.
SetRoutes(table) ==
    /\ route' = table
    /\ told' = IF table = route THEN told ELSE {}

Goto(t, stage) == pc' = [pc EXCEPT ![t] = stage]

Unused == {r \in Route : route[r] = Fresh}
Inserting == {t \in Http : pc[t] = "insert"}

\* saveRoute: the node is read and must be a mesh node.  (The first conjunct
\* bounds the routes: there is an id left for the insert.)
SaveRoute(t, n, d) ==
    /\ Cardinality(Inserting) < Cardinality(Unused)
    /\ pc[t] = "idle"
    /\ n \in MeshNodes
    /\ row' = [row EXCEPT ![t] = [dest |-> d, mesh |-> n]]
    /\ Goto(t, "insert")
    /\ UNCHANGED <<tables, id, vip, list, rules, todo, sessions, told>>

InsertRoute(t, r) ==
    /\ pc[t] = "insert"
    /\ route[r] = Fresh
    /\ SetRoutes([route EXCEPT ![r] = row[t]])
    /\ row' = [row EXCEPT ![t] = None]
    /\ Goto(t, "routes")
    /\ UNCHANGED <<node, id, vip, list, rules, todo, sessions>>

\* deleteRoute, of any id; the statement deletes nothing where there is no row.
DeleteRoute(t, r) ==
    /\ pc[t] = "idle"
    /\ SetRoutes([q \in Route |->
                    IF q = r /\ r \in Rows(route) THEN Gone ELSE route[q]])
    /\ Goto(t, "routes")
    /\ UNCHANGED <<node, id, row, vip, list, rules, todo, sessions>>

\* updateRoute: the row is read; the fields that are given replace its own.
\* The mesh id, if it is given, may be any the dashboard has ever shown.
UpdateRoute(t, r, n, d) ==
    /\ pc[t] = "idle"
    /\ r \in Rows(route)
    /\ \/ n = route[r].mesh
       \/ n \in EditMesh /\ node[n] # Fresh
    /\ id' = [id EXCEPT ![t] = r]
    /\ row' = [row EXCEPT ![t] = [dest |-> d, mesh |-> n]]
    /\ Goto(t, "write")
    /\ UNCHANGED <<tables, vip, list, rules, todo, sessions, told>>

\* Mutant: the update is tried again after it was done, its row released.
WriteTwice(t) ==
    /\ pc[t] = "write"
    /\ SetRoutes([r \in Route |->
                    IF r = id[t] /\ r \in Rows(route) THEN row[t] ELSE route[r]])
    /\ row' = [row EXCEPT ![t] = None]
    /\ UNCHANGED <<node, pc, id, vip, list, rules, todo, sessions>>

WriteRoute(t) ==
    /\ pc[t] = "write"
    /\ SetRoutes([r \in Route |->
                    IF r = id[t] /\ r \in Rows(route) THEN row[t] ELSE route[r]])
    /\ id' = [id EXCEPT ![t] = None]
    /\ row' = [row EXCEPT ![t] = None]
    /\ Goto(t, "routes")
    /\ UNCHANGED <<node, vip, list, rules, todo, sessions>>

-----------------------------------------------------------------------------
(***************************************************************************)
(* pushRouteRuleList                                                       *)
(***************************************************************************)

EndPush(t) ==
    /\ list' = [list EXCEPT ![t] = NoTable]
    /\ rules' = [rules EXCEPT ![t] = NoRules]
    /\ Goto(t, "idle")

\* getRouteList, first query.  Without routes it returns at once.
ReadRoutes(t) ==
    /\ pc[t] = "routes"
    /\ list' = [list EXCEPT ![t] = route]
    /\ Goto(t, IF Rows(route) = {} THEN "channels" ELSE "nodes")
    /\ rules' = [rules EXCEPT ![t] = NoRules]
    /\ UNCHANGED <<tables, id, row, vip, todo, sessions, told>>

\* getRouteList, second query: the nodes of these routes.
ReadNodes(t) ==
    /\ pc[t] = "nodes"
    /\ Joinable(list[t], HopsOf(Existing))
    /\ rules' = [rules EXCEPT ![t] = Joined(list[t], HopsOf(Existing))]
    /\ Goto(t, "channels")
    /\ UNCHANGED <<tables, id, row, vip, list, todo, sessions, told>>

\* NullPointerException: the call fails although its change is committed.
PushFails(t) ==
    /\ pc[t] = "nodes"
    /\ ~Joinable(list[t], HopsOf(Existing))
    /\ EndPush(t)
    /\ UNCHANGED <<tables, id, row, vip, todo, sessions, told>>

ReadChannels(t) ==
    /\ pc[t] = "channels"
    /\ todo' = [todo EXCEPT ![t] = Online]
    /\ Goto(t, "send")
    /\ UNCHANGED <<tables, id, row, vip, list, rules, sessions, told>>

\* channel.writeAndFlush: a task of that channel's event loop.
Send(t, n) ==
    /\ pc[t] = "send"
    /\ n \in todo[t]
    /\ todo' = [todo EXCEPT ![t] = @ \ {n}]
    /\ \/ /\ boot[n] \in {"mesh", "reply"}
          /\ queued' = [queued EXCEPT ![n] = rules[t]]
          /\ UNCHANGED last
       \/ /\ boot[n] \notin {"mesh", "reply"}
          /\ last' = [last EXCEPT ![n] = rules[t]]
          /\ UNCHANGED queued
    /\ told' = IF list[t] = route THEN told \cup {n} ELSE told
    /\ UNCHANGED <<tables, pc, id, row, vip, list, rules, sess, boot, hops, own>>

Pushed(t) ==
    /\ pc[t] = "send"
    /\ todo[t] = {}
    /\ EndPush(t)
    /\ UNCHANGED <<tables, id, row, vip, todo, sessions, told>>

-----------------------------------------------------------------------------
(***************************************************************************)
(* Nodes, from the dashboard                                               *)
(***************************************************************************)

\* updateNode.  Its read and its write are one action here (VipRegistry has
\* them apart); a duplicate VIP is refused by the unique index.
UpdateNode(t, n, v) ==
    /\ pc[t] = "idle"
    /\ n \in Existing
    /\ \A m \in Existing \ {n} : node[m].vip # v
    /\ v # node[n].vip
    /\ node' = [node EXCEPT ![n].vip = v]
    /\ vip' = [vip EXCEPT ![t] = node[n].vip]
    /\ Goto(t, "kick")
    /\ UNCHANGED <<route, id, row, list, rules, todo, sessions, told>>

\* deleteNode: the node is read, its routes are counted, its row is deleted.
DeleteNode(t, n) ==
    /\ pc[t] = "idle"
    /\ n \in Existing
    /\ id' = [id EXCEPT ![t] = n]
    /\ vip' = [vip EXCEPT ![t] = node[n].vip]
    /\ Goto(t, "count")
    /\ UNCHANGED <<tables, row, list, rules, todo, sessions, told>>

Uses(n) == \E r \in Rows(route) : route[r].mesh = n

CountRoutes(t) ==
    /\ pc[t] = "count"
    /\ ~Uses(id[t])
    /\ Goto(t, "drop")
    /\ UNCHANGED <<tables, id, row, vip, list, rules, todo, sessions, told>>

\* MeshUsed
DeleteRefused(t) ==
    /\ pc[t] = "count"
    /\ Uses(id[t])
    /\ id' = [id EXCEPT ![t] = None]
    /\ vip' = [vip EXCEPT ![t] = None]
    /\ Goto(t, "idle")
    /\ UNCHANGED <<tables, row, list, rules, todo, sessions, told>>

DropNode(t) ==
    /\ pc[t] = "drop"
    /\ node' = [node EXCEPT ![id[t]] = Gone]
    /\ id' = [id EXCEPT ![t] = None]
    /\ Goto(t, "kick")
    /\ UNCHANGED <<route, row, vip, list, rules, todo, sessions, told>>

\* deleteChannel(vip): the session listed under that VIP is closed.
Kick(t) ==
    /\ pc[t] = "kick"
    /\ LeaveAll({n \in Online : sess[n] = vip[t]})
    /\ vip' = [vip EXCEPT ![t] = None]
    /\ Goto(t, "idle")
    /\ UNCHANGED <<tables, id, row, list, rules>>

-----------------------------------------------------------------------------
Handle(n) == ReadMesh(n) \/ ReadRules(n) \/ AnswerRoutes(n) \/ AnswerFails(n)

\* What a call does by itself once it has begun.
CallStep(t) ==
    \/ \E r \in Route : InsertRoute(t, r)
    \/ WriteRoute(t)
    \/ ReadRoutes(t) \/ ReadNodes(t) \/ PushFails(t)
    \/ ReadChannels(t) \/ (\E n \in Node : Send(t, n)) \/ Pushed(t)
    \/ CountRoutes(t) \/ DeleteRefused(t) \/ DropNode(t) \/ Kick(t)

Begin(t) ==
    \/ \E n \in Node, d \in Dest : SaveRoute(t, n, d)
    \/ \E r \in Route : DeleteRoute(t, r)
    \/ \E r \in Route, n \in Node, d \in Dest : UpdateRoute(t, r, n, d)
    \/ \E n \in Node, v \in EditVip : UpdateNode(t, n, v)
    \/ \E n \in Node : DeleteNode(t, n)

Next ==
    \/ \E n \in Node : Register(n) \/ Join(n) \/ Leave(n) \/ Handle(n)
    \/ \E t \in Http : Begin(t) \/ CallStep(t)

Spec == Init /\ [][Next]_vars

\* Event loops run the requests they have.
FairSpec == Spec /\ \A n \in Node : WF_vars(Handle(n))

-----------------------------------------------------------------------------
(***************************************************************************)
(* Properties                                                              *)
(***************************************************************************)

\* Every variable has its type.
TypeOK ==
    /\ node \in [Node -> NodeRow \cup {Fresh, Gone}]
    /\ route \in Table
    /\ pc \in [Http -> Stage]
    /\ id \in [Http -> Node \cup Route \cup {None}]
    /\ row \in [Http -> RouteRow \cup {None}]
    /\ vip \in [Http -> Vip \cup {None}]
    /\ list \in [Http -> Table]
    /\ rules \in [Http -> RuleList]
    /\ todo \in [Http -> SUBSET Node]
    /\ sess \in [Node -> Vip \cup {None}]
    /\ boot \in [Node -> {"off", "ask", "mesh", "reply", "served"}]
    /\ hops \in [Node -> Hops]
    /\ own \in [Node -> RuleList \cup {None}]
    /\ queued \in [Node -> RuleList \cup {None}]
    /\ last \in [Node -> RuleList \cup {None}]
    /\ told \in SUBSET Node

Quiet ==
    /\ \A t \in Http : pc[t] = "idle"
    /\ \A n \in Online : boot[n] = "served"

Refers == \A r \in Rows(route) : route[r].mesh \in MeshNodes

\* When no call is running and every session has had its answer, each node that
\* is online has been sent the routes the table has now - whatever calls, joins
\* and leaves overlapped, and although some of the pushes failed - provided that
\* routes name mesh nodes (pushRouteRuleList after each change, and
\* processRouteList for those that joined meanwhile).
CurrentTold == Quiet /\ Refers => Online \subseteq told

\* ... and it is the last list it was sent, with the next hops of now.
CurrentLast ==
    Quiet /\ Refers =>
        \A n \in Online : last[n] = Joined(route, HopsOf(Existing))

\* Routes name mesh nodes that exist, as the checks of saveRoute (NodeIsNotMesh)
\* and deleteNode (MeshUsed) mean them to.  Two threads make it false between
\* them, or updateRoute alone.
RoutesRefer == Refers

\* At rest, the next hops the nodes have are addresses of mesh nodes.
NextHopsLive ==
    Quiet /\ Refers =>
        \A n \in Online, r \in Route :
            \/ last[n][r] = None
            \/ \E m \in MeshNodes : node[m].vip = last[n][r].nexthop

\* If from some time on routes name mesh nodes, a node that asks for its routes
\* is answered, or leaves: failed answers end.
AskedServed ==
    <>[]Refers =>
        \A n \in Node : boot[n] = "ask" ~> boot[n] \in {"served", "off"}
=============================================================================
