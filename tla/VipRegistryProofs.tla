------------------------- MODULE VipRegistryProofs -------------------------
(***************************************************************************)
(* VipRegistry for every set of nodes, channels, addresses and HTTP        *)
(* threads: the types, and that no address is ever in use by two sessions. *)
(*                                                                         *)
(* VipExclusive says nothing of the maps, so it is not inductive.  It      *)
(* follows from the two facts that tie a session to its place in           *)
(* bindIPMap: a session holds a pending listener for its own address       *)
(* (Sessions), and such a listener is pending exactly while the reference  *)
(* of that address holds the channel (BindingsExact).  Frames says what    *)
(* regist() has established at each of its steps.  The address book and    *)
(* the refinement of VipLease rest on these.                               *)
(***************************************************************************)
EXTENDS VipRegistry, TLAPS

(* What regist() knows at each step; only an open channel is in it.        *)
Frames ==
    \A c \in Channel :
        /\ pc[c] # "idle" => conn[c] = "open"
        /\ pc[c] \in {"apply", "list", "try"} =>
              node[c] = NoVip /\ unbind[c] = NoVip
        /\ pc[c] = "apply" => vip[c] \in Addr
        /\ pc[c] \in {"save", "add"} => vip[c] \in Pool /\ unbind[c] = vip[c]
        /\ pc[c] = "save" => node[c] = NoVip
        /\ pc[c] = "add" => node[c] \in {NoVip, vip[c]}

(* What holds of a channel between calls.                                  *)
Sessions ==
    \A c \in Channel :
        /\ node[c] \in Pool \cup {NoVip}
        /\ node[c] = NoVip => unlist[c] = 0
        /\ conn[c] = "none" => node[c] = NoVip /\ unbind[c] = NoVip
        /\ conn[c] = "open" /\ node[c] # NoVip => unbind[c] = node[c]
        /\ conn[c] = "open" /\ node[c] = NoVip /\ pc[c] = "idle" => unbind[c] = NoVip

IInv == TypeOK /\ BindingsExact /\ Frames /\ Sessions /\ ListedOwner

(* Writing a row leaves a table (UpdateNode, Save).                        *)
LEMMA RowWritten ==
    ASSUME NEW f \in [Mac -> Row \cup {NoRow}], NEW m, NEW r \in Row
    PROVE  [f EXCEPT ![m] = r] \in [Mac -> Row \cup {NoRow}]
OBVIOUS

(* The second step of updateNode and deleteNode leaves a call.             *)
LEMMA CallStep ==
    ASSUME TypeOK, NEW t \in Admin, admin[t].op \in {"update", "delete"},
           Done(t) \/ ThenClose(t)
    PROVE  admin' \in [Admin -> Call]
<1>1. admin \in [Admin -> Call] /\ admin[t] \in Call
  BY DEF TypeOK
<1>2. [admin[t] EXCEPT !.step = "close"] \in Call
  BY <1>1 DEF Call, NoCall
<1>3. NoCall \in Call
  BY DEF Call
<1>4. \/ admin' = [admin EXCEPT ![t] = NoCall]
      \/ admin' = [admin EXCEPT ![t] = [admin[t] EXCEPT !.step = "close"]]
  BY DEF Done, ThenClose
<1>5. QED
  BY <1>1, <1>2, <1>3, <1>4

LEMMA InitInductive == Init => IInv
BY ConstantsAssumption
   DEF Init, IInv, TypeOK, BindingsExact, Frames, Sessions, ListedOwner,
       Addr, Reply, Silent, Entry, NoEntry, Call, NoCall

(* Every action preserves IInv: the event loop's, the sweep's, the         *)
(* dashboard's, and the restart.                                           *)
LEMMA Inductive == IInv /\ [Next]_vars => IInv'
<1> SUFFICES ASSUME IInv, [Next]_vars PROVE IInv'
  OBVIOUS
<1> USE ConstantsAssumption
    DEF Addr, IInv, TypeOK, BindingsExact, Frames, Sessions, ListedOwner,
        table, channels, hooks, frames
<1>1. ASSUME NEW c \in Channel, NEW m \in Mac, Connect(c, m) PROVE IInv'
  BY <1>1 DEF Connect
<1>2. ASSUME NEW c \in Channel, Regist(c) PROVE IInv'
  <2>1. rows[peer[c]] # NoRow /\ peer[c] \in Mac => rows[peer[c]].vip \in Addr
    BY DEF Row
  <2>2. TypeOK'
    BY <1>2, <2>1 DEF Regist, Stored
  <2>3. BindingsExact' /\ Frames' /\ Sessions' /\ ListedOwner'
    BY <1>2, <2>1 DEF Regist, Stored
  <2>4. QED
    BY <2>2, <2>3
<1>3. ASSUME NEW c \in Channel, ApplyChannel(c) PROVE IInv'
  BY <1>3 DEF ApplyChannel, Bind
<1>4. ASSUME NEW c \in Channel, ApplyRefused(c) PROVE IInv'
  <2>1. TypeOK'
    BY <1>4 DEF ApplyRefused, Refuse, Reply
  <2>2. BindingsExact' /\ Frames' /\ Sessions' /\ ListedOwner'
    BY <1>4 DEF ApplyRefused, Refuse
  <2>3. QED
    BY <2>1, <2>2
<1>5. ASSUME NEW c \in Channel, ListAssigned(c) PROVE IInv'
  BY <1>5 DEF ListAssigned, Stored, Row
<1>6. ASSUME NEW c \in Channel, NEW v \in Pool, TryVip(c, v) PROVE IInv'
  <2>1. CASE bound[v] # NoChannel
    BY <1>6, <2>1 DEF TryVip, Bind
  <2>2. CASE bound[v] = NoChannel
    <3>1. TryVip(c, v)
      BY ONLY <1>6
    <3>2. /\ bound' = [bound EXCEPT ![v] = c] /\ unbind' = [unbind EXCEPT ![c] = v]
          /\ pc[c] = "try"
          /\ pc' = [pc EXCEPT ![c] = "save"] /\ vip' = [vip EXCEPT ![c] = v]
          /\ seen' = [seen EXCEPT ![c] = {}]
          /\ UNCHANGED <<table, channelMap, channels, unlist, reply, sweep, admin>>
      <4>1. /\ Bind(c, v) /\ pc' = [pc EXCEPT ![c] = "save"]
            /\ vip' = [vip EXCEPT ![c] = v] /\ seen' = [seen EXCEPT ![c] = {}]
        BY ONLY <3>1, <2>2 DEF TryVip
      <4>2. /\ pc[c] = "try"
            /\ UNCHANGED <<table, channelMap, channels, unlist, reply, sweep, admin>>
        BY ONLY <3>1 DEF TryVip
      <4>3. QED
        BY ONLY <4>1, <4>2 DEF Bind
    <3>3. unbind[c] = NoVip /\ node[c] = NoVip /\ conn[c] = "open"
      BY <3>2
    <3>4. BindingsExact'
      BY <2>2, <3>2, <3>3
    <3>5. Frames' /\ Sessions'
      BY <3>2, <3>3
    <3>6. ListedOwner'
      BY <2>2, <3>2, <3>3
    <3>7. TypeOK'
      BY <3>2
    <3>8. QED
      BY <3>4, <3>5, <3>6, <3>7
  <2>3. QED
    BY <2>1, <2>2
<1>7. ASSUME NEW c \in Channel, NotEnough(c) PROVE IInv'
  BY <1>7 DEF NotEnough, Refuse, Reply
<1>8. ASSUME NEW c \in Channel, Save(c) PROVE IInv'
  <2>1. TypeOK'
    <3>1. rows' \in [Mac -> Row \cup {NoRow}] /\ nextId' \in Nat
      <4>1. [id |-> nextId, vip |-> vip[c]] \in Row
        BY <1>8 DEF Save, Row
      <4>2. rows' = [rows EXCEPT ![peer[c]] = [id |-> nextId, vip |-> vip[c]]]
            /\ nextId' = nextId + 1
        BY <1>8 DEF Save, Insert
      <4>3. rows \in [Mac -> Row \cup {NoRow}] /\ nextId \in Nat
        OBVIOUS
      <4>4. QED
        BY ONLY <4>1, <4>2, <4>3, RowWritten
    <3>2. QED
      BY <1>8, <3>1 DEF Save
  <2>2. BindingsExact' /\ Frames' /\ Sessions' /\ ListedOwner'
    BY <1>8 DEF Save, Insert
  <2>3. QED
    BY <2>1, <2>2
<1>9. ASSUME NEW c \in Channel, SaveRefused(c) PROVE IInv'
  BY <1>9 DEF SaveRefused, Refuse, Reply
<1>10. ASSUME NEW c \in Channel, AddChannel(c) PROVE IInv'
  <2>1. TypeOK'
    BY <1>10 DEF AddChannel, LeaveUnlist, Reply, Success
  <2>2. BindingsExact' /\ Frames' /\ Sessions' /\ ListedOwner'
    BY <1>10 DEF AddChannel, LeaveUnlist
  <2>3. QED
    BY <2>1, <2>2
<1>11. ASSUME NEW c \in Channel, Heart(c) PROVE IInv'
  BY <1>11 DEF Heart
<1>12. ASSUME NEW c \in Channel, Lapse(c) PROVE IInv'
  BY <1>12 DEF Lapse
<1>13. ASSUME NEW c \in Channel, CloseNow(c) PROVE IInv'
  BY <1>13 DEF CloseNow
<1>14. ASSUME NEW c \in Channel, RunClose(c) PROVE IInv'
  BY <1>14 DEF RunClose, CloseNow
<1>15. ASSUME NEW c \in Channel, RunUnbind(c) PROVE IInv'
  BY <1>15 DEF RunUnbind
<1>16. ASSUME NEW c \in Channel, RunUnlist(c) PROVE IInv'
  BY <1>16 DEF RunUnlist
<1>17. ASSUME NEW v \in Addr, SweepClose(v) PROVE IInv'
  BY <1>17 DEF SweepClose, Expired, RequestClose, Entry, NoEntry
<1>18. ASSUME SweepRemove PROVE IInv'
  BY <1>18 DEF SweepRemove, Entry, NoEntry
<1>19. ASSUME NEW t \in Admin, NEW m \in Mac, NEW a \in Addr,
              AdminRead(t, "update", m, a)
       PROVE  IInv'
  BY <1>19 DEF AdminRead, Call, Row, Stored, NoCall
<1>20. ASSUME NEW t \in Admin, NEW m \in Mac, NEW op \in {"delete", "disconnect"},
              AdminRead(t, op, m, NoVip)
       PROVE  IInv'
  BY <1>20 DEF AdminRead, Call, Row, Stored, NoCall
<1>21. ASSUME NEW t \in Admin, UpdateNode(t) PROVE IInv'
  <2>1. TypeOK'
    <3>1. admin[t].new \in Addr
      BY <1>21 DEF UpdateNode, Call, NoCall
    <3>2. rows' \in [Mac -> Row \cup {NoRow}]
      BY <1>21, <3>1 DEF UpdateNode, RowThere, Row, Stored
    <3>3. admin' \in [Admin -> Call]
      BY <1>21, CallStep DEF UpdateNode
    <3>4. QED
      BY <1>21, <3>2, <3>3 DEF UpdateNode
  <2>2. BindingsExact' /\ Frames' /\ Sessions' /\ ListedOwner'
    BY <1>21 DEF UpdateNode
  <2>3. QED
    BY <2>1, <2>2
<1>22. ASSUME NEW t \in Admin, DeleteNode(t) PROVE IInv'
  <2>1. TypeOK'
    <3>1. rows' \in [Mac -> Row \cup {NoRow}]
      BY <1>22 DEF DeleteNode
    <3>2. admin' \in [Admin -> Call]
      BY <1>22, CallStep DEF DeleteNode
    <3>3. QED
      BY <1>22, <3>1, <3>2 DEF DeleteNode
  <2>2. BindingsExact' /\ Frames' /\ Sessions' /\ ListedOwner'
    BY <1>22 DEF DeleteNode
  <2>3. QED
    BY <2>1, <2>2
<1>23. ASSUME NEW t \in Admin, DeleteChannel(t) PROVE IInv'
  BY <1>23 DEF DeleteChannel, Done, RequestClose, Call, NoCall
<1>24. ASSUME Restart PROVE IInv'
  BY <1>24 DEF Restart, Entry, Call, NoCall, NoEntry
<1>25. CASE UNCHANGED vars
  BY <1>25 DEF vars
<1> HIDE DEF IInv, Addr
<1>26. QED
  BY <1>1, <1>2, <1>3, <1>4, <1>5, <1>6, <1>7, <1>8,
     <1>9, <1>10, <1>11, <1>12, <1>13, <1>14, <1>15, <1>16,
     <1>17, <1>18, <1>19, <1>20, <1>21, <1>22, <1>23, <1>24,
     <1>25 DEF Next, RegistStep, Listeners, AdminStep

(* Every variable keeps its type.                                          *)
THEOREM TypeCorrect == Spec => []TypeOK
<1>1. IInv => TypeOK
  BY DEF IInv
<1>2. QED
  BY InitInductive, Inductive, <1>1, PTL DEF Spec

(* bindIPMap holds a channel exactly while its release is pending.         *)
THEOREM BindingsCorrect == Spec => []BindingsExact
<1>1. IInv => BindingsExact
  BY DEF IInv
<1>2. QED
  BY InitInductive, Inductive, <1>1, PTL DEF Spec

(* channelMap lists no leftover and no channel under a foreign address.    *)
THEOREM ListingCorrect == Spec => []ListedOwner
<1>1. IInv => ListedOwner
  BY DEF IInv
<1>2. QED
  BY InitInductive, Inductive, <1>1, PTL DEF Spec

(* Two sessions with one address would both be in one reference.           *)
LEMMA InvExclusive == IInv => VipExclusive
<1> SUFFICES ASSUME IInv, NEW c \in Channel, NEW d \in Channel,
                    Live(c), Live(d), node[c] = node[d]
             PROVE  c = d
  BY DEF VipExclusive
<1>1. node[c] \in Pool /\ unbind[c] = node[c] /\ unbind[d] = node[c]
  BY DEF IInv, Sessions, Live
<1>2. bound[node[c]] = c /\ bound[node[c]] = d
  BY <1>1 DEF IInv, BindingsExact
<1>3. QED
  BY <1>2

(* No address is in use by two sessions at a time (regist, bindIPMap).     *)
THEOREM Exclusive == Spec => []VipExclusive
BY InitInductive, Inductive, InvExclusive, PTL DEF Spec

-----------------------------------------------------------------------------
(***************************************************************************)
(* The address book.  Rows never share an address and, without a dashboard *)
(* thread, never change; what regist() works with from the lookup or the   *)
(* insert on, what a session holds and what a node was told is its row.    *)
(***************************************************************************)
HasRow(c, v) == peer[c] \in Stored /\ v = rows[peer[c]].vip

Book ==
    /\ \A m, n \in Stored : rows[m].vip = rows[n].vip => m = n
    /\ \A c \in Channel :
        /\ conn[c] = "none" => ~Told(c)
        /\ conn[c] # "none" => peer[c] \in Mac
        /\ pc[c] \in {"apply", "add"} => HasRow(c, vip[c])
        /\ node[c] # NoVip => HasRow(c, node[c])
        /\ Told(c) => HasRow(c, reply[c].vip)

LEMMA InitBook == Init => Book
BY DEF Init, Book, Stored, HasRow, Told, Silent

(* Only an insert touches the table, and it takes nothing out of it.       *)
LEMMA BookKept ==
    Admin = {} /\ IInv /\ TypeOK' /\ Book /\ [Next]_vars => Book'
<1> SUFFICES ASSUME Admin = {}, IInv, TypeOK', Book, [Next]_vars PROVE Book'
  OBVIOUS
<1> USE NoRowAssumption, ConstantsAssumption
    DEF Book, HasRow, Told, Stored, table, channels, hooks, frames
\* A step that leaves table, peers, lives and replies alone, and gives no
\* channel a node or an address to work with.
<1>0. ASSUME UNCHANGED <<rows, peer, conn, reply>>,
             \A c \in Channel : node'[c] \in {node[c], NoVip},
             \A c \in Channel : pc'[c] \in {"apply", "add"} => pc'[c] = pc[c] /\ vip'[c] = vip[c]
      PROVE  Book'
  BY <1>0
<1>1. ASSUME NEW c \in Channel, NEW m \in Mac, Connect(c, m) PROVE Book'
  <2>1. /\ conn[c] = "none" /\ ~Told(c) /\ node[c] = NoVip /\ pc[c] = "idle"
        /\ conn' = [conn EXCEPT ![c] = "open"] /\ peer' = [peer EXCEPT ![c] = m]
        /\ UNCHANGED <<rows, node, pc, vip, reply>>
    BY <1>1 DEF Connect, IInv, TypeOK, Frames, Sessions
  <2>2. conn \in [Channel -> {"none", "open", "closed"}] /\ peer \in [Channel -> Mac \cup {NoMac}]
    BY DEF IInv, TypeOK
  <2> QED
    BY <2>1, <2>2
<1>2. ASSUME NEW c \in Channel, Regist(c) PROVE Book'
  <2>1. /\ UNCHANGED <<rows, peer, conn, reply, node>>
        /\ \/ /\ node[c] # NoVip
              /\ pc' = [pc EXCEPT ![c] = "add"] /\ vip' = [vip EXCEPT ![c] = node[c]]
           \/ /\ HasRow(c, rows[peer[c]].vip)
              /\ pc' = [pc EXCEPT ![c] = "apply"]
              /\ vip' = [vip EXCEPT ![c] = rows[peer[c]].vip]
           \/ pc' = [pc EXCEPT ![c] = "list"] /\ UNCHANGED vip
    BY <1>2 DEF Regist
  <2>2. /\ vip \in [Channel -> Addr \cup {NoVip}]
        /\ pc \in [Channel -> {"idle", "apply", "list", "try", "save", "add"}]
    BY DEF IInv, TypeOK
  <2>3. \A d \in Channel : pc'[d] \in {"apply", "add"} => HasRow(d, vip'[d])
    BY <2>1, <2>2
  <2> QED
    BY <2>1, <2>3
<1>3. ASSUME NEW c \in Channel, NEW code \in {"VipBound", "NotEnough", "SysError"},
             Refuse(c, code), pc[c] # "idle"
      PROVE Book'
  BY <1>3 DEF Refuse, IInv, TypeOK, Frames
<1>4. ASSUME NEW c \in Channel, ApplyChannel(c) PROVE Book'
  BY <1>4 DEF ApplyChannel, IInv, TypeOK
<1>5. ASSUME NEW c \in Channel, ApplyRefused(c) PROVE Book'
  BY <1>5, <1>3 DEF ApplyRefused
<1>6. ASSUME NEW c \in Channel, ListAssigned(c) PROVE Book'
  BY <1>6, <1>0 DEF ListAssigned, IInv, TypeOK
<1>7. ASSUME NEW c \in Channel, NEW v \in Pool, TryVip(c, v) PROVE Book'
  <2>1. /\ UNCHANGED <<rows, peer, conn, reply, node>>
        /\ \/ pc' = [pc EXCEPT ![c] = "save"] /\ vip' = [vip EXCEPT ![c] = v]
           \/ UNCHANGED <<pc, vip>>
    BY <1>7 DEF TryVip
  <2> QED
    BY <2>1, <1>0 DEF IInv, TypeOK
<1>8. ASSUME NEW c \in Channel, NotEnough(c) PROVE Book'
  BY <1>8, <1>3 DEF NotEnough
<1>9. ASSUME NEW c \in Channel, Save(c) PROVE Book'
  <2>1. peer[c] \in Mac /\ rows[peer[c]] = NoRow
    BY <1>9 DEF Save, IInv, TypeOK, Frames
  <2> DEFINE r == [id |-> nextId, vip |-> vip[c]]
  <2>2. r \in Row /\ r # NoRow /\ r.vip = vip[c]
    BY <1>9 DEF Save, Row, Addr, IInv, TypeOK, Frames
  <2>3. /\ rows' = [rows EXCEPT ![peer[c]] = r]
        /\ \A m \in Stored : rows[m].vip # vip[c]
        /\ pc' = [pc EXCEPT ![c] = "add"]
        /\ UNCHANGED <<peer, conn, reply, node, vip>>
    BY <1>9 DEF Save, Insert, Taken
  <2> HIDE DEF r
  <2>4. /\ rows'[peer[c]] = r
        /\ \A m \in Mac : m # peer[c] => rows'[m] = rows[m]
    BY <2>1, <2>3 DEF IInv, TypeOK
  <2> QED
    BY <2>1, <2>2, <2>3, <2>4 DEF IInv, TypeOK
<1>10. ASSUME NEW c \in Channel, SaveRefused(c) PROVE Book'
  BY <1>10, <1>3 DEF SaveRefused
<1>11. ASSUME NEW c \in Channel, AddChannel(c) PROVE Book'
  <2>1. /\ HasRow(c, vip[c]) /\ conn[c] = "open" /\ vip[c] # NoVip
        /\ node' = [node EXCEPT ![c] = vip[c]]
        /\ reply' = [reply EXCEPT ![c] = Success(vip[c])]
        /\ pc' = [pc EXCEPT ![c] = "idle"] /\ vip' = [vip EXCEPT ![c] = NoVip]
        /\ UNCHANGED <<rows, peer, conn>>
    BY <1>11 DEF AddChannel, IInv, TypeOK, Frames, Addr
  <2>2. /\ node \in [Channel -> Addr \cup {NoVip}] /\ vip \in [Channel -> Addr \cup {NoVip}]
        /\ reply \in [Channel -> Reply]
        /\ pc \in [Channel -> {"idle", "apply", "list", "try", "save", "add"}]
    BY DEF IInv, TypeOK
  <2> QED
    BY <2>1, <2>2 DEF Success
<1>12. ASSUME NEW c \in Channel, Heart(c) \/ Lapse(c) PROVE Book'
  BY <1>12, <1>0 DEF Heart, Lapse
<1>13. ASSUME NEW c \in Channel, CloseNow(c) \/ RunClose(c) PROVE Book'
  BY <1>13 DEF CloseNow, RunClose, IInv, TypeOK
<1>14. ASSUME NEW c \in Channel, RunUnbind(c) \/ RunUnlist(c) PROVE Book'
  BY <1>14, <1>0 DEF RunUnbind, RunUnlist
<1>15. ASSUME NEW v \in Addr, SweepClose(v) PROVE Book'
  BY <1>15, <1>0 DEF SweepClose
<1>16. ASSUME SweepRemove PROVE Book'
  BY <1>16, <1>0 DEF SweepRemove
<1>17. ASSUME Restart PROVE Book'
  BY <1>17 DEF Restart, IInv, TypeOK
<1>18. CASE UNCHANGED vars
  BY <1>18, <1>0 DEF vars
<1> QED
  BY <1>1, <1>2, <1>4, <1>5, <1>6, <1>7, <1>8, <1>9, <1>10, <1>11, <1>12,
     <1>13, <1>14, <1>15, <1>16, <1>17, <1>18 DEF Next, RegistStep, Listeners

LEMMA BookIsAddressBook == Book => AddressBook
BY DEF Book, AddressBook, HasRow

(* Where nothing is edited, two nodes are never told one address, nor one  *)
(* node two (bindVip, applyVIP, and the unique indexes of the table).      *)
THEOREM AddressesStable == Spec => []AddressBook
<1>1. CASE Admin = {}
  <2>1. Init => IInv /\ Book
    BY InitInductive, InitBook
  <2>2. IInv /\ Book /\ [Next]_vars => (IInv /\ Book)'
    <3>1. IInv' => TypeOK'
      BY DEF IInv
    <3> QED
      BY <1>1, <3>1, Inductive, BookKept
  <2> QED
    BY <2>1, <2>2, BookIsAddressBook, PTL DEF Spec
<1>2. CASE Admin # {}
  <2>1. AddressBook
    BY <1>2 DEF AddressBook
  <2> QED
    BY <2>1, PTL
<1> QED
  BY <1>1, <1>2

-----------------------------------------------------------------------------
(***************************************************************************)
(* Staying on the list.  Only a session bound to the address can be listed *)
(* under it, or leave a listener for it; and while one is, no other is.    *)
(***************************************************************************)
LEMMA SettledKept ==
    ASSUME IInv, [Next]_vars, NEW c \in Channel,
           Settled(c), Live(c)', c \notin closing'
    PROVE  Settled(c)'
<1> USE ConstantsAssumption DEF Addr
<1>1. /\ conn[c] = "open" /\ node[c] \in Pool /\ bound[node[c]] = c
      /\ c \notin closing /\ channelMap[node[c]] = c
      /\ sweep.vip # node[c]
      /\ \A d \in Channel \ {c} : node[d] = node[c] => ~ (unlist[d] > 0)
  BY DEF IInv, Sessions, BindingsExact, Settled, Live, Leftover
<1>2. conn'[c] = "open" /\ node'[c] # NoVip
  BY DEF Live
(* What a step must leave as it is.                                        *)
<1>3. ASSUME node'[c] = node[c], channelMap'[node[c]] = c, sweep'.vip # node[c],
             \A d \in Channel \ {c} : node'[d] = node[c] => ~ (unlist'[d] > 0)
      PROVE  Settled(c)'
  BY <1>2, <1>3 DEF Settled, Live, Leftover
<1>4. /\ node \in [Channel -> Addr \cup {NoVip}] /\ unlist \in [Channel -> Nat]
      /\ channelMap \in [Addr -> Channel \cup {NoChannel}]
      /\ conn \in [Channel -> {"none", "open", "closed"}]
      /\ vip \in [Channel -> Addr \cup {NoVip}]
  BY DEF IInv, TypeOK
<1>5. ASSUME UNCHANGED <<node, channelMap, sweep, unlist>> PROVE Settled(c)'
  BY <1>1, <1>5, <1>3
<1>6. ASSUME NEW d \in Channel, AddChannel(d) PROVE Settled(c)'
  <2>1. /\ node' = [node EXCEPT ![d] = vip[d]]
        /\ unlist' = [unlist EXCEPT ![d] = @ + 1]
        /\ channelMap' = [channelMap EXCEPT ![vip[d]] = d]
        /\ sweep' = sweep
    BY <1>6 DEF AddChannel, LeaveUnlist
  <2>2. vip[d] \in Pool /\ bound[vip[d]] = d /\ node[d] \in {NoVip, vip[d]}
    BY <1>6 DEF AddChannel, IInv, Frames, BindingsExact
  <2>3. CASE d = c
    BY <1>1, <1>3, <1>4, <2>1, <2>2, <2>3
  <2>4. CASE d # c
    <3>1. vip[d] # node[c]
      BY <1>1, <2>2, <2>4
    <3> QED
      BY <1>1, <1>3, <1>4, <2>1, <2>2, <2>4, <3>1
  <2> QED
    BY <2>3, <2>4
<1>7. ASSUME NEW d \in Channel, RunUnlist(d) PROVE Settled(c)'
  <2>1. /\ conn[d] = "closed" /\ unlist[d] > 0
        /\ channelMap' = [channelMap EXCEPT ![node[d]] = NoChannel]
        /\ unlist' = [unlist EXCEPT ![d] = @ - 1]
        /\ UNCHANGED <<node, sweep>>
    BY <1>7 DEF RunUnlist, channels
  <2>2. d # c /\ node[d] # node[c]
    BY <1>1, <2>1
  <2> QED
    BY <1>1, <1>3, <1>4, <2>1, <2>2
<1>8. ASSUME NEW v \in Addr, SweepClose(v) PROVE Settled(c)'
  <2>1. /\ sweep' = [vip |-> v, channel |-> channelMap[v]]
        /\ RequestClose(channelMap[v])
        /\ UNCHANGED <<node, channelMap, unlist>>
    BY <1>8 DEF SweepClose, hooks
  <2>2. v # node[c]
    BY <1>1, <2>1 DEF RequestClose
  <2> QED
    BY <1>1, <1>3, <2>1, <2>2
<1>9. ASSUME SweepRemove PROVE Settled(c)'
  BY <1>1, <1>3, <1>4, <1>9 DEF SweepRemove, NoEntry, channels, hooks
<1>10. ASSUME Restart PROVE Settled(c)'
  BY <1>2, <1>10 DEF Restart
<1>11. ASSUME NEW d \in Channel, RegistStep(d), ~AddChannel(d) PROVE Settled(c)'
  BY <1>5, <1>11
     DEF RegistStep, ApplyChannel, ApplyRefused, Refuse, ListAssigned, TryVip, Bind,
         NotEnough, Save, SaveRefused, channels, hooks
<1>12. ASSUME NEW d \in Channel,
              \/ \E m \in Mac : Connect(d, m)
              \/ Regist(d) \/ Heart(d) \/ Lapse(d) \/ CloseNow(d) \/ RunClose(d)
              \/ RunUnbind(d)
       PROVE  Settled(c)'
  BY <1>5, <1>12
     DEF Connect, Regist, Heart, Lapse, CloseNow, RunClose, RunUnbind, channels, hooks
<1>13. ASSUME NEW t \in Admin, NEW op, NEW m \in Mac, NEW a, AdminRead(t, op, m, a)
       PROVE  Settled(c)'
  BY <1>5, <1>13 DEF AdminRead, channels, hooks
<1>14. ASSUME NEW t \in Admin, AdminStep(t) PROVE Settled(c)'
  BY <1>5, <1>14 DEF AdminStep, UpdateNode, DeleteNode, DeleteChannel, channels, hooks
<1>15. CASE UNCHANGED vars
  BY <1>5, <1>15 DEF vars, channels, hooks
<1> QED
  BY <1>6, <1>7, <1>8, <1>9, <1>10, <1>11, <1>12, <1>13, <1>14, <1>15
     DEF Next, Listeners

(* Without a removal left behind by an earlier session of its address, a   *)
(* session stays listed as long as it lasts: for any number of nodes,      *)
(* connections and HTTP threads (addChannel, the close listeners, the      *)
(* heart check).                                                           *)
THEOREM ListingLasts == Spec => StaysListed
<1>1. IInv /\ [Next]_vars =>
          [\A c \in Channel :
              Settled(c) /\ Live(c)' /\ c \notin closing' => Settled(c)']_vars
  BY SettledKept
<1> QED
  BY <1>1, InitInductive, Inductive, PTL DEF Spec, StaysListed

-----------------------------------------------------------------------------
(***************************************************************************)
(* Refinement of VipLease.  Owner is a CHOOSE over sessions; exclusiveness *)
(* makes it the one session with the address, and each action of the       *)
(* registry is then a Grant, an End or a stutter of the lease.             *)
(***************************************************************************)
OwnerIsSession ==
    /\ Owner \in [Pool -> Channel \cup {NoChannel}]
    /\ \A v \in Pool, c \in Channel : Owner[v] = c <=> Live(c) /\ node[c] = v

LEMMA InvExclusiveThen == IInv' => VipExclusive'
BY InvExclusive, PTL

LEMMA OwnerNow == ASSUME VipExclusive PROVE OwnerIsSession
BY ConstantsAssumption DEF OwnerIsSession, Owner, VipExclusive, Live

LEMMA OwnerThen == ASSUME VipExclusive' PROVE OwnerIsSession'
BY ConstantsAssumption DEF OwnerIsSession, Owner, VipExclusive, Live

LEMMA InitLease == Init => Lease!Init
BY ConstantsAssumption DEF Init, Lease!Init, Owner, Live

(* The channels that are over.                                             *)
Over == {c \in Channel : conn[c] = "closed"}

(* An action that ends no channel and sets no node attribute is a stutter. *)
LEMMA SameOwners ==
    ASSUME node' = node, \A c \in Channel : Live(c)' <=> Live(c), Over' = Over
    PROVE  Owner' = Owner
BY DEF Owner

(* Closing an open channel ends its session.                               *)
LEMMA CloseEnds ==
    ASSUME IInv, IInv', NEW c \in Channel, conn[c] = "open", node' = node,
           conn' = [conn EXCEPT ![c] = "closed"]
    PROVE  Lease!End({c})
<1>1. OwnerIsSession /\ OwnerIsSession'
  BY InvExclusive, OwnerNow, OwnerThen, InvExclusiveThen
<1>2. \A v \in Pool : Owner'[v] = IF Owner[v] \in {c} THEN NoChannel ELSE Owner[v]
  BY <1>1, ConstantsAssumption DEF OwnerIsSession, Live, IInv, TypeOK
<1>3. Over' = Over \cup {c}
  BY DEF Over, IInv, TypeOK
<1>4. QED
  BY <1>1, <1>2, <1>3 DEF Lease!End, Over, OwnerIsSession

(* Every step of the registry is a step of the lease.                      *)
LEMMA StepLease == IInv /\ IInv' /\ [Next]_vars => [Lease!Next]_Lease!vars
<1> SUFFICES ASSUME IInv, IInv', [Next]_vars PROVE [Lease!Next]_Lease!vars
  OBVIOUS
<1>0. OwnerIsSession /\ OwnerIsSession'
  BY InvExclusive, OwnerNow, OwnerThen, InvExclusiveThen
<1>1. ASSUME NEW c \in Channel, AddChannel(c) PROVE [Lease!Next]_Lease!vars
  <2>1. vip[c] \in Pool /\ conn[c] = "open" /\ node[c] \in {NoVip, vip[c]}
    BY <1>1 DEF IInv, Frames, AddChannel
  <2>2. conn' = conn /\ node' = [node EXCEPT ![c] = vip[c]] /\ Over' = Over
    BY <1>1 DEF AddChannel, Over
  <2>3. CASE node[c] = vip[c]
    <3>1. node' = node
      BY <2>2, <2>3 DEF IInv, TypeOK
    <3>2. \A d \in Channel : Live(d)' <=> Live(d)
      BY <2>2, <3>1 DEF Live
    <3>3. QED
      BY <2>2, <3>1, <3>2, SameOwners DEF Lease!vars, Over
  <2>4. CASE node[c] = NoVip
    <3>1. \A w \in Pool : Owner[w] # c
      BY <1>0, <2>4, ConstantsAssumption DEF OwnerIsSession, Addr
    <3>2. Owner'[vip[c]] = c
      <4>1. Live(c)' /\ node'[c] = vip[c]
        BY <2>1, <2>2, ConstantsAssumption DEF Live, IInv, TypeOK, Addr
      <4>2. QED
        BY <1>0, <2>1, <4>1 DEF OwnerIsSession
    <3>3. \A w \in Pool \ {vip[c]}, d \in Channel : Owner'[w] = d <=> Owner[w] = d
      BY <1>0, <2>1, <2>2, <2>4, ConstantsAssumption
         DEF OwnerIsSession, Live, IInv, TypeOK, Addr
    <3>4. Owner[vip[c]] = NoChannel
      <4>1. ASSUME NEW d \in Channel, Owner[vip[c]] = d PROVE FALSE
        <5>1. d # c /\ Live(d) /\ node[d] = vip[c]
          BY <3>1, <4>1, <2>1, <1>0 DEF OwnerIsSession
        <5>2. Owner'[vip[c]] = d
          BY <5>1, <1>0, <2>1, <2>2 DEF OwnerIsSession, Live, IInv, TypeOK
        <5>3. QED
          BY <5>1, <5>2, <3>2
      <4>2. QED
        BY <4>1, <1>0, <2>1 DEF OwnerIsSession
    <3>5. Owner' = [Owner EXCEPT ![vip[c]] = c]
      BY <1>0, <2>1, <3>2, <3>3 DEF OwnerIsSession
    <3>6. c \notin Over
      BY <2>1 DEF Over
    <3>7. Lease!Grant(c, vip[c])
      BY <2>2, <3>1, <3>4, <3>5, <3>6 DEF Lease!Grant, Over
    <3>8. QED
      BY <2>1, <3>7 DEF Lease!Next
  <2>5. QED
    BY <2>1, <2>3, <2>4
<1>2. ASSUME NEW c \in Channel, NEW code, Refuse(c, code), conn[c] = "open"
      PROVE  [Lease!Next]_Lease!vars
  BY <1>2, CloseEnds DEF Refuse, Lease!Next
<1>3. ASSUME NEW c \in Channel, CloseNow(c) PROVE [Lease!Next]_Lease!vars
  BY <1>3, CloseEnds DEF CloseNow, Lease!Next
<1>4. CASE Restart
  <2>1. PICK open \in SUBSET Channel : open = {c \in Channel : conn[c] = "open"}
    OBVIOUS
  <2>2. Over' = Over \cup open
    BY <1>4, <2>1 DEF Over, Restart, IInv, TypeOK
  <2>3. \A v \in Pool : Owner'[v] = NoChannel
    BY <1>0, <1>4 DEF OwnerIsSession, Live, Restart
  <2>4. \A v \in Pool : Owner[v] = NoChannel \/ Owner[v] \in open
    BY <1>0, <2>1 DEF OwnerIsSession, Live
  <2>5. Lease!End(open)
    BY <1>0, <2>2, <2>3, <2>4 DEF Lease!End, Over, OwnerIsSession
  <2>6. QED
    BY <2>5 DEF Lease!Next
<1>5. ASSUME UNCHANGED <<conn, node>> PROVE [Lease!Next]_Lease!vars
  BY <1>5 DEF Lease!vars, Owner, Live
<1>6. ASSUME NEW c \in Channel, NEW m \in Mac, Connect(c, m)
      PROVE  [Lease!Next]_Lease!vars
  <2>1. node' = node /\ Over' = Over
    BY <1>6 DEF Connect, Over, IInv, TypeOK
  <2>2. \A d \in Channel : Live(d)' <=> Live(d)
    BY <1>6, <2>1 DEF Connect, Live, IInv, TypeOK, Sessions
  <2>3. QED
    BY <2>1, <2>2, SameOwners DEF Lease!vars, Over
<1>7. ASSUME NEW c \in Channel, RegistStep(c) PROVE [Lease!Next]_Lease!vars
  <2>1. CASE ApplyRefused(c) \/ NotEnough(c) \/ SaveRefused(c)
    <3>1. conn[c] = "open" /\ \E code : Refuse(c, code)
      BY <2>1 DEF ApplyRefused, NotEnough, SaveRefused, IInv, Frames
    <3>2. QED
      BY <3>1, <1>2
  <2>2. CASE \/ ApplyChannel(c) \/ ListAssigned(c)
             \/ (\E v \in Pool : TryVip(c, v)) \/ Save(c)
    BY <2>2, <1>5 DEF ApplyChannel, ListAssigned, TryVip, Save, channels
  <2>3. QED
    BY <1>7, <1>1, <2>1, <2>2 DEF RegistStep
<1>8. ASSUME NEW c \in Channel, Regist(c) \/ Heart(c) \/ Lapse(c) \/ Listeners(c)
      PROVE  [Lease!Next]_Lease!vars
  BY <1>8, <1>5 DEF Regist, Heart, Lapse, Listeners, RunUnbind, RunUnlist, channels
<1>9. ASSUME NEW v \in Addr, SweepClose(v) PROVE [Lease!Next]_Lease!vars
  BY <1>9, <1>5 DEF SweepClose
<1>10. CASE SweepRemove
  BY <1>10, <1>5 DEF SweepRemove, channels
<1>11. ASSUME NEW t \in Admin, NEW op, NEW m \in Mac, NEW a, AdminRead(t, op, m, a)
       PROVE  [Lease!Next]_Lease!vars
  BY <1>11, <1>5 DEF AdminRead, channels
<1>12. ASSUME NEW t \in Admin, AdminStep(t) PROVE [Lease!Next]_Lease!vars
  BY <1>12, <1>5 DEF AdminStep, UpdateNode, DeleteNode, DeleteChannel, channels
<1>13. CASE UNCHANGED vars
  BY <1>13, <1>5 DEF vars, channels
<1>14. QED
  BY <1>3, <1>4, <1>6, <1>7, <1>8, <1>9, <1>10, <1>11, <1>12, <1>13
     DEF Next, RunClose

(* The registry implements the lease: an address goes from one session to  *)
(* the next only through the end of the first (regist, the close           *)
(* listeners, the sweep, the dashboard and a restart).                     *)
THEOREM Implements == Spec => LeaseKept
BY InitInductive, Inductive, InitLease, StepLease, PTL
   DEF Spec, LeaseKept, Lease!Spec
=============================================================================
