---------------------------- MODULE VipRegistry ----------------------------
(***************************************************************************)
(* The controller's registry of virtual addresses (VIPs): how a node's     *)
(* RegReq is given a VIP, how that VIP is bound to the node's control      *)
(* connection, listed as online, and released.                             *)
(*                                                                         *)
(* The state is spread over four places that no lock ties together:        *)
(*   - the table `node` of the database (rows), which survives a restart;  *)
(*   - SDWanControlServiceImpl.bindIPMap (bound), claimed by CAS;          *)
(*   - SDWanNodeManager.channelMap (channelMap), the sessions that are     *)
(*     online, written and read by everybody;                              *)
(*   - the channels: their attributes (node, stale) and the listeners that *)
(*     regist() leaves on their close future (unbind, unlist).             *)
(* The actors are the event loop of each channel, the heart-check thread,  *)
(* and the HTTP threads of the dashboard.                                  *)
(*                                                                         *)
(* Abstractions.  Every channel has an event loop of its own: channels     *)
(* that share one interleave less.  A connection is used once; a node that *)
(* reconnects is a new element of Channel.  No request is handled on a     *)
(* channel that has closed.  Clock time is one bit per channel: whether    *)
(* its last heart is older than the timeout.  The refusal of deleteNode    *)
(* for a node that routes still use is a free choice, the routes being     *)
(* no part of this module.                                                 *)
(***************************************************************************)
EXTENDS Naturals

CONSTANTS Mac,        \* nodes, by MAC address
          Channel,    \* control connections, each used once
          Pool,       \* Cidr.availableIpList: the keys of bindIPMap
          Reserved,   \* addresses of the CIDR that are not in that list
          Admin,      \* HTTP threads that serve the dashboard
          NoMac, NoVip, NoChannel, NoRow,
          MaxRegist   \* RegReqs answered on one channel (a bound)

Addr == Pool \cup Reserved

ASSUME ConstantsAssumption ==
    /\ NoMac \notin Mac
    /\ NoVip \notin Addr
    /\ NoChannel \notin Channel
    /\ Pool \cap Reserved = {}
    /\ MaxRegist \in Nat \ {0}

Row == [id : Nat, vip : Addr]

ASSUME NoRowAssumption == NoRow \notin Row

VARIABLES
    rows,        \* rows[m]: the row of table node with MAC m (a unique index)
    nextId,      \* the identity column of that table
    bound,       \* bindIPMap: the channel in the reference of each VIP
    channelMap,  \* SDWanNodeManager.channelMap
    conn,        \* life of each channel: "none", "open", "closed"
    closing,     \* channels another thread has asked to close
    peer,        \* MAC address of the node at the other end
    node,        \* AttributeKeys.node: the VIP in it, NoVip when unset
    stale,       \* AttributeKeys.heart is older than the timeout
    unbind,      \* VIP the pending listener `ref.set(null)` releases, or NoVip
    unlist,      \* how many listeners `channelMap.remove(vip)` are pending
    pc,          \* where the channel's event loop is in regist()
    vip,         \* the VIP regist() is working on
    seen,        \* VIPs applyVIP skips: assigned ones, and ones already tried
    reply,       \* last RegResp sent on the channel
    sweep,       \* entry the heart-check thread is about to remove
    admin        \* call each HTTP thread is in

table    == <<rows, nextId>>
channels == <<conn, closing, peer, node, stale>>
hooks    == <<unbind, unlist>>
frames   == <<pc, vip, seen>>
vars == <<table, bound, channelMap, channels, hooks, frames, reply, sweep, admin>>

Silent   == [code |-> "none", vip |-> NoVip]
Success(v) == [code |-> "Success", vip |-> v]
NoEntry  == [vip |-> NoVip, channel |-> NoChannel]
NoCall   == [op |-> "none", step |-> "idle", mac |-> NoMac, id |-> 0,
             cur |-> NoVip, new |-> NoVip]

(***************************************************************************)
(* Types.                                                                  *)
(***************************************************************************)
Reply == {Silent} \cup {Success(v) : v \in Addr}
         \cup {[code |-> e, vip |-> NoVip] : e \in {"VipBound", "NotEnough", "SysError"}}
Entry == {NoEntry} \cup [vip : Addr, channel : Channel]
Call  == {NoCall}
         \cup [op : {"update"}, step : {"write", "close"},
               mac : Mac, id : Nat, cur : Addr, new : Addr]
         \cup [op : {"delete", "disconnect"}, step : {"write", "close"},
               mac : Mac, id : Nat, cur : Addr, new : {NoVip}]

(* Every variable holds a value of its kind.                               *)
TypeOK ==
    /\ rows \in [Mac -> Row \cup {NoRow}]
    /\ nextId \in Nat
    /\ bound \in [Pool -> Channel \cup {NoChannel}]
    /\ channelMap \in [Addr -> Channel \cup {NoChannel}]
    /\ conn \in [Channel -> {"none", "open", "closed"}]
    /\ closing \in SUBSET Channel
    /\ peer \in [Channel -> Mac \cup {NoMac}]
    /\ node \in [Channel -> Addr \cup {NoVip}]
    /\ stale \in [Channel -> BOOLEAN]
    /\ unbind \in [Channel -> Pool \cup {NoVip}]
    /\ unlist \in [Channel -> Nat]
    /\ pc \in [Channel -> {"idle", "apply", "list", "try", "save", "add"}]
    /\ vip \in [Channel -> Addr \cup {NoVip}]
    /\ seen \in [Channel -> SUBSET Addr]
    /\ reply \in [Channel -> Reply]
    /\ sweep \in Entry
    /\ admin \in [Admin -> Call]

Init ==
    /\ rows = [m \in Mac |-> NoRow]
    /\ nextId = 1
    /\ bound = [v \in Pool |-> NoChannel]
    /\ channelMap = [v \in Addr |-> NoChannel]
    /\ conn = [c \in Channel |-> "none"]
    /\ closing = {}
    /\ peer = [c \in Channel |-> NoMac]
    /\ node = [c \in Channel |-> NoVip]
    /\ stale = [c \in Channel |-> FALSE]
    /\ unbind = [c \in Channel |-> NoVip]
    /\ unlist = [c \in Channel |-> 0]
    /\ pc = [c \in Channel |-> "idle"]
    /\ vip = [c \in Channel |-> NoVip]
    /\ seen = [c \in Channel |-> {}]
    /\ reply = [c \in Channel |-> Silent]
    /\ sweep = NoEntry
    /\ admin = [t \in Admin |-> NoCall]

-----------------------------------------------------------------------------
(***************************************************************************)
(* The event loop of a channel: regist(), one access to shared state per   *)
(* step.  It handles nothing else of the channel meanwhile: a close asked  *)
(* for by another thread is a task that waits for the call to return.      *)
(***************************************************************************)
(* The nodes in the table, and whether another node than those in self     *)
(* has the address.                                                        *)
Stored == {m \in Mac : rows[m] # NoRow}
Taken(v, self) == \E m \in Stored \ self : rows[m].vip = v

Connect(c, m) ==
    /\ conn[c] = "none"
    /\ conn' = [conn EXCEPT ![c] = "open"]
    /\ peer' = [peer EXCEPT ![c] = m]
    /\ UNCHANGED <<table, bound, channelMap, closing, node, stale, hooks,
                   frames, reply, sweep, admin>>

(* regist() starts: a channel that has a node attribute goes straight to   *)
(* addChannel; otherwise bindVip looks for the MAC in the table.           *)
Regist(c) ==
    /\ conn[c] = "open" /\ pc[c] = "idle"
    /\ unlist[c] < MaxRegist
    /\ \/ /\ node[c] # NoVip
          /\ pc' = [pc EXCEPT ![c] = "add"]
          /\ vip' = [vip EXCEPT ![c] = node[c]]
       \/ /\ node[c] = NoVip
          /\ peer[c] \in Stored
          /\ pc' = [pc EXCEPT ![c] = "apply"]
          /\ vip' = [vip EXCEPT ![c] = rows[peer[c]].vip]
       \/ /\ node[c] = NoVip
          /\ peer[c] \notin Stored
          /\ pc' = [pc EXCEPT ![c] = "list"]
          /\ UNCHANGED vip
    /\ UNCHANGED <<table, bound, channelMap, channels, hooks, seen, reply,
                   sweep, admin>>

(* The catch blocks of regist(): answer the code, close the channel.       *)
Refuse(c, code) ==
    /\ reply' = [reply EXCEPT ![c] = [code |-> code, vip |-> NoVip]]
    /\ conn' = [conn EXCEPT ![c] = "closed"]
    /\ closing' = closing \ {c}
    /\ pc' = [pc EXCEPT ![c] = "idle"]
    /\ vip' = [vip EXCEPT ![c] = NoVip]
    /\ seen' = [seen EXCEPT ![c] = {}]
    /\ UNCHANGED <<table, bound, channelMap, peer, node, stale, hooks, sweep, admin>>

(* Mutants of Bind: a blind set; no listener on the close future.          *)
BindBlind(c, v) ==
    /\ bound' = [bound EXCEPT ![v] = c]
    /\ unbind' = [unbind EXCEPT ![c] = v]
BindNoListener(c, v) ==
    /\ bound[v] = NoChannel
    /\ bound' = [bound EXCEPT ![v] = c]
    /\ UNCHANGED unbind

(* compareAndSet(null, channel) that succeeds, and the listener after it.  *)
Bind(c, v) ==
    /\ bound[v] = NoChannel
    /\ bound' = [bound EXCEPT ![v] = c]
    /\ unbind' = [unbind EXCEPT ![c] = v]

ApplyChannel(c) ==
    /\ pc[c] = "apply"
    /\ vip[c] \in Pool
    /\ Bind(c, vip[c])
    /\ pc' = [pc EXCEPT ![c] = "add"]
    /\ UNCHANGED <<table, channelMap, channels, unlist, vip, seen, reply, sweep, admin>>

(* Another channel is in the reference; or bindIPMap has no reference for  *)
(* the address of the row and the call ends in a NullPointerException.     *)
ApplyRefused(c) ==
    /\ pc[c] = "apply"
    /\ \/ vip[c] \in Pool /\ bound[vip[c]] # NoChannel /\ Refuse(c, "VipBound")
       \/ vip[c] \notin Pool /\ Refuse(c, "SysError")

(* applyVIP reads the assigned addresses once ...                          *)
ListAssigned(c) ==
    /\ pc[c] = "list"
    /\ seen' = [seen EXCEPT ![c] = {rows[m].vip : m \in Stored}]
    /\ pc' = [pc EXCEPT ![c] = "try"]
    /\ UNCHANGED <<table, bound, channelMap, channels, hooks, vip, reply, sweep, admin>>

(* ... then tries the other references of bindIPMap one after the other,   *)
(* in the order of the hash map.                                           *)
TryVip(c, v) ==
    /\ pc[c] = "try"
    /\ v \notin seen[c]
    /\ \/ /\ Bind(c, v)
          /\ pc' = [pc EXCEPT ![c] = "save"]
          /\ vip' = [vip EXCEPT ![c] = v]
          /\ seen' = [seen EXCEPT ![c] = {}]
       \/ /\ bound[v] # NoChannel
          /\ seen' = [seen EXCEPT ![c] = @ \cup {v}]
          /\ UNCHANGED <<bound, unbind, pc, vip>>
    /\ UNCHANGED <<table, channelMap, channels, unlist, reply, sweep, admin>>

NotEnough(c) ==
    /\ pc[c] = "try"
    /\ Pool \subseteq seen[c]
    /\ Refuse(c, "NotEnough")

(* Mutants of Insert: no row; the row before the address is in the node.   *)
InsertNothing(m, v) == UNCHANGED table
InsertNoVip(m, v) ==
    rows' = [rows EXCEPT ![m] = [id |-> nextId, vip |-> NoVip]] /\ nextId' = nextId + 1

Insert(m, v) ==
    rows' = [rows EXCEPT ![m] = [id |-> nextId, vip |-> v]] /\ nextId' = nextId + 1

(* The insert, under the unique indexes on vip and mac_address.            *)
Save(c) ==
    /\ pc[c] = "save"
    /\ peer[c] \notin Stored /\ ~Taken(vip[c], {})
    /\ Insert(peer[c], vip[c])
    /\ pc' = [pc EXCEPT ![c] = "add"]
    /\ UNCHANGED <<bound, channelMap, channels, hooks, vip, seen, reply, sweep, admin>>

SaveRefused(c) ==
    /\ pc[c] = "save"
    /\ peer[c] \in Stored \/ Taken(vip[c], {})
    /\ Refuse(c, "SysError")

(* Mutant of LeaveUnlist: no listener takes the channel out of the map.    *)
LeaveNothing(c) == UNCHANGED unlist
LeaveUnlist(c) == unlist' = [unlist EXCEPT ![c] = @ + 1]

(* The node attribute is set; addChannel leaves a listener, resets the     *)
(* heart and puts the channel in the map; the answer is Success.           *)
AddChannel(c) ==
    /\ pc[c] = "add"
    /\ node' = [node EXCEPT ![c] = vip[c]]
    /\ LeaveUnlist(c)
    /\ stale' = [stale EXCEPT ![c] = FALSE]
    /\ channelMap' = [channelMap EXCEPT ![vip[c]] = c]
    /\ reply' = [reply EXCEPT ![c] = Success(vip[c])]
    /\ pc' = [pc EXCEPT ![c] = "idle"]
    /\ vip' = [vip EXCEPT ![c] = NoVip]
    /\ UNCHANGED <<table, bound, conn, closing, peer, unbind, seen, sweep, admin>>

(* processHeart on a channel whose heart had become old.                   *)
Heart(c) ==
    /\ conn[c] = "open" /\ pc[c] = "idle"
    /\ stale[c]
    /\ stale' = [stale EXCEPT ![c] = FALSE]
    /\ UNCHANGED <<table, bound, channelMap, conn, closing, peer, node, hooks,
                   frames, reply, sweep, admin>>

(* The timeout passes without a heart.                                     *)
Lapse(c) ==
    /\ node[c] # NoVip /\ ~stale[c]
    /\ stale' = [stale EXCEPT ![c] = TRUE]
    /\ UNCHANGED <<table, bound, channelMap, conn, closing, peer, node, hooks,
                   frames, reply, sweep, admin>>

(* The channel closes: its node or the network ends the connection, ...    *)
CloseNow(c) ==
    /\ conn[c] = "open" /\ pc[c] = "idle"
    /\ conn' = [conn EXCEPT ![c] = "closed"]
    /\ closing' = closing \ {c}
    /\ UNCHANGED <<table, bound, channelMap, peer, node, stale, hooks, frames,
                   reply, sweep, admin>>

(* ... or the close another thread asked for is run.                       *)
RunClose(c) == c \in closing /\ CloseNow(c)

(* The listeners of the close future, in the order they were added: each   *)
(* acts on a shared map, whatever the map holds by then.                   *)
RunUnbind(c) ==
    /\ conn[c] = "closed" /\ unbind[c] # NoVip
    /\ bound' = [bound EXCEPT ![unbind[c]] = NoChannel]
    /\ unbind' = [unbind EXCEPT ![c] = NoVip]
    /\ UNCHANGED <<table, channelMap, channels, unlist, frames, reply, sweep, admin>>

RunUnlist(c) ==
    /\ conn[c] = "closed" /\ unbind[c] = NoVip /\ unlist[c] > 0
    /\ channelMap' = [channelMap EXCEPT ![node[c]] = NoChannel]
    /\ unlist' = [unlist EXCEPT ![c] = @ - 1]
    /\ UNCHANGED <<table, bound, channels, unbind, frames, reply, sweep, admin>>

-----------------------------------------------------------------------------
(* Mutant of RequestClose: the close is forgotten.                         *)
RequestNothing(c) == UNCHANGED closing

(* close() called by a thread that is not the channel's event loop.        *)
RequestClose(c) ==
    closing' = IF c # NoChannel /\ conn[c] = "open" THEN closing \cup {c} ELSE closing

(***************************************************************************)
(* The heart-check thread: close(), then iterator.remove(), which removes  *)
(* the key whatever its value is by then.                                  *)
(***************************************************************************)
Fresh(c) == ~stale[c]    \* mutant of Expired: the comparison is reversed
Expired(c) == stale[c]

SweepClose(v) ==
    /\ sweep = NoEntry
    /\ channelMap[v] # NoChannel
    /\ Expired(channelMap[v])
    /\ RequestClose(channelMap[v])
    /\ sweep' = [vip |-> v, channel |-> channelMap[v]]
    /\ UNCHANGED <<table, bound, channelMap, conn, peer, node, stale, hooks,
                   frames, reply, admin>>

SweepRemove ==
    /\ sweep # NoEntry
    /\ channelMap' = [channelMap EXCEPT ![sweep.vip] = NoChannel]
    /\ sweep' = NoEntry
    /\ UNCHANGED <<table, bound, channels, hooks, frames, reply, admin>>

(***************************************************************************)
(* The HTTP threads: updateNode, deleteNode, disconnectNode.  Each reads   *)
(* the row, may write it, and closes the channel listed under the VIP that *)
(* was read.  updateNode has no other check of the address than the CIDR.  *)
(***************************************************************************)
AdminRead(t, op, m, new) ==
    /\ admin[t] = NoCall
    /\ m \in Stored
    /\ admin' = [admin EXCEPT ![t] =
           [op |-> op, step |-> IF op = "disconnect" THEN "close" ELSE "write",
            mac |-> m, id |-> rows[m].id, cur |-> rows[m].vip, new |-> new]]
    /\ UNCHANGED <<table, bound, channelMap, channels, hooks, frames, reply, sweep>>

(* The row the thread has read is still in the table.                      *)
RowThere(t) == admin[t].mac \in Stored /\ rows[admin[t].mac].id = admin[t].id

Done(t) == admin' = [admin EXCEPT ![t] = NoCall]
ThenClose(t) == admin' = [admin EXCEPT ![t].step = "close"]

UpdateNode(t) ==
    LET a == admin[t] IN
    /\ a.op = "update" /\ a.step = "write"
    /\ \/ /\ RowThere(t)
          /\ Taken(a.new, {a.mac})
          /\ Done(t)
          /\ UNCHANGED rows
       \/ /\ RowThere(t)
          /\ ~Taken(a.new, {a.mac})
          /\ rows' = [rows EXCEPT ![a.mac].vip = a.new]
          /\ IF a.cur # a.new THEN ThenClose(t) ELSE Done(t)
       \/ /\ ~RowThere(t)
          /\ IF a.cur # a.new THEN ThenClose(t) ELSE Done(t)
          /\ UNCHANGED rows
    /\ UNCHANGED <<nextId, bound, channelMap, channels, hooks, frames, reply, sweep>>

DeleteNode(t) ==
    LET a == admin[t] IN
    /\ a.op = "delete" /\ a.step = "write"
    /\ \/ Done(t) /\ UNCHANGED rows
       \/ /\ ThenClose(t)
          /\ rows' = IF RowThere(t) THEN [rows EXCEPT ![a.mac] = NoRow] ELSE rows
    /\ UNCHANGED <<nextId, bound, channelMap, channels, hooks, frames, reply, sweep>>

DeleteChannel(t) ==
    /\ admin[t].step = "close"
    /\ RequestClose(channelMap[admin[t].cur])
    /\ Done(t)
    /\ UNCHANGED <<table, bound, channelMap, conn, peer, node, stale, hooks,
                   frames, reply, sweep>>

(***************************************************************************)
(* The controller stops and starts again: the table is all that is left.   *)
(***************************************************************************)
Restart ==
    /\ bound' = [v \in Pool |-> NoChannel]
    /\ channelMap' = [v \in Addr |-> NoChannel]
    /\ conn' = [c \in Channel |-> IF conn[c] = "none" THEN "none" ELSE "closed"]
    /\ closing' = {}
    /\ node' = [c \in Channel |-> NoVip]
    /\ stale' = [c \in Channel |-> FALSE]
    /\ unbind' = [c \in Channel |-> NoVip]
    /\ unlist' = [c \in Channel |-> 0]
    /\ pc' = [c \in Channel |-> "idle"]
    /\ vip' = [c \in Channel |-> NoVip]
    /\ seen' = [c \in Channel |-> {}]
    /\ sweep' = NoEntry
    /\ admin' = [t \in Admin |-> NoCall]
    /\ UNCHANGED <<table, peer, reply>>

-----------------------------------------------------------------------------
(* One step of the call the event loop of c is in.                         *)
RegistStep(c) ==
    \/ ApplyChannel(c) \/ ApplyRefused(c)
    \/ ListAssigned(c) \/ (\E v \in Pool : TryVip(c, v)) \/ NotEnough(c)
    \/ Save(c) \/ SaveRefused(c)
    \/ AddChannel(c)

Listeners(c) == RunUnbind(c) \/ RunUnlist(c)

AdminStep(t) == UpdateNode(t) \/ DeleteNode(t) \/ DeleteChannel(t)

Next ==
    \/ \E c \in Channel :
          \/ \E m \in Mac : Connect(c, m)
          \/ Regist(c) \/ RegistStep(c)
          \/ Heart(c) \/ Lapse(c)
          \/ CloseNow(c) \/ RunClose(c) \/ Listeners(c)
    \/ \E v \in Addr : SweepClose(v)
    \/ SweepRemove
    \/ \E t \in Admin :
          \/ \E m \in Mac, a \in Addr : AdminRead(t, "update", m, a)
          \/ \E m \in Mac, op \in {"delete", "disconnect"} :
                AdminRead(t, op, m, NoVip)
          \/ AdminStep(t)
    \/ Restart

Spec == Init /\ [][Next]_vars

(***************************************************************************)
(* The threads keep running: an event loop finishes the call it is in and  *)
(* runs the tasks and listeners it has, the heart check removes the entry  *)
(* it closed, and its passes over the map come to every entry.  Nothing is *)
(* assumed of the nodes, the dashboard or the clock.                       *)
(***************************************************************************)
Fairness ==
    /\ \A c \in Channel :
          /\ WF_vars(RegistStep(c)) /\ WF_vars(RunClose(c)) /\ WF_vars(Listeners(c))
    /\ \A v \in Addr : SF_vars(SweepClose(v))
    /\ WF_vars(SweepRemove)

FairSpec == Spec /\ Fairness

-----------------------------------------------------------------------------
(***************************************************************************)
(* Properties.                                                             *)
(***************************************************************************)
(* A session: an open channel whose RegReq was answered with Success.      *)
Live(c) == conn[c] = "open" /\ node[c] # NoVip

(* No address is in use by two sessions at a time, whichever of them the   *)
(* maps list, and whatever the dashboard does to the table meanwhile       *)
(* (regist, applyChannel and applyVIP).                                    *)
VipExclusive ==
    \A c, d \in Channel : Live(c) /\ Live(d) /\ node[c] = node[d] => c = d

(* bindIPMap leaks nothing and frees nothing early: a reference holds a    *)
(* channel exactly as long as a listener that will clear it is pending on  *)
(* that channel (applyChannel and applyVIP, ref.set(null)).                *)
BindingsExact ==
    \A v \in Pool, c \in Channel : bound[v] = c <=> unbind[c] = v

(* What channelMap lists is never a leftover: the channel under a VIP has  *)
(* that VIP in its node attribute and is bound to it while open, and a     *)
(* listener that takes it out is still pending (SDWanNodeManager).         *)
ListedOwner ==
    \A v \in Addr, c \in Channel : channelMap[v] = c =>
        /\ node[c] = v /\ unlist[c] > 0
        /\ conn[c] = "open" => v \in Pool /\ bound[v] = c

Told(c) == reply[c].code = "Success"

(* Where the dashboard edits nothing, the address book is stable: two      *)
(* Success answers carry the same address if and only if they went to the  *)
(* same node, over reconnections and restarts of the controller and with   *)
(* registrations of one node in parallel (bindVip saves before it answers).*)
AddressBook ==
    Admin = {} => \A c, d \in Channel : Told(c) /\ Told(d) =>
        (peer[c] = peer[d] <=> reply[c].vip = reply[d].vip)

(* A connection that is over, or that someone asked to close, ends up in   *)
(* neither map: its address can be bound again (the close listeners).      *)
ClosedReleased ==
    \A c \in Channel :
        (c \in closing \/ conn[c] = "closed") ~>
            (conn[c] = "closed" /\ (\A v \in Pool : bound[v] # c)
                               /\ (\A v \in Addr : channelMap[v] # c))

(* A listed session that stays silent beyond the timeout is closed, or     *)
(* loses its place in channelMap to a removal (the heart-check thread).    *)
ListedSilentEvicted ==
    \A c \in Channel, v \in Addr :
        (channelMap[v] = c /\ stale[c]) ~>
            (conn[c] = "closed" \/ ~stale[c] \/ channelMap[v] # c)

(* "View online node information.": every session no one has asked to      *)
(* close is listed in channelMap, from which getNodeList takes who is      *)
(* online.  The code breaks this.                                          *)
OnlineListed ==
    \A c \in Channel : Live(c) /\ c \notin closing => channelMap[node[c]] = c

(* A removal is outstanding that names this address and not this session:  *)
(* the sweep's, or a listener of another connection.                       *)
Leftover(c, v) ==
    \/ sweep.vip = v
    \/ \E d \in Channel \ {c} : node[d] = v /\ unlist[d] > 0

Settled(c) ==
    Live(c) /\ c \notin closing /\ channelMap[node[c]] = c /\ ~Leftover(c, node[c])

(* A listed session loses its place only to what an earlier session of its *)
(* address has left behind.  Once there is no such removal outstanding,    *)
(* none comes up and the session stays listed until it closes or someone   *)
(* asks it to (addChannel, the close listeners, the heart check).          *)
StaysListed ==
    [][\A c \in Channel :
          Settled(c) /\ Live(c)' /\ c \notin closing' => Settled(c)']_vars

(* "Define an address pool": every address in the table is one of the      *)
(* pool, so that its node can bind it.  The code breaks this.              *)
RowsBindable == \A m \in Stored : rows[m].vip \in Pool

(***************************************************************************)
(* The registry implements VipLease: the owner of an address is the        *)
(* session whose node attribute holds it.                                  *)
(***************************************************************************)
Owner == [v \in Pool |->
    IF \E c \in Channel : Live(c) /\ node[c] = v
    THEN CHOOSE c \in Channel : Live(c) /\ node[c] = v
    ELSE NoChannel]

Lease == INSTANCE VipLease WITH
    Vip <- Pool, Session <- Channel, Nobody <- NoChannel,
    owner <- Owner, ended <- {c \in Channel : conn[c] = "closed"}

(* An address passes from one session to the next only through the end of  *)
(* the first, and no session gets a second one or one after its end.       *)
LeaseKept == Lease!Spec
=============================================================================
