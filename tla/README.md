# Formal models of js-sdwan

TLA+ models of js-sdwan (netThunder), a software-defined WAN in Java: a
controller that assigns virtual IP addresses (VIPs) and relays signalling, and
nodes that tunnel IP packets to each other through a tun device. TLC checks the
models on small instances; TLAPS proves the central results for every instance.

Paths below are relative to the module's `java/io/jaspercloud/sdwan/` directory.

## 1. Inventory

| Part | State it keeps | Operations | What makes it correct |
|---|---|---|---|
| **VIP registry** (`SDWanControlServiceImpl`, `SDWanNodeManager`) | table `node` (survives restarts), `bindIPMap` (VIP -> channel, by CAS), `channelMap` (VIP -> online channel), channel attributes and close listeners | `regist`, `bindVip`, `applyChannel`, `applyVIP`, `addChannel`, `deleteChannel`, `processHeart`, heart-check thread | an address serves one session at a time; bindings neither leak nor end early; `channelMap` is what is online; a node keeps its address |
| **Node administration** (`ConfigServiceImpl`) | table `node` | `updateNode`, `deleteNode`, `disconnectNode`, lists | an edit reaches the session it concerns; addresses stay bindable |
| **Route administration** (`ConfigServiceImpl`) | table `static_route` | `saveRoute`, `updateRoute`, `deleteRoute`, push to all channels, `processRouteList` | each route names an existing mesh node; nodes end with the latest list |
| **Node routes** (`RouteManager` and the OS variants) | `cache`, `cidr`, the system's routes | `initRoute`, `updateRouteList`, `releaseRoute`, `routeOut`, `routeIn` | the system has the routes the cache says, and only those |
| **Node session** (`SDWanNode`, `TunEngine`) | `localChannel`, the tun address | connect and reconnect loop, hearts, registration loop `autoBoot` | a running node with a reachable controller is registered again and again |
| **Requests** (`AsyncTask`) | `futureMap`: request id -> future | wait, complete, time out | each request is answered or times out once; nothing stays in the map |
| **Signalling** (`SDWanSignalServiceImpl`) | none (reads `channelMap`) | forward offer and answer, NotFound | an offer is answered, with NotFound if by nobody |
| **P2P tunnels** (`P2pManager`, `P2pDataTunnel`, `RelayDataTunnel`, `ConnectionManager`, `PeerConnection`) | `tunnelMap`, `connectionMap` of futures, last heart of a tunnel | offer, detection per candidate, create, heart, close | the tunnel of a connection is looked after; failed attempts do not poison later ones; a connection to where a peer no longer is is given up |
| **NAT mapping** (`MappingManager`) | last mapping | classification by STUN tests | a NAT is never taken for a more open one |
| **Relay** (`RelayServiceImpl`, `RelayNodeManager`; `RelayClient`) | token -> address, last bind | bind, transfer, sweep | a node that keeps binding stays reachable |
| **Addresses** (`Cidr`, `IPUtil`) | none | parse, contains, list | agree with the mathematical block |
| **Tun channel** (`TunChannel`, `LinuxTunDevice`, `Iptables`) | device, address, read flag | bind, read loop, write, close | no read loop after close; rules not left behind |

How they interact. A node opens a TCP connection to the controller; each
connection is served by one Netty event loop, which runs the handlers, the tasks
other threads give it and, when the connection closes, the close listeners in
the order they were added. The dashboard's HTTP threads and the heart-check
thread act on the same maps without a lock. The controller answers requests by
request id, forwards offers and answers between channels and pushes route lists
to all channels in `channelMap`. On a node, the event loop, the tun thread and
detection callbacks share the route cache, the connection map and the tunnels.

What is hard: listeners that act on shared maps long after they were created;
check-then-act across threads (sweep, dashboard, node count of a route);
half-open connections beside their replacement; a restart that loses the maps
but not the table; timeouts against late answers; lost datagrams. `PROJECT.json`
lists each such place by line ("hazards").

What is left out, and why, is section 9.

## 2. The modules

| Module | Models | Abstract specification / composition | Checked and proved |
|---|---|---|---|
| `VipRegistry`, `VipLease`, `VipRegistryProofs` | registration, bindings, online list, heart check, node administration | implements `VipLease` | safety and refinement proved; liveness checked |
| `RouteConfig`, `RouteConfigProofs` | route table, its reference to mesh nodes, pushes and answers | session reduced to its entry in `channelMap` | safety proved, the order of lists for one thread; liveness checked |
| `NodeRoutes`, `NodeRoutesProofs` | `RouteManager` with its two threads, the boot, the system's routes | controller reduced to its current list, sent in order | safety proved; "registered again" checked |
| `PeerConnections`, `PeerConnectionsProofs` | `ConnectionManager`, `P2pManager`, the tunnels and their heart | calls reduced to: answered, failed, timed out | safety proved; liveness checked |
| `OneAnswer`, `AsyncCall`, `AsyncCallProofs` | `AsyncTask` under a network that loses, repeats and delays | implements `OneAnswer` | safety and refinement proved |
| `RelayBinding`, `RelayBindingProofs` | `RelayClient`'s loop, the relay's map and sweep, in discrete time | extends `AsyncCall`: each bind is one of its calls, and its specification implements `CallSpec` | safety proved for every timing; liveness checked |
| `NatMapping`, `NatMappingProofs` | `MappingManager` against the four kinds of NAT | - | proved |
| `CidrMath`, `CidrMathProofs` | `Cidr`, `IPUtil` | reference definitions of a block | proved for every width |

`MC*` modules and their configurations are the instances TLC checks; the runs
are listed in `PROJECT.json`. Configurations that are no run are kept for the
reader: `MCVipRegistry_admin` and `MCRouteConfig_single` (larger instances of
what a run checks, which pass), and those that TLC refutes, each named with its
finding below: `MCVipRegistry_pool`, `MCRouteConfig_order`, `MCRouteConfig_vip`,
`MCRouteConfig_update`, `MCNodeRoutes_own`, `MCNodeRoutes_cache`, `MCNodeRoutes_release`.

Modules are written to be proved about: parameters are CONSTANTS with named
assumptions, one action per shared access of an operation, invariants in named
conjuncts, no RECURSIVE operator.

## 3. The registry: `VipRegistry`

### State

| Variable | Code |
|---|---|
| `rows`, `nextId` | table `node`: per MAC (unique index) the identity and the VIP (unique index) |
| `bound` | `bindIPMap`, one reference per address of the pool |
| `channelMap` | `SDWanNodeManager.channelMap` |
| `conn`, `closing`, `peer` | a channel's life, closes asked for by other threads, the node at the other end |
| `node`, `stale` | `AttributeKeys.node` (its VIP) and whether `AttributeKeys.heart` is older than the timeout |
| `unbind`, `unlist` | listeners pending on the close future: `ref.set(null)` for that VIP, and how many `channelMap.remove(vip)` |
| `pc`, `vip`, `seen` | the frame of `regist()` on the channel's event loop |
| `reply` | last `RegResp`; kept over a restart: it is what the node knows |
| `sweep` | entry between `close()` and `iterator.remove()` in the heart-check thread |
| `admin` | call each HTTP thread is in, with the row it read |

### Actions

`Regist` begins `regist()` with its first query. `ApplyChannel`/`ApplyRefused`
are `applyChannel`; `ListAssigned`, `TryVip`, `NotEnough` are `applyVIP`;
`Save`/`SaveRefused` the insert under the unique indexes; `AddChannel` sets the
attribute, calls `addChannel` and answers; `Refuse` is either catch block.
Between any two of them other threads act. Two accesses are one action only
where no other thread can tell: the CAS and the listener that follows it (the
channel cannot close while its own event loop is in the handler), and everything
in `addChannel` around its one `put`. `CloseNow` closes a channel whose event
loop is idle, `RunUnbind` and `RunUnlist` run its listeners one at a time.
`SweepClose`, `SweepRemove` are the two halves of the heart check;
`AdminRead`, `UpdateNode`, `DeleteNode`, `DeleteChannel` the dashboard's calls;
`Restart` keeps only the table.

A channel is used once and has an event loop of its own (sharing one removes
interleavings). No request is handled on a closed channel. `CHECK_DEADLOCK` is
not switched off: the controller can always restart.

### Properties and runs

| Run | Instance | Shows |
|---|---|---|
| `registry_safety` | 2 nodes, 3 connections, 2 addresses, 2 RegReqs per connection, no dashboard; symmetric | `TypeOK`; `VipExclusive`; `BindingsExact`; `ListedOwner`; `AddressBook`; `StaysListed` |
| `registry_live` | 2 nodes, 2 connections, 1 address and one outside, 1 HTTP thread | `VipExclusive` and `BindingsExact` under concurrent edits; `ClosedReleased`, `ListedSilentEvicted`, and `LeaseKept`: the registry implements `VipLease` |
| `registry_online` | 1 node, 2 connections, 1 address and one outside, 1 HTTP thread | **violated**: `OnlineListed` |

Why the bounds suffice. The hazards involve one address and at most three
parties: an old connection whose listeners run, its replacement, and a
competitor (or the sweep, or one HTTP call). Two addresses let a node move and
make `NotEnough` reachable; three connections of two nodes let one address pass
from hand to hand. With an HTTP thread, two nodes and two connections have one
dashboard call race the registration it is about and that of a competitor; the
second address of the pool is in `MCVipRegistry_admin.cfg`. `MaxRegist` = 2 puts a second listener on a channel. Symmetry
is used in safety runs only.

Fairness (`registry_live`): an event loop finishes its call and runs its tasks
and listeners (weak fairness per channel), the sweep finishes an entry (weak)
and, as it iterates over the whole map every five seconds, gets to each expired
entry (strong, per address). Nothing is assumed of nodes, dashboard or clock.

### Findings

* `OnlineListed`: the old connection's listeners run `ref.set(null)` and then
  `channelMap.remove(vip)`, which names no channel. Between them the node's next
  connection, on another event loop, can bind the address and put itself in the
  map; the old listener removes it. The session stays registered and bound but
  is offline for the dashboard, gets no pushes and no offers, and is never
  looked at by the heart check - if it then falls silent, its address stays
  bound until TCP gives up. The sweep's `iterator.remove()` does the same.
  `StaysListed` says there is no third way: a listed session loses its place only
  to a removal an earlier session of its address left behind, and once there is
  no such removal outstanding (`Leftover`) none comes up while the session lasts.
* `RowsBindable` (`MCVipRegistry_pool.cfg`): `updateNode` checks an address with `Cidr.contains`, which
  accepts the network and broadcast addresses; `bindIPMap` lacks them, so the
  node is answered `SysError` from then on.

### Proofs (`VipRegistryProofs`)

From `ConstantsAssumption` alone (distinct null values, disjoint address sets):
`TypeCorrect`, `Exclusive`, `BindingsCorrect`, `ListingCorrect`,
`AddressesStable` (`AddressBook`), `ListingLasts` and `Implements` (the safety part of the
refinement), for any sets of nodes, connections, addresses and threads.

`VipExclusive` is not inductive: it says nothing of the maps. The inductive
invariant `IInv` adds `Frames` (what `regist()` has established at each step),
`Sessions` (a live session has a pending release of its own address, a channel
that is not registered has none), `BindingsExact` and `ListedOwner`. Two live
sessions with one address would both be in one reference of `bindIPMap`. For the
refinement, exclusiveness makes the CHOOSE in `Owner` the unique session
(`OwnerIsSession`); `AddChannel` is then a `Grant` or, for a second RegReq, a
stutter, `Refuse`, `CloseNow` and `Restart` are `End`, the rest stutters.

`ListingLasts` (`StaysListed`): whoever could list itself under the address, or
leave a listener for it, would have to be bound to it, which the session is; and
the sweep gets to the address only by closing the session.

`AddressBook` - two nodes are never told one address, nor one node two, over
restarts too - needs to know where the address in the frame of `regist()`, the
one of the session and the one of the last answer come from: each is that of the
node's row (`Book`). Rows never change without a dashboard thread, which is the
condition of `AddressBook`, and the unique index keeps them apart.

Only model-checked: `ClosedReleased`, `ListedSilentEvicted` (liveness).

## 4. Route administration: `RouteConfig`

### State and actions

`node` and `route` are the two tables (a row is `Fresh`, there, or `Gone`; ids
are identities, never given out twice). A dashboard thread is in one call at a
time: `pc` with `id`, `row`, `vip` (its locals), `list` and `rules` (the routes
it read and the list it made of them), `todo` (channels still to be written to).
A node is listed under `sess`, `boot` says where its RouteListReq is, `hops` is
the handler's `nodeMap`, `own` the answer it has made, `last` the last list on
the connection, `queued` one that another thread wrote while the event loop was
in the handler. `told` is a history variable: the sessions that were sent the
routes the table has now, or have them in the answer being made.

`SaveRoute`/`InsertRoute`, `UpdateRoute`/`WriteRoute`, `DeleteRoute` and
`DeleteNode`/`CountRoutes`/`DropNode`/`Kick` are the calls with their reads and
writes apart. `ReadRoutes`, `ReadNodes`, `ReadChannels` and `Send`, once per
channel, are `pushRouteRuleList`; `PushFails` is the NullPointerException for a
route whose node is not there. `ReadMesh`, `ReadRules`, `AnswerRoutes`,
`AnswerFails` are `processRouteList`. Abstractions: a transaction commits with its one write (its
row is not visible before, the database being read committed); `updateNode`'s
read and write are one step (apart in `VipRegistry`); a write of an HTTP thread
to a channel whose event loop is in the handler is a task of that loop, hence
after the handler's answer; the session is its entry in `channelMap`.
`EditVip` and `EditMesh` are what an administrator may give a node or a route
that is there: an address, a mesh id (any the dashboard has ever shown). Ids that
have not been given out are left out; no route can be made to name one by itself.

### Properties and runs

| Run | Instance | Shows |
|---|---|---|
| `routes_push` | 2 threads, 2 nodes, 1 route, edits of VIPs, one session at a time in `processRouteList`; symmetric | `TypeOK`, `CurrentTold` |
| `routes_live` | 1 thread, 2 nodes, 1 route, no edits of VIPs; fair | `CurrentLast`, `AskedServed` |
| `routes_refer` | 2 threads, 2 nodes, 2 routes, no mesh id changed by `updateRoute` | **violated**: `RoutesRefer` |

The properties speak of a system at rest (`Quiet`: no call running, each session
answered) whose routes name mesh nodes (`Refers`). Two nodes let one be deleted,
or join, while the other is told; one destination is enough because rules differ
by route and next hop; a second route matters only where an older list must
differ from a younger one (`MCRouteConfig_single.cfg` has two, without the
liveness). `CurrentLast` is checked without edits of VIPs: with them it is false,
see `NextHopsLive`. Fairness in `routes_live`: an event loop handles the
request it has (weak, per node). Calls and nodes may stop anywhere.

### Findings

* `RoutesRefer`: `deleteNode` counts the routes of the node and deletes it in one
  transaction, `saveRoute` reads the node and inserts the route in another, and
  nothing locks what they read. With the insert between the count and the
  delete, the route names no node: all pushes fail and each booting node is left
  without an answer. `updateRoute` gets there alone
  (`MCRouteConfig_update.cfg`): it makes none of the checks of `saveRoute`.
* `CurrentLast` (`MCRouteConfig_order.cfg`): with two dashboard threads the list that was read first can be
  written last. What holds of any number of threads is `CurrentTold`.
* `NextHopsLive` (`MCRouteConfig_vip.cfg`): `updateNode` changes a next hop and pushes
  nothing.

### Proofs (`RouteConfigProofs`)

`TypeCorrect`; `PushesReach` (`CurrentTold`, for any sets of threads, nodes and
routes); `LastIsCurrent`.
`CurrentTold` is about a state at rest; the invariant behind it, `Owing`, says
who still owes a list to an online node that was not told: a thread that has
still to read the routes, or that has read the present ones and not yet the
channels, or has the node in `todo`; or the node itself, whose question is not
answered. Each write to the table clears `told` and leaves its thread before its
reads; each join owes its own question. A push that fails with routes that refer
to mesh nodes has read other routes than the present ones, and whoever changed
them owes. `LastIsCurrent` (`CurrentLast`, for a single thread and
no edits of VIPs): the list a node will have once its handler ends (`Pending`:
the queued one, or the handler's own, or the last) is the present one, unless its
question or the thread's push is still to come (`Lasting`). That a handler's join
is the present one rests on `Seen`: what it read of a node is so unless the node
is gone, and no route names one that is gone.

## 5. Routes of a node: `NodeRoutes`

### State and actions

`stage` is where the tun thread is in `autoBoot`, `vip` whether the tun device
has its address, `cache` is `RouteManager.cache`, `os` the destinations the
system routes into the device. `busy`, `dels`, `adds`, `new` are the frames of
`doUpdateRouteList`, which the tun thread ("tun") and the event loop of the
connection ("loop") may be in at once. `inbox` is what is on its way to the node,
`routes` what the controller has, `listed` whether it pushes to this connection.

`Regist`, `SetAddress`, `Ask`, `InitRoute`, `InitDone`, `Release`, `ReleaseDone`
are `autoBoot`; `DeliverPush`, `UpdateDone` `updateRouteList`; `Delete` and `Add`
one command of the system each. A command fails as the system's would: `add` of
what is there, anything without an address; the code logs it and goes on.
`DeliverAnswer` completes the future, `AskFails` is the timeout or the closed
channel, after which the answer is "late" and `DropLate` drops it. The order
within a list is left out: a system has one route per destination. The node
keeps its VIP; other systems' commands differ in wording.

`early`, chosen from `Early` at the start, says when routes may change while the
node is listed and boots: "never", when its tun device is "addressed", or at
"any" time. It separates what the code does in quiet times from its races.

### Properties and runs

| Run | Instance | Shows |
|---|---|---|
| `nodes_sober` | `Early` = {"never", "addressed"}, 8 lists over 4 rules and 3 destinations, 2 messages | `TypeOK`, `NoOwn`, `QuietUpdate`; `OsFollows`, `CacheCurrent`, `ReleaseClean` where `early` = "never" |
| `nodes_lost` | `Early` = {"never"}, 5 of these lists; fair | **violated**: `KeptRegistered` |

The four rules have one destination reached by another node and by this one, one
by another only and one by this one only: every way a list can differ in what is
filtered. The lists are none, each rule alone, two with a rule of each node, and
all rules. Two messages put a push behind a push and a late answer before an
answer. Deadlock is checked. Fairness in `nodes_lost`: the node's two threads
run, and a closed connection is made again (`SDWanNode.run` tries for ever).

### Findings

* `NoOwn` (`MCNodeRoutes_own.cfg`), with `Early` = {"any"}: a push between the
  registration and `setAddress` is filtered with a null address; its commands are
  run with the address that is there by then. There is no other way in: `NoOwn`
  holds where the two threads race after the address is set.
* `EverCurrent` (`MCNodeRoutes_cache.cfg`), `EverClean`
  (`MCNodeRoutes_release.cfg`), which are `CacheCurrent` and `ReleaseClean`
  without their condition: `initRoute` and `updateRouteList` at once. The one
  that ends last sets the cache; the system keeps what either added. What the race
  leaves true is `QuietUpdate`: when the event loop's update is the last to end,
  the cache is the controller's list.
* `KeptRegistered`: `autoBoot` waits for the close of whatever channel
  `getChannel()` returns after `initRoute`. If the connection was replaced
  meanwhile the node waits on one it is not registered on.

### Proofs (`NodeRoutesProofs`)

For any destinations, next hops and lists: `TypeCorrect`; `LoopCatchesUp`
(`QuietUpdate`), for any `early`: on one connection the last push on its way, or
in work, is the controller's list, and a close takes all of them along
(`Newest`); `OwnLeftOut`: `NoOwn`, provided that no update of the event loop
precedes the address, which is exactly what its finding does (`Kept`: what a
thread has still to add was filtered). `SystemFollows`, `CacheFollows`,
`ReleaseLeavesNone` are about `early` = "never".
Their invariant: without a change during the boot no push is on
its way then (`Traffic`), so the two threads are never in an update together
(`Solo`); an update, alone, first shrinks `os` to nothing and then lets it grow
to the filtered new list (`Progress`); the last list on its way, or in work, is
the controller's (`Latest`). `KeptRegistered` and `AskedServed` are liveness and
stay with TLC.

## 6. Connections to peers: `PeerConnections`

### State and actions

`connectionMap` is the future per VIP of `ConnectionManager`, `tunnelMap` the
tunnel per address of `P2pManager`. A future is in a `stage`: its attempt asks
the controller for the peer ("query"), has offered and waits ("offer"), has
"failed", or its connection is "live" or "closed". `waiters` are callbacks of
`getConnection`'s callers that have not run, `held` is the future the tun thread
has from `computeIfAbsent` and has not attached to, `rx` the tunnel the
receiving loop has looked up for a packet. `open`, `checks`, `closing` are a
tunnel's close future, its unanswered heart checks and the moment between its
removal from the map and its close.

Four threads act on the maps: the tun thread (`Begin`, `Join`, `Attach`), the
loop that receives datagrams (`Receive`, `Deliver`, `DeliverSpins`,
`DeliverKnown`), the loops that complete calls (`Offer`, `Answer`, `Fail`,
`RunWaiter`, `Create`, `Accept`) and the heart (`Check`, `CheckOk`,
`CheckFails`, `CloseTunnel`, with `CloseConnection` as the listener). Each access
to a map is a step. Peers and controller are environment: they answer, fail or
stay silent; `PeerStarts` gives a peer new addresses, so that what is known of it
is `Dead` (from the moment the controller has the new start registered, which is
also from when a relay check fails: until then it is told the token of before).
The signalling service, which keeps no state, is what an attempt
meets: found, NotFound, forwarded, lost, late. What a detection finds out is the
choice of an address in `Accept` and `Answer`.

### Properties and runs

| Run | Instance | Shows |
|---|---|---|
| `peers` | 1 peer that starts twice, 2 futures, 2 tunnels, 2 waiters; fair to heart and listeners | `TypeOK`, `FailureForgotten`, `MonitoredOpen`, `MonitoredLasts`, `MonitoredReplaced` |
| `peers_dead` | the same, 1 waiter; fair to all threads | **violated**: `DeadReplaced` |

Entries of different peers do not touch each other, so one peer is enough. Two
tunnels are needed for glare (this node's and the one an offer of the peer
made), two futures for an attempt and its successor, two starts for a peer that
goes away. Fairness in `peers` (`HeartSpec`): the heart goes round the map every
period, checks end with an answer or a timeout, and close listeners run. Nothing
is assumed of packets, peers and calls. `FairSpec` in `peers_dead` grants what
the code could count on at most: every thread runs and every call ends.
`CHECK_DEADLOCK` is not switched off.

`MaxBinds` = 1: at most one heart check of a direct tunnel is out at a time. This
is a fact of the default configuration - a check times out after 300 ms, a pass
comes every second - which the heart does not see to: with a longer
heart timeout two may be out, and the late failure of one could then
remove a later tunnel of its address, as that of a relay's (`MaxChecks` = 2) can.
`MonitoredLasts` rests on it.

### Findings

* `DeadReplaced`: `create()` returns the tunnel it has made although
  `computeIfAbsent` kept the one an offer had put there. The connection hangs on
  a tunnel that is in no map, hence checked by nobody; when the peer has moved,
  its packets go to the old address for ever. `MonitoredReplaced` is what remains
  true: over a tunnel of the map, other than a relay's, the connection is given up.
  For the tunnel itself that is `MonitoredLasts`: it leaves the map only to be
  closed. A relay's may be taken out by the late result of an earlier one.
* On the way: a data handler that has looked its tunnel up before the heart
  closes it adds a listener that runs at once, inside `computeIfAbsent`. In
  Java 8 its `remove` of the key being computed spins (`DeliverSpins`); later
  versions throw and the closed connection stays in the map.

### Proofs (`PeerConnectionsProofs`)

For any peers, objects and bounds: `TypeCorrect`, `FailureIsForgotten`,
`MonitoredIsOpen`, `MonitoredUntilClosed` (`MonitoredLasts`). `FailureForgotten` speaks of failed attempts; the invariant
`AttemptWatched` says it of an attempt from its beginning on: while it is in the
map there is a caller that has attached, or is about to. `Made` ties checks,
answers and packets in work to tunnels and futures that exist. `MonitoredLasts`
is proved for `MaxBinds` <= 1 and needs `ChecksOwned`: a direct tunnel with a check out is the one in the map under
its address, and has no other check out. Liveness is
model-checked only.

## 7. Requests and the relay: `AsyncCall`, `RelayBinding`

### State and actions

`AsyncCall` is `AsyncTask`: `Wait` (`futureMap.put`), `Arm` (the timer), `Send`
or `SendLost`; the receiving loop's `Take` (`remove`) and `Complete`, the timer
thread's `Fire` and `Expire`, apart, so that answer and timeout race for the
future. The other side serves a request and may serve a repeated copy; answers
are lost, repeated and late. An id stands for another one once nothing is left
of it (`Renew`): ids are random.

`RelayBinding` extends it with `RelayClient`'s loop (bind, wait, sleep), the
relay's `nodeMap` for one token (`Bound`, entries do not depend on each other),
the sweep with its look and its removal apart (`Look`, `Evict`), a NAT that
changes the node's address (`Move`) and a node that stops. Time is counted in
ticks; what is due is done before the next. The network is bounded: what it
delivers comes within `MaxDelay`, and it swallows binds for at most `Outage`.
`MaxDelay` < `Period`, so binds do not overtake each other: one that came more
than a period late could bring an old address back until the next bind, which is
left out. `timeout`, the relay's, is chosen from `Timeouts` at the start.

### Properties and run

| Run | Instance | Shows |
|---|---|---|
| `relay` | 2 ids, 2 addresses; call timeout 1, period 2, delay 1, outage 2, relay timeout 3 or 6; fair | `TypeOK`, `MapDrains`, `OneEnd` (`AsyncCall` implements `OneAnswer`), `BindEnds`, `Reachable`, `SoonBack`, `Cleared` |

`Gap` = outage + call timeout + period + delay is the longest the relay hears
nothing of a running node. With a timeout of `Gap` (6) or more, `Reachable` says
that `Gap` after the start or a change of address the relay forwards to where the
node is: the sweep never finds a running node's entry old. With a shorter one (3)
it does, and as it removes by key (`Look`, then `Evict`) it may take a bind that
came in between; then `Reachable` says that nothing goes to an old address, and
`SoonBack` that the token is missing for `Gap` at most. Both bounds are tight.
Two ids let a late answer meet the next call. With the values that are shipped (timeout 30 s, period 1 s,
call timeout 0.3 s) this allows for outages of about 28 s. The same condition
with the control connection's values (hearts every 30 s, timeout 30 s) leaves
nothing for a delay: a healthy node may be evicted (`Lapse` in `VipRegistry` may
come at any time). Fairness: clock, node's threads and relay's threads go on,
and a request the network has taken arrives.

### Proofs (`AsyncCallProofs`, `RelayBindingProofs`)

`CallsDrain` (`MapDrains`), `CallsEndOnce` (`OneEnd`), for any number of ids,
answers and copies: removing the future from the map is what makes one of two
threads its owner. `BindsAreCalls`: the relay's system implements `CallSpec`, so
both hold of binds. `StaysReachable` and `MissingBriefly` (`SoonBack`), for every
timing and every relay timeout, provided only that binds do not overtake each
other (`MaxDelay` < `Period`): the time since the last bind that got through was
sent stays below outage + call timeout + period (`Quietness`); the age of the
entry, or of its absence, is at most that time, plus as much again while a bind
is on its way (`Young`); and the address is the one of that bind (`Known`).
`BindEnds` and `Cleared` are liveness and model-checked.

## 8. NAT and addresses: `NatMapping`, `CidrMath`

`NatMapping` has `check()` test by test, each answer heard or not as the kind of
NAT lets it in, any answer lost, the NAT giving out another address or forgetting
what was sent at any time. `trouble` is a history variable: something of that
happened since the check began. `CidrMath` has the arithmetic of `Cidr` and
`IPUtil` on signed integers of a given width with Java's shifts and the cast of
`Math.pow`; the text around it is left out.

Run `addresses` has both, as they have no state in common: 4 kinds of NAT and 2
addresses outside; every address and mask of `Width` = 4 (the arithmetic is
uniform in the width; 8 gives the same). `NeverTooOpen`: lost answers only make a
NAT look less open. `UntroubledExact`: an untroubled check is right. Both except
`OwnOpening`: the bind to the changed address opens a restricted NAT for the
first test of the next check, which takes it for a full cone. (The
kind travels in the address peers are given, where nothing reads it.) `ContainsExact`, `PoolExact`, `MaskExact` say what the
arithmetic agrees with, and exactly where it does not: a /1 lacks its last
address since 2^31 is no int, the mask of a /32 lacks its first bit, and
`availableIpList` leaves out the address as written, not the network's.
`AcceptedBindable` compares the test of `updateNode` (`contains`) with that of a
registration (a key of `bindIPMap`): they differ by these two addresses only.

`NatMappingProofs` proves the three properties of NAT mapping for any addresses;
the invariant is `RuledOut`: a test that stayed silent without trouble excludes
the kinds that would have let its answer in.

`CidrMathProofs` proves the four properties of addresses for every width that is
a multiple of four, 32 among them, and for every address and mask. The powers of
two are a recursive function; its equation and `pow2[a + b] = pow2[a] * pow2[b]`
are proved by induction over the numbers, which is the library's theorem that `<`
on `Nat` is well-founded applied to a set (`SetInduction`). On them rest: the
first address of a block is the size times the quotient and nothing overflows
(`CutFirst`); equal first bits are equal quotients on both sides of zero
(`SameQuotient`), so that a block is an interval (`BlockInterval`) that ends with
`LastOf` (`LastInterval`); the list is that interval (`ListAddresses`); an address
is its four digits, and turns that `Wrap` takes away in between do not matter
(`Digits`, `RoundTrip`).

## 9. What is not modelled

* A RegReq handled on a closed channel: two in one read, the first refused.
  `regist()` waits for its answer for 3 s and `autoBoot` then asks again, so it
  takes a controller that stalls that long. The entry it would leave in
  `channelMap` is swept like a silent session's.
* The clock of the control hearts; the node's heart thread and an address that
  changes with a registration (`NodeRoutes` has a node that keeps its VIP).
* Failures of the system's route commands other than those the model explains
  (destination there already, no address).
* Tun channel and its devices, firewall rules: native calls and shell commands in
  one thread, no state to interleave. Its one hazard, the read loop that goes on
  after a close because nothing ever clears `active`, is in the hazard list.
* IP, TCP, UDP and STUN codecs: conversion of bytes without state.
* `Ecdh`: no caller, although Readme-EN.md:26 mentions encryption.
  `CompletableFutures`: only `allOf` has a caller (in `Accept`).
* Bean wiring, database bootstrap, logging.
* The dashboard's pages: a minified bundle built from another repository, one
  line of code. What it calls is what the dashboard threads of `VipRegistry` and
  `RouteConfig` call, in any order and overlapping.

Only model-checked are the liveness properties (`ClosedReleased`,
`ListedSilentEvicted`, `AskedServed`, `KeptRegistered`, `MonitoredReplaced`,
`DeadReplaced`, `BindEnds`, `Cleared`), which are out of the prover's reach.
