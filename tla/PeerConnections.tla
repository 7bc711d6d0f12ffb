---------------------------- MODULE PeerConnections ----------------------------
(***************************************************************************)
(* How a node gets at its peers: ConnectionManager.connectionMap, a future *)
(* connection per VIP, over P2pManager.tunnelMap, a tunnel per address of  *)
(* a peer.  A packet for a VIP begins an attempt (look the peer up, offer  *)
(* it this node's addresses, wait for its answer); an offer or a packet of *)
(* a peer makes a tunnel or a connection from the other side.  The heart   *)
(* thread checks every tunnel of the map and closes those that fail.       *)
(*                                                                         *)
(* Four threads act on the maps without a lock: the tun thread (packets    *)
(* read from the device), the loop that receives datagrams, the loops that *)
(* complete futures, and those that complete heart checks.                 *)
(*                                                                         *)
(* The peers and the controller are environment: calls are answered, fail  *)
(* or time out (AsyncCall has how), peers offer, send and start again.  A  *)
(* start of a peer gives it new addresses: another relay token and another *)
(* port.  "host" stands for srflx too: addresses a peer lists itself, for  *)
(* which the peer's own name in an answer is another one (prflx).          *)
(* Objects are used once; this node itself does not start again.           *)
(***************************************************************************)
EXTENDS Naturals

CONSTANTS
    Peer,       \* VIPs of peers
    Kind,       \* schemes of the addresses that may work for a peer's offer
    Future,     \* futures of connections, each used once (a bound)
    Tunnel,     \* tunnel objects, each used once (a bound)
    MaxRun,     \* starts of a peer after the first (a bound)
    MaxWaiters, \* packets that wait for one attempt (a bound)
    MaxBinds,   \* heart checks of a direct tunnel without an answer at a time
    MaxChecks,  \* and of a relay tunnel
    None,       \* null
    Reserved    \* what computeIfAbsent puts under a key while it computes

Addr == [peer : Peer, run : 0..MaxRun, kind : Kind \cup {"prflx", "relay"}]

ASSUMPTION PeerConstants ==
    /\ Kind \subseteq {"host", "prflx", "relay"}
    /\ MaxRun \in Nat /\ MaxWaiters \in Nat
    /\ MaxBinds \in Nat /\ MaxChecks \in Nat
    /\ None \notin Future \cup Tunnel \cup Peer \cup Addr
    /\ Reserved \notin Future \cup {None}

VARIABLES
    run,            \* which start of its process each peer is in
    offers,         \* offers of peers whose addresses are being tried
    tunnelMap,      \* P2pManager.tunnelMap
    address,        \* a tunnel's DetectionInfo.dstAddress
    open,           \* tunnels whose closeFuture is not complete
    checks,         \* heart checks of a tunnel that have no result yet
    closing,        \* tunnels the heart has removed and is about to close
    connectionMap,  \* ConnectionManager.connectionMap
    stage,          \* where a future is: its calls, or its connection's life
    vip,            \* the VIP a future is for
    tunnel,         \* the tunnel of its connection
    answer,         \* the P2pAnswer on its way to it
    waiters,        \* callbacks of getConnection's callers still to be run
    held,           \* future the tun thread has got and not attached to yet
    rx              \* tunnel the receiving loop has found for a packet

peers == <<run, offers>>
tunnels == <<tunnelMap, address, open, checks, closing>>
futures == <<connectionMap, stage, vip, tunnel, answer, waiters>>
vars == <<peers, tunnels, futures, held, rx>>

Stage == {"unused", "query", "offer", "live", "closed", "failed"}

Init ==
    /\ run = [p \in Peer |-> 0]
    /\ offers = {}
    /\ tunnelMap = [a \in Addr |-> None]
    /\ address = [t \in Tunnel |-> None]
    /\ open = {}
    /\ checks = [t \in Tunnel |-> 0]
    /\ closing = {}
    /\ connectionMap = [p \in Peer |-> None]
    /\ stage = [f \in Future |-> "unused"]
    /\ vip = [f \in Future |-> None]
    /\ tunnel = [f \in Future |-> None]
    /\ answer = [f \in Future |-> None]
    /\ waiters = [f \in Future |-> 0]
    /\ held = None
    /\ rx = None

\* Objects not made yet are alike: the next one is made.
NewFuture(f) == f = CHOOSE g \in Future : stage[g] = "unused"
Unmade(t) == t = CHOOSE u \in Tunnel : address[u] = None

\* connectionMap.remove(vip): whatever is there; it waits for a computation.
Forget(p) ==
    /\ connectionMap[p] # Reserved
    /\ connectionMap' = [connectionMap EXCEPT ![p] = None]

-----------------------------------------------------------------------------
(***************************************************************************)
(* The tun thread: getConnection                                           *)
(***************************************************************************)

\* computeIfAbsent finds nothing: an attempt begins with the NodeInfoReq.
\* (With the control channel closed the call throws, and nothing is put.)
Begin(p, f) ==
    /\ held = None
    /\ connectionMap[p] = None
    /\ stage[f] = "unused" /\ NewFuture(f)
    /\ connectionMap' = [connectionMap EXCEPT ![p] = f]
    /\ stage' = [stage EXCEPT ![f] = "query"]
    /\ vip' = [vip EXCEPT ![f] = p]
    /\ held' = f
    /\ UNCHANGED <<peers, tunnels, tunnel, answer, waiters, rx>>

\* computeIfAbsent finds an attempt.  (A call that finds a connection sends.)
Join(f) ==
    /\ held = None
    /\ stage[f] \in {"query", "offer", "failed"}
    /\ connectionMap[vip[f]] = f
    /\ waiters[f] < MaxWaiters
    /\ held' = f
    /\ UNCHANGED <<peers, tunnels, futures, rx>>

\* Mutant: a caller that comes after the failure leaves the future there.
AttachLate ==
    /\ held # None
    /\ IF stage[held] \in {"query", "offer"}
       THEN waiters' = [waiters EXCEPT ![held] = @ + 1]
       ELSE UNCHANGED waiters
    /\ held' = None
    /\ UNCHANGED <<peers, tunnels, connectionMap, stage, vip, tunnel, answer, rx>>

\* result.whenComplete: at once if the future is complete.
Attach ==
    /\ held # None
    /\ IF stage[held] \in {"query", "offer"}
       THEN waiters' = [waiters EXCEPT ![held] = @ + 1]
       ELSE UNCHANGED waiters
    /\ IF stage[held] = "failed" THEN Forget(vip[held]) ELSE UNCHANGED connectionMap
    /\ held' = None
    /\ UNCHANGED <<peers, tunnels, stage, vip, tunnel, answer, rx>>

-----------------------------------------------------------------------------
(***************************************************************************)
(* The attempt                                                             *)
(***************************************************************************)

\* The peer is registered; the bind to its srflx address is answered or not;
\* the offer goes out.
Offer(f) ==
    /\ stage[f] = "query"
    /\ stage' = [stage EXCEPT ![f] = "offer"]
    /\ UNCHANGED <<peers, tunnels, connectionMap, vip, tunnel, answer, waiters, held, rx>>

\* The peer has tried the addresses; its answer names its own.
Answer(f, k) ==
    /\ stage[f] = "offer" /\ answer[f] = None
    /\ answer' = [answer EXCEPT ![f] =
                    [peer |-> vip[f], run |-> run[vip[f]], kind |-> k]]
    /\ UNCHANGED <<peers, tunnels, connectionMap, stage, vip, tunnel, waiters, held, rx>>

\* A call of the attempt fails: NotFound, no address, no answer in time.  The
\* answer that comes later finds no future.
Fail(f) ==
    /\ stage[f] \in {"query", "offer"}
    /\ stage' = [stage EXCEPT ![f] = "failed"]
    /\ answer' = [answer EXCEPT ![f] = None]
    /\ UNCHANGED <<peers, tunnels, connectionMap, vip, tunnel, waiters, held, rx>>

\* Mutant: a callback that has been run is run again.
RunWaiterAgain(f) ==
    /\ stage[f] = "failed"
    /\ waiters' = [waiters EXCEPT ![f] = @ - 1]
    /\ Forget(vip[f])
    /\ UNCHANGED <<peers, tunnels, stage, vip, tunnel, answer, held, rx>>

\* A caller's callback on the failure.
RunWaiter(f) ==
    /\ stage[f] = "failed" /\ waiters[f] > 0
    /\ waiters' = [waiters EXCEPT ![f] = @ - 1]
    /\ Forget(vip[f])
    /\ UNCHANGED <<peers, tunnels, stage, vip, tunnel, answer, held, rx>>

\* A new tunnel object, put in the map unless the address has one.
NewTunnel(t, a) ==
    /\ address[t] = None /\ Unmade(t)
    /\ address' = [address EXCEPT ![t] = a]
    /\ open' = open \cup {t}
    /\ tunnelMap' = IF tunnelMap[a] = None THEN [tunnelMap EXCEPT ![a] = t]
                    ELSE tunnelMap

\* The answer is there: P2pManager.create returns the tunnel it made, be it in
\* the map or not; the connection listens to that tunnel's close.
Create(f, t) ==
    /\ answer[f] # None
    /\ NewTunnel(t, answer[f])
    /\ stage' = [stage EXCEPT ![f] = "live"]
    /\ tunnel' = [tunnel EXCEPT ![f] = t]
    /\ answer' = [answer EXCEPT ![f] = None]
    /\ waiters' = [waiters EXCEPT ![f] = 0]
    /\ UNCHANGED <<peers, checks, closing, connectionMap, vip, held, rx>>

-----------------------------------------------------------------------------
(***************************************************************************)
(* From the peers                                                          *)
(***************************************************************************)

\* The peer has started again, and its registration reached the controller.
PeerStarts(p) ==
    /\ run[p] < MaxRun
    /\ run' = [run EXCEPT ![p] = @ + 1]
    /\ UNCHANGED <<offers, tunnels, futures, held, rx>>

PeerOffers(p) ==
    /\ offers' = offers \cup {[peer |-> p, run |-> run[p]]}
    /\ UNCHANGED <<run, tunnels, futures, held, rx>>

\* processP2pOffer, when all addresses have been tried: the first of the list
\* that worked has its tunnel, new or not.  The answer goes out.
Accept(o, k, t) ==
    LET a == [peer |-> o.peer, run |-> o.run, kind |-> k] IN
    /\ o \in offers
    /\ offers' = offers \ {o}
    /\ \/ tunnelMap[a] = None /\ NewTunnel(t, a)
       \/ tunnelMap[a] # None /\ UNCHANGED <<tunnelMap, address, open>>
    /\ UNCHANGED <<run, checks, closing, futures, held, rx>>

\* A Transfer from an address that has a tunnel.  (Others are ignored.)
Receive(a) ==
    /\ rx = None
    /\ tunnelMap[a] # None
    /\ rx' = tunnelMap[a]
    /\ UNCHANGED <<peers, tunnels, futures, held>>

\* The data handler of ConnectionManager: a connection over that tunnel unless
\* the VIP has a future.  If the tunnel has been closed meanwhile its listener
\* runs at once, within computeIfAbsent, where the removal finds nothing yet
\* (in Java 9 and later it throws, and the listener's future takes that).
Deliver(f) ==
    /\ rx # None
    /\ connectionMap[address[rx].peer] = None
    /\ stage[f] = "unused" /\ NewFuture(f)
    /\ connectionMap' = [connectionMap EXCEPT ![address[rx].peer] = f]
    /\ stage' = [stage EXCEPT ![f] = IF rx \in open THEN "live" ELSE "closed"]
    /\ vip' = [vip EXCEPT ![f] = address[rx].peer]
    /\ tunnel' = [tunnel EXCEPT ![f] = rx]
    /\ rx' = None
    /\ UNCHANGED <<peers, tunnels, answer, waiters, held>>

\* In Java 8 that removal, if the VIP is alone in its bin, looks at the
\* reservation over and over: the loop does not come back.
DeliverSpins ==
    /\ rx # None /\ rx \notin open
    /\ connectionMap[address[rx].peer] = None
    /\ connectionMap' = [connectionMap EXCEPT ![address[rx].peer] = Reserved]
    /\ UNCHANGED <<peers, tunnels, stage, vip, tunnel, answer, waiters, held, rx>>

DeliverKnown ==
    /\ rx # None
    /\ connectionMap[address[rx].peer] \in Future
    /\ rx' = None
    /\ UNCHANGED <<peers, tunnels, futures, held>>

-----------------------------------------------------------------------------
(***************************************************************************)
(* The heart of the tunnels                                                *)
(***************************************************************************)

\* Mutant of Check: the next pass does not wait for the answer of a bind.
CheckAgain(a) ==
    LET t == tunnelMap[a] IN
    /\ t # None
    /\ checks[t] < MaxChecks
    /\ checks' = [checks EXCEPT ![t] = @ + 1]
    /\ UNCHANGED <<peers, tunnelMap, address, open, closing, futures, held, rx>>

\* A pass asks whatever earlier ones asked.  With the default configuration a
\* direct tunnel's bind is answered or times out (300 ms) before the next pass
\* (1 s), so MaxBinds is 1: nothing in the code sees to it.  A relay tunnel's
\* question to the controller may take several passes.
Check(a) ==
    LET t == tunnelMap[a] IN
    /\ t # None
    /\ checks[t] < IF a.kind = "relay" THEN MaxChecks ELSE MaxBinds
    /\ checks' = [checks EXCEPT ![t] = @ + 1]
    /\ UNCHANGED <<peers, tunnelMap, address, open, closing, futures, held, rx>>

Checked(t) == checks' = [checks EXCEPT ![t] = @ - 1]

\* The address answers, or is what the controller says of the peer.  (A peer is
\* in its next run once the controller has it registered again: until then the
\* controller goes on naming the relay token of the one before.)
CheckOk(t) ==
    /\ checks[t] > 0
    /\ address[t].run = run[address[t].peer]
    /\ Checked(t)
    /\ UNCHANGED <<peers, tunnelMap, address, open, closing, futures, held, rx>>

\* Mutant: the tunnel is closed and stays in the map.
CheckFailsKeeps(t) ==
    /\ checks[t] > 0
    /\ Checked(t)
    /\ closing' = closing \cup {t}
    /\ UNCHANGED <<peers, tunnelMap, address, open, futures, held, rx>>

\* tunnelMap.remove(uri): whatever is there.  A lost datagram is enough.
CheckFails(t) ==
    /\ checks[t] > 0
    /\ Checked(t)
    /\ tunnelMap' = [tunnelMap EXCEPT ![address[t]] = None]
    /\ closing' = closing \cup {t}
    /\ UNCHANGED <<peers, address, open, futures, held, rx>>

CloseTunnel(t) ==
    /\ t \in closing
    /\ closing' = closing \ {t}
    /\ open' = open \ {t}
    /\ UNCHANGED <<peers, tunnelMap, address, checks, futures, held, rx>>

\* Mutant: the connection's own listener is missing.
CloseConnectionKeeps(f) ==
    /\ stage[f] = "live" /\ tunnel[f] \notin open
    /\ stage' = [stage EXCEPT ![f] = "closed"]
    /\ UNCHANGED <<peers, tunnels, connectionMap, vip, tunnel, answer, waiters, held, rx>>

\* The tunnel's close listener closes the connection, whose close listener
\* removes the VIP's future: whatever is there.
CloseConnection(f) ==
    /\ stage[f] = "live" /\ tunnel[f] \notin open
    /\ stage' = [stage EXCEPT ![f] = "closed"]
    /\ Forget(vip[f])
    /\ UNCHANGED <<peers, tunnels, vip, tunnel, answer, waiters, held, rx>>

-----------------------------------------------------------------------------
Result(t) == CheckOk(t) \/ CheckFails(t)
Called(f) == Offer(f) \/ Fail(f) \/ \E t \in Tunnel : Create(f, t)
Received == DeliverKnown \/ DeliverSpins \/ \E f \in Future : Deliver(f)
CheckOf(t) == \E a \in Addr : tunnelMap[a] = t /\ Check(a)

Next ==
    \/ \E p \in Peer, f \in Future : Begin(p, f)
    \/ \E f \in Future : Join(f)
    \/ Attach
    \/ \E f \in Future, k \in {"prflx", "relay"} : Answer(f, k)
    \/ \E f \in Future : Called(f) \/ RunWaiter(f) \/ CloseConnection(f)
    \/ \E p \in Peer : PeerStarts(p) \/ PeerOffers(p)
    \/ \E o \in offers, k \in Kind, t \in Tunnel : Accept(o, k, t)
    \/ \E a \in Addr : Receive(a) \/ Check(a)
    \/ Received
    \/ \E t \in Tunnel : Result(t) \/ CloseTunnel(t)

Spec == Init /\ [][Next]_vars

\* Threads run, calls time out, and the heart goes round the map.
FairSpec ==
    /\ Spec
    /\ WF_vars(Attach) /\ WF_vars(Received)
    /\ WF_vars(\E f \in Future : Called(f))
    /\ WF_vars(\E f \in Future : RunWaiter(f) \/ CloseConnection(f))
    /\ \A t \in Tunnel : WF_vars(CheckOf(t)) /\ WF_vars(Result(t))
    /\ WF_vars(\E t \in Tunnel : CloseTunnel(t))

\* The heart and the listeners alone.
HeartSpec ==
    /\ Spec
    /\ \A t \in Tunnel : WF_vars(CheckOf(t) \/ Result(t))
    /\ WF_vars(\E t \in Tunnel : CloseTunnel(t))
    /\ WF_vars(\E f \in Future : CloseConnection(f))

-----------------------------------------------------------------------------
(***************************************************************************)
(* Properties                                                              *)
(***************************************************************************)

\* Every variable has its type.
TypeOK ==
    /\ run \in [Peer -> 0..MaxRun]
    /\ offers \in SUBSET [peer : Peer, run : 0..MaxRun]
    /\ tunnelMap \in [Addr -> Tunnel \cup {None}]
    /\ address \in [Tunnel -> Addr \cup {None}]
    /\ open \in SUBSET Tunnel
    /\ checks \in [Tunnel -> Nat]
    /\ closing \in SUBSET Tunnel
    /\ connectionMap \in [Peer -> Future \cup {None, Reserved}]
    /\ stage \in [Future -> Stage]
    /\ vip \in [Future -> Peer \cup {None}]
    /\ tunnel \in [Future -> Tunnel \cup {None}]
    /\ answer \in [Future -> Addr \cup {None}]
    /\ waiters \in [Future -> Nat]
    /\ held \in Future \cup {None}
    /\ rx \in Tunnel \cup {None}

\* A failed attempt does not stay in the way of later packets: as long as it is
\* in the map someone is still to take it out, whichever callers came before or
\* after the failure (getConnection's whenComplete).
FailureForgotten ==
    \A f \in Future : stage[f] = "failed" =>
        \/ connectionMap[vip[f]] # f
        \/ waiters[f] > 0 \/ held = f

\* What is in the tunnel map is open, and under its own address: packets are
\* not taken from a tunnel that the heart has given up, and a tunnel that was
\* given up never comes back (P2pManager's two ways to put one, and the heart).
MonitoredOpen ==
    \A a \in Addr : tunnelMap[a] # None =>
        /\ address[tunnelMap[a]] = a
        /\ tunnelMap[a] \in open \ closing

Dead(t) == address[t].run # run[address[t].peer]

\* A direct tunnel that the heart looks after leaves the map only to be closed,
\* as long as no pass meets a bind of the one before (MaxBinds = 1): neither a late result of an earlier tunnel of the address nor an answer that
\* makes another one there leaves it open and unwatched (the heart's remove by
\* address, create; a relay's tunnel, with several checks out, may be left so).
MonitoredLasts ==
    [][\A a \in Addr :
          a.kind # "relay" /\ tunnelMap[a] # None =>
              tunnelMap'[a] = tunnelMap[a] \/ tunnelMap[a] \in closing']_vars

\* A direct connection to a peer that has gone, over a tunnel the heart looks
\* after, is given up, so that the next packet finds where the peer is now.
MonitoredReplaced ==
    \A p \in Peer, f \in Future, a \in Addr :
        (/\ connectionMap[p] = f
         /\ a.kind # "relay" /\ tunnelMap[a] # None
         /\ tunnelMap[a] = tunnel[f] /\ Dead(tunnel[f]))
            ~> connectionMap[p] # f

\* "netThunder allows users to establish point-to-point connections": where a
\* peer has gone from is given up for where it is now.  The code breaks this.
DeadReplaced ==
    \A p \in Peer, f \in Future :
        (connectionMap[p] = f /\ tunnel[f] # None /\ Dead(tunnel[f]))
            ~> connectionMap[p] # f
=============================================================================
