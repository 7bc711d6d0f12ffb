------------------------- MODULE PeerConnectionsProofs -------------------------
(***************************************************************************)
(* What holds of PeerConnections for any peers, objects and bounds.        *)
(***************************************************************************)
EXTENDS PeerConnections, TLAPS

\* An attempt that is not over, or has failed.
Attempted == {"query", "offer", "failed"}

\* An attempt that is in the map has someone who will look at its end: the
\* condition of FailureForgotten, from the attempt's beginning on.
AttemptWatched ==
    \A f \in Future : stage[f] \in Attempted =>
        connectionMap[vip[f]] # f \/ waiters[f] > 0 \/ held = f

\* What has been made has a peer or an address.
Made ==
    /\ \A f \in Future : stage[f] # "unused" => vip[f] \in Peer
    /\ \A t \in Tunnel : checks[t] > 0 \/ t \in closing => address[t] \in Addr
    /\ rx # None => address[rx] \in Addr
    /\ \A f \in Future : answer[f] # None => stage[f] = "offer"

IInv == TypeOK /\ Made /\ AttemptWatched /\ MonitoredOpen

USE DEF Addr, Stage, Attempted, peers, tunnels, futures, NewTunnel, Forget, Checked

-----------------------------------------------------------------------------
LEMMA Nulls ==
    /\ \A f \in Future : f # None /\ f # Reserved
    /\ \A t \in Tunnel : t # None
    /\ \A p \in Peer : p # None
    /\ \A a \in Addr : a # None
    /\ None # Reserved
BY PeerConstants

LEMMA InitIInv == Init => IInv
BY Nulls, PeerConstants DEF Init, IInv, TypeOK, Made, AttemptWatched, MonitoredOpen

LEMMA BeginStep ==
    ASSUME IInv, NEW p \in Peer, NEW f \in Future, Begin(p, f)
    PROVE  IInv'
BY Nulls DEF IInv, TypeOK, Made, AttemptWatched, MonitoredOpen, Begin

LEMMA JoinStep ==
    ASSUME IInv, NEW f \in Future, Join(f)
    PROVE  IInv'
BY Nulls DEF IInv, TypeOK, Made, AttemptWatched, MonitoredOpen, Join

LEMMA AttachStep ==
    ASSUME IInv, Attach
    PROVE  IInv'
BY Nulls DEF IInv, TypeOK, Made, AttemptWatched, MonitoredOpen, Attach

LEMMA CallStep ==
    ASSUME IInv, NEW f \in Future,
           Offer(f) \/ Fail(f) \/ RunWaiter(f) \/ CloseConnection(f)
    PROVE  IInv'
<1>1. CASE Offer(f)
  BY <1>1, Nulls DEF IInv, TypeOK, Made, AttemptWatched, MonitoredOpen, Offer
<1>2. CASE Fail(f)
  BY <1>2, Nulls DEF IInv, TypeOK, Made, AttemptWatched, MonitoredOpen, Fail
<1>3. CASE RunWaiter(f)
  BY <1>3, Nulls DEF IInv, TypeOK, Made, AttemptWatched, MonitoredOpen, RunWaiter
<1>4. CASE CloseConnection(f)
  BY <1>4, Nulls DEF IInv, TypeOK, Made, AttemptWatched, MonitoredOpen, CloseConnection
<1>5. QED
  BY <1>1, <1>2, <1>3, <1>4

LEMMA AnswerStep ==
    ASSUME IInv, NEW f \in Future, NEW k \in {"prflx", "relay"}, Answer(f, k)
    PROVE  IInv'
<1>1. [peer |-> vip[f], run |-> run[vip[f]], kind |-> k] \in Addr
  BY DEF IInv, TypeOK, Made, Answer
<1>2. QED
  BY <1>1, Nulls DEF IInv, TypeOK, Made, AttemptWatched, MonitoredOpen, Answer

\* A tunnel that is made is in neither map nor hand before.
LEMMA NewTunnelKeeps ==
    ASSUME IInv, NEW t \in Tunnel, NEW a \in Addr, NewTunnel(t, a),
           UNCHANGED <<checks, closing, rx>>
    PROVE  /\ tunnelMap' \in [Addr -> Tunnel \cup {None}]
           /\ address' \in [Tunnel -> Addr \cup {None}]
           /\ open' \in SUBSET Tunnel
           /\ \A u \in Tunnel : checks'[u] > 0 \/ u \in closing' => address'[u] \in Addr
           /\ rx' # None => address'[rx'] \in Addr
           /\ MonitoredOpen'
BY Nulls DEF IInv, TypeOK, Made, MonitoredOpen

LEMMA CreateStep ==
    ASSUME IInv, NEW f \in Future, NEW t \in Tunnel, Create(f, t)
    PROVE  IInv'
<1>1. answer[f] \in Addr
  BY DEF IInv, TypeOK, Create
<1>2. NewTunnel(t, answer[f]) /\ UNCHANGED <<checks, closing, rx>>
  BY DEF Create
<1>3. /\ tunnelMap' \in [Addr -> Tunnel \cup {None}]
      /\ address' \in [Tunnel -> Addr \cup {None}]
      /\ open' \in SUBSET Tunnel
      /\ \A u \in Tunnel : checks'[u] > 0 \/ u \in closing' => address'[u] \in Addr
      /\ rx' # None => address'[rx'] \in Addr
      /\ MonitoredOpen'
  BY <1>1, <1>2, NewTunnelKeeps
<1>4. TypeOK'
  <2>1. UNCHANGED <<run, offers, checks, closing, connectionMap, vip, held, rx>>
    BY DEF Create
  <2>2. /\ stage' \in [Future -> Stage]
        /\ tunnel' \in [Future -> Tunnel \cup {None}]
        /\ answer' \in [Future -> Addr \cup {None}]
        /\ waiters' \in [Future -> Nat]
    BY DEF Create, IInv, TypeOK
  <2>3. /\ run' \in [Peer -> 0..MaxRun]
        /\ offers' \in SUBSET [peer : Peer, run : 0..MaxRun]
        /\ checks' \in [Tunnel -> Nat]
        /\ closing' \in SUBSET Tunnel
        /\ connectionMap' \in [Peer -> Future \cup {None, Reserved}]
        /\ vip' \in [Future -> Peer \cup {None}]
        /\ held' \in Future \cup {None}
        /\ rx' \in Tunnel \cup {None}
    BY <2>1 DEF IInv, TypeOK
  <2>4. QED
    BY <1>3, <2>2, <2>3 DEF TypeOK
<1>5. Made'
  <2>1. vip' = vip /\ stage[f] # "unused"
    BY <1>1 DEF Create, IInv, Made
  <2>2. \A g \in Future : stage'[g] # "unused" => stage[g] # "unused"
    BY <2>1 DEF Create, IInv, TypeOK
  <2>3. \A g \in Future : answer'[g] # None => stage'[g] = "offer"
    BY <1>1, Nulls DEF Create, IInv, TypeOK, Made
  <2>4. QED
    BY <1>3, <2>1, <2>2, <2>3 DEF IInv, Made
<1>6. AttemptWatched'
  <2>1. UNCHANGED <<connectionMap, vip, held>> /\ stage'[f] = "live"
    BY DEF Create, IInv, TypeOK
  <2>2. \A g \in Future : g # f => stage'[g] = stage[g] /\ waiters'[g] = waiters[g]
    BY DEF Create, IInv, TypeOK
  <2>3. QED
    BY <2>1, <2>2 DEF IInv, AttemptWatched
<1>7. QED
  BY <1>3, <1>4, <1>5, <1>6 DEF IInv

LEMMA PeerStep ==
    ASSUME IInv, NEW p \in Peer, PeerStarts(p) \/ PeerOffers(p)
    PROVE  IInv'
<1>1. run' \in [Peer -> 0..MaxRun] /\ offers' \in SUBSET [peer : Peer, run : 0..MaxRun]
  <2>1. CASE PeerStarts(p)
    BY <2>1, PeerConstants DEF IInv, TypeOK, PeerStarts
  <2>2. CASE PeerOffers(p)
    <3>1. [peer |-> p, run |-> run[p]] \in [peer : Peer, run : 0..MaxRun]
      BY DEF IInv, TypeOK
    <3>2. QED
      BY <2>2, <3>1 DEF IInv, TypeOK, PeerOffers
  <2>3. QED
    BY <2>1, <2>2
<1>2. UNCHANGED <<tunnels, futures, held, rx>>
  BY DEF PeerStarts, PeerOffers
<1>3. QED
  BY <1>1, <1>2 DEF IInv, TypeOK, Made, AttemptWatched, MonitoredOpen

LEMMA AcceptStep ==
    ASSUME IInv, NEW o \in offers, NEW k \in Kind, NEW t \in Tunnel, Accept(o, k, t)
    PROVE  IInv'
<1> DEFINE a == [peer |-> o.peer, run |-> o.run, kind |-> k]
<1>1. a \in Addr
  BY DEF IInv, TypeOK
<1>2. CASE tunnelMap[a] = None /\ NewTunnel(t, a)
  <2>1. UNCHANGED <<run, checks, closing, futures, held, rx>>
    BY DEF Accept
  <2>2. UNCHANGED <<checks, closing, rx>>
    BY <2>1
  <2>3. offers' \in SUBSET [peer : Peer, run : 0..MaxRun]
    BY DEF Accept, IInv, TypeOK
  <2>4. /\ tunnelMap' \in [Addr -> Tunnel \cup {None}]
        /\ address' \in [Tunnel -> Addr \cup {None}]
        /\ open' \in SUBSET Tunnel
        /\ \A u \in Tunnel : checks'[u] > 0 \/ u \in closing' => address'[u] \in Addr
        /\ rx' # None => address'[rx'] \in Addr
        /\ MonitoredOpen'
    BY <1>1, <1>2, <2>2, NewTunnelKeeps
  <2>5. TypeOK' /\ AttemptWatched' /\ Made'
    BY <2>1, <2>3, <2>4 DEF IInv, TypeOK, Made, AttemptWatched
  <2>6. QED
    BY <2>4, <2>5 DEF IInv
<1>3. CASE UNCHANGED <<tunnelMap, address, open>>
  <2>1. UNCHANGED <<tunnelMap, address, open, checks, closing, held, rx>>
    BY <1>3 DEF Accept
  <2>2. UNCHANGED <<run, connectionMap, stage, vip, tunnel, answer, waiters>>
    BY DEF Accept
  <2>3. offers' \in SUBSET [peer : Peer, run : 0..MaxRun]
    BY DEF Accept, IInv, TypeOK
  <2>4. QED
    BY <2>1, <2>2, <2>3 DEF IInv, TypeOK, Made, AttemptWatched, MonitoredOpen
<1>4. QED
  BY <1>2, <1>3 DEF Accept

LEMMA ReceiveStep ==
    ASSUME IInv, NEW a \in Addr, Receive(a)
    PROVE  IInv'
BY Nulls DEF IInv, TypeOK, Made, AttemptWatched, MonitoredOpen, Receive

LEMMA DeliverStep ==
    ASSUME IInv, Received
    PROVE  IInv'
<1>1. CASE DeliverKnown
  BY <1>1, Nulls DEF IInv, TypeOK, Made, AttemptWatched, MonitoredOpen, DeliverKnown
<1>2. CASE DeliverSpins
  BY <1>2, Nulls DEF IInv, TypeOK, Made, AttemptWatched, MonitoredOpen, DeliverSpins
<1>3. ASSUME NEW f \in Future, Deliver(f) PROVE IInv'
  BY <1>3, Nulls DEF IInv, TypeOK, Made, AttemptWatched, MonitoredOpen, Deliver
<1>4. QED
  BY <1>1, <1>2, <1>3 DEF Received

LEMMA CheckStep ==
    ASSUME IInv, NEW a \in Addr, Check(a)
    PROVE  IInv'
BY Nulls DEF IInv, TypeOK, Made, AttemptWatched, MonitoredOpen, Check

LEMMA ResultStep ==
    ASSUME IInv, NEW t \in Tunnel, Result(t) \/ CloseTunnel(t)
    PROVE  IInv'
<1>1. CASE CheckOk(t)
  BY <1>1, Nulls DEF IInv, TypeOK, Made, AttemptWatched, MonitoredOpen, CheckOk
<1>2. CASE CheckFails(t)
  <2>1. UNCHANGED <<peers, address, open, futures, held, rx>>
    BY <1>2 DEF CheckFails
  <2>2. address[t] \in Addr
    BY <1>2 DEF IInv, Made, CheckFails
  <2>3. tunnelMap' \in [Addr -> Tunnel \cup {None}] /\ closing' \in SUBSET Tunnel
    BY <1>2 DEF IInv, TypeOK, CheckFails
  <2>4. checks' \in [Tunnel -> Nat] /\ \A u \in Tunnel : checks'[u] > 0 => checks[u] > 0
    BY <1>2 DEF IInv, TypeOK, CheckFails
  <2>5. TypeOK' /\ AttemptWatched'
    BY <2>1, <2>3, <2>4 DEF IInv, TypeOK, AttemptWatched
  <2>6. Made'
    BY <1>2, <2>1, <2>2, <2>4 DEF IInv, Made, CheckFails
  <2>7. MonitoredOpen'
    BY <1>2, <2>1, <2>2, Nulls DEF IInv, TypeOK, MonitoredOpen, CheckFails
  <2>8. QED
    BY <2>5, <2>6, <2>7 DEF IInv
<1>3. CASE CloseTunnel(t)
  BY <1>3, Nulls DEF IInv, TypeOK, Made, AttemptWatched, MonitoredOpen, CloseTunnel
<1>4. QED
  BY <1>1, <1>2, <1>3 DEF Result

LEMMA NextIInv == IInv /\ [Next]_vars => IInv'
<1> SUFFICES ASSUME IInv, [Next]_vars PROVE IInv'
  OBVIOUS
<1>1. CASE UNCHANGED vars
  BY <1>1 DEF IInv, TypeOK, Made, AttemptWatched, MonitoredOpen, vars
<1>2. CASE Next
  BY <1>2, BeginStep, JoinStep, AttachStep, CallStep, AnswerStep, CreateStep,
     PeerStep, AcceptStep, ReceiveStep, DeliverStep, CheckStep, ResultStep
  DEF Next, Called
<1>3. QED
  BY <1>1, <1>2

LEMMA Invariance == Spec => []IInv
BY InitIInv, NextIInv, PTL DEF Spec

-----------------------------------------------------------------------------
\* Every variable has its type, whatever the peers do.
THEOREM TypeCorrect == Spec => []TypeOK
<1>1. IInv => TypeOK
  BY DEF IInv
<1>2. QED
  BY <1>1, Invariance, PTL

\* A failed attempt never stays in the way of later packets.
THEOREM FailureIsForgotten == Spec => []FailureForgotten
<1>1. IInv => FailureForgotten
  BY DEF IInv, AttemptWatched, FailureForgotten
<1>2. QED
  BY <1>1, Invariance, PTL

\* What is in the tunnel map is open and under its own address.
THEOREM MonitoredIsOpen == Spec => []MonitoredOpen
<1>1. IInv => MonitoredOpen
  BY DEF IInv
<1>2. QED
  BY <1>1, Invariance, PTL

-----------------------------------------------------------------------------
(* The tunnels the heart looks after                                       *)

\* A direct tunnel that has a check out is the one in the map under its address,
\* and has no other, where passes wait for the answer of a bind.
ChecksOwned ==
    \A t \in Tunnel : checks[t] > 0 /\ address[t].kind # "relay" =>
        checks[t] = 1 /\ tunnelMap[address[t]] = t

LEMMA InitOwned == Init => ChecksOwned
BY DEF Init, ChecksOwned

\* What a step on tunnels does to them.
LEMMA NewTunnelOwned ==
    ASSUME IInv, ChecksOwned, NEW t \in Tunnel, NEW a \in Addr, NewTunnel(t, a),
           UNCHANGED checks
    PROVE  ChecksOwned'
<1>1. ~ (checks[t] > 0)
  BY Nulls DEF IInv, Made
<1>2. \A u \in Tunnel : u # t => address'[u] = address[u]
  BY DEF IInv, TypeOK
<1>3. ASSUME NEW u \in Tunnel, checks[u] > 0, address[u].kind # "relay"
      PROVE  tunnelMap'[address[u]] = u
  <2>1. address[u] \in Addr /\ tunnelMap[address[u]] = u /\ u # None
    BY <1>3, Nulls DEF IInv, Made, ChecksOwned
  <2> QED
    BY <2>1 DEF IInv, TypeOK
<1> QED
  BY <1>1, <1>2, <1>3 DEF ChecksOwned

LEMMA CheckOwned ==
    ASSUME MaxBinds <= 1, IInv, ChecksOwned, NEW a \in Addr, Check(a)
    PROVE  ChecksOwned'
<1> DEFINE t == tunnelMap[a]
<1>1. t \in Tunnel /\ address[t] = a
  BY DEF Check, IInv, TypeOK, MonitoredOpen
<1>2. /\ checks' = [checks EXCEPT ![t] = @ + 1]
      /\ UNCHANGED <<tunnelMap, address>>
      /\ a.kind # "relay" => checks[t] < MaxBinds
  BY DEF Check
<1>3. MaxBinds \in Nat /\ checks \in [Tunnel -> Nat]
  BY PeerConstants DEF IInv, TypeOK
<1> HIDE DEF t
<1>4. ASSUME NEW u \in Tunnel, checks'[u] > 0, address'[u].kind # "relay"
      PROVE  checks'[u] = 1 /\ tunnelMap'[address'[u]] = u
  <2>1. CASE u = t
    BY <1>1, <1>2, <1>3, <1>4, <2>1 DEF t
  <2>2. CASE u # t
    BY <1>2, <1>3, <1>4, <2>2 DEF ChecksOwned
  <2> QED
    BY <2>1, <2>2
<1> QED
  BY <1>4 DEF ChecksOwned

LEMMA ResultOwned ==
    ASSUME IInv, ChecksOwned, NEW t \in Tunnel, Result(t)
    PROVE  ChecksOwned'
<1>1. /\ checks' = [checks EXCEPT ![t] = @ - 1] /\ checks[t] > 0
      /\ address' = address
      /\ tunnelMap' = tunnelMap \/ tunnelMap' = [tunnelMap EXCEPT ![address[t]] = None]
  BY DEF Result, CheckOk, CheckFails
<1>2. checks \in [Tunnel -> Nat] /\ tunnelMap \in [Addr -> Tunnel \cup {None}]
  BY DEF IInv, TypeOK
<1>3. ASSUME NEW u \in Tunnel, checks'[u] > 0, address[u].kind # "relay"
      PROVE  checks'[u] = 1 /\ tunnelMap'[address[u]] = u
  <2>1. u # t /\ checks[u] > 0
    BY <1>1, <1>2, <1>3 DEF ChecksOwned
  <2>2. checks[u] = 1 /\ tunnelMap[address[u]] = u /\ checks'[u] = checks[u]
    BY <1>1, <1>2, <1>3, <2>1 DEF ChecksOwned
  <2>3. address[u] # address[t]
    <3>1. CASE address[t].kind = "relay"
      BY <1>3, <3>1
    <3>2. CASE address[t].kind # "relay"
      BY <1>1, <2>1, <2>2, <3>2 DEF ChecksOwned
    <3> QED
      BY <3>1, <3>2
  <2>4. address[u] \in Addr
    BY <2>1 DEF IInv, Made
  <2> QED
    BY <1>1, <1>2, <2>2, <2>3, <2>4
<1> QED
  BY <1>1, <1>3 DEF ChecksOwned

LEMMA NextOwned ==
    ASSUME MaxBinds <= 1
    PROVE  IInv /\ ChecksOwned /\ [Next]_vars => ChecksOwned'
<1> SUFFICES ASSUME IInv, ChecksOwned, [Next]_vars PROVE ChecksOwned'
  OBVIOUS
<1>1. ASSUME UNCHANGED <<tunnelMap, address, checks>> PROVE ChecksOwned'
  BY <1>1 DEF ChecksOwned
<1>2. ASSUME NEW f \in Future, NEW t \in Tunnel, Create(f, t) PROVE ChecksOwned'
  <2>1. answer[f] \in Addr /\ NewTunnel(t, answer[f]) /\ UNCHANGED checks
    BY <1>2 DEF Create, IInv, TypeOK
  <2> QED
    BY <2>1, NewTunnelOwned
<1>3. ASSUME NEW o \in offers, NEW k \in Kind, NEW t \in Tunnel, Accept(o, k, t)
      PROVE  ChecksOwned'
  <2> DEFINE a == [peer |-> o.peer, run |-> o.run, kind |-> k]
  <2>1. a \in Addr
    BY DEF IInv, TypeOK
  <2>2. /\ NewTunnel(t, a) \/ UNCHANGED <<tunnelMap, address, open>>
        /\ UNCHANGED checks
    BY <1>3 DEF Accept
  <2> HIDE DEF a
  <2> QED
    BY <1>1, <2>1, <2>2, NewTunnelOwned
<1>4. ASSUME NEW a \in Addr, Receive(a) \/ Check(a) PROVE ChecksOwned'
  BY <1>1, <1>4, CheckOwned DEF Receive
<1>5. ASSUME NEW t \in Tunnel, Result(t) \/ CloseTunnel(t) PROVE ChecksOwned'
  BY <1>1, <1>5, ResultOwned DEF CloseTunnel
<1>6. ASSUME NEW f \in Future,
             \/ \E p \in Peer : Begin(p, f)
             \/ \E k \in {"prflx", "relay"} : Answer(f, k)
             \/ Join(f) \/ Offer(f) \/ Fail(f) \/ RunWaiter(f) \/ CloseConnection(f)
      PROVE  ChecksOwned'
  BY <1>1, <1>6
     DEF Begin, Answer, Join, Offer, Fail, RunWaiter, CloseConnection
<1>7. ASSUME NEW p \in Peer, PeerStarts(p) \/ PeerOffers(p) PROVE ChecksOwned'
  BY <1>1, <1>7 DEF PeerStarts, PeerOffers
<1>8. CASE Attach \/ Received
  BY <1>1, <1>8 DEF Attach, Received, DeliverKnown, DeliverSpins, Deliver
<1>9. CASE UNCHANGED vars
  BY <1>1, <1>9 DEF vars
<1> QED
  BY <1>2, <1>3, <1>4, <1>5, <1>6, <1>7, <1>8, <1>9 DEF Next, Called

\* A step takes a direct tunnel out of the map only with the failure of its own
\* check, which closes it.
LEMMA OwnedLasts ==
    ASSUME IInv, ChecksOwned, [Next]_vars,
           NEW a \in Addr, a.kind # "relay", tunnelMap[a] # None
    PROVE  tunnelMap'[a] = tunnelMap[a] \/ tunnelMap[a] \in closing'
<1>1. tunnelMap \in [Addr -> Tunnel \cup {None}]
  BY DEF IInv, TypeOK
<1>2. ASSUME NEW t \in Tunnel, NEW b, NewTunnel(t, b) PROVE tunnelMap'[a] = tunnelMap[a]
  BY <1>1, <1>2
<1>3. ASSUME NEW t \in Tunnel, CheckFails(t)
      PROVE  tunnelMap'[a] = tunnelMap[a] \/ tunnelMap[a] \in closing'
  <2>1. /\ checks[t] > 0
        /\ tunnelMap' = [tunnelMap EXCEPT ![address[t]] = None]
        /\ closing' = closing \cup {t}
    BY <1>3 DEF CheckFails
  <2>2. CASE address[t] = a
    BY <2>1, <2>2 DEF ChecksOwned
  <2>3. CASE address[t] # a
    BY <1>1, <2>1, <2>3
  <2> QED
    BY <2>2, <2>3
<1>4. \/ \E t \in Tunnel, b \in Addr \cup {None} : NewTunnel(t, b)
      \/ \E t \in Tunnel : CheckFails(t)
      \/ tunnelMap' = tunnelMap
  <2>1. ASSUME NEW f \in Future, NEW t \in Tunnel, Create(f, t)
        PROVE  \E b \in Addr \cup {None} : NewTunnel(t, b)
    BY <2>1 DEF Create, IInv, TypeOK
  <2>2. ASSUME NEW o \in offers, NEW k \in Kind, NEW t \in Tunnel, Accept(o, k, t)
        PROVE  (\E b \in Addr \cup {None} : NewTunnel(t, b)) \/ tunnelMap' = tunnelMap
    <3> DEFINE b == [peer |-> o.peer, run |-> o.run, kind |-> k]
    <3>1. b \in Addr
      BY DEF IInv, TypeOK
    <3>2. NewTunnel(t, b) \/ tunnelMap' = tunnelMap
      BY <2>2 DEF Accept
    <3> HIDE DEF b
    <3> QED
      BY <3>1, <3>2
  <2>3. ASSUME NEW t \in Tunnel, Result(t) \/ CloseTunnel(t)
        PROVE  CheckFails(t) \/ tunnelMap' = tunnelMap
    BY <2>3 DEF Result, CheckOk, CloseTunnel
  <2>4. ASSUME NEW f \in Future,
               \/ \E p \in Peer : Begin(p, f)
               \/ \E k \in {"prflx", "relay"} : Answer(f, k)
               \/ Join(f) \/ Offer(f) \/ Fail(f) \/ RunWaiter(f) \/ CloseConnection(f)
        PROVE  tunnelMap' = tunnelMap
    BY <2>4 DEF Begin, Answer, Join, Offer, Fail, RunWaiter, CloseConnection
  <2>5. ASSUME NEW p \in Peer, PeerStarts(p) \/ PeerOffers(p)
        PROVE  tunnelMap' = tunnelMap
    BY <2>5 DEF PeerStarts, PeerOffers
  <2>6. ASSUME NEW b \in Addr, Receive(b) \/ Check(b) PROVE tunnelMap' = tunnelMap
    BY <2>6 DEF Receive, Check
  <2>7. CASE Attach \/ Received
    BY <2>7 DEF Attach, Received, DeliverKnown, DeliverSpins, Deliver
  <2>8. CASE UNCHANGED vars
    BY <2>8 DEF vars
  <2> QED
    BY <2>1, <2>2, <2>3, <2>4, <2>5, <2>6, <2>7, <2>8 DEF Next, Called
<1> QED
  BY <1>2, <1>3, <1>4

\* If the heart has at most one check of a direct tunnel out at a time, such a
\* tunnel leaves the map only to be closed: no late result and no second tunnel of its address leaves it open and
\* unwatched (P2pManager's heart and create).
THEOREM MonitoredUntilClosed ==
    ASSUME MaxBinds <= 1
    PROVE  Spec => MonitoredLasts
<1>1. IInv /\ ChecksOwned /\ [Next]_vars =>
          [\A a \in Addr :
              a.kind # "relay" /\ tunnelMap[a] # None =>
                  tunnelMap'[a] = tunnelMap[a] \/ tunnelMap[a] \in closing']_vars
  BY OwnedLasts
<1>2. Init => IInv /\ ChecksOwned
  BY InitIInv, InitOwned
<1>3. IInv /\ ChecksOwned /\ [Next]_vars => (IInv /\ ChecksOwned)'
  BY NextIInv, NextOwned
<1> QED
  BY <1>1, <1>2, <1>3, PTL DEF Spec, MonitoredLasts
=============================================================================
