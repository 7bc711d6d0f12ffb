------------------------------ MODULE VipLease ------------------------------
(***************************************************************************)
(* What the controller's address registry promises to the nodes, free of   *)
(* threads, maps and listeners: a session is granted at most one virtual   *)
(* address, the address belongs to that session alone until the session    *)
(* ends, and a session that has ended is never granted anything again.     *)
(***************************************************************************)
CONSTANTS Vip,      \* the virtual addresses
          Session,  \* the control connections nodes open
          Nobody    \* the owner of a free address, no session

VARIABLES owner,    \* owner[v]: the session that was told it has v
          ended     \* the sessions that are over

vars == <<owner, ended>>

Init == /\ owner = [v \in Vip |-> Nobody]
        /\ ended = {}

(* A live session without an address is given a free one.                  *)
Grant(s, v) ==
    /\ s \notin ended
    /\ \A w \in Vip : owner[w] # s
    /\ owner[v] = Nobody
    /\ owner' = [owner EXCEPT ![v] = s]
    /\ UNCHANGED ended

(* Sessions end - one that is closed, or all of them when the controller   *)
(* stops - and their addresses are free.                                   *)
End(gone) ==
    /\ ended' = ended \cup gone
    /\ owner' = [v \in Vip |-> IF owner[v] \in gone THEN Nobody ELSE owner[v]]

Next == \/ \E s \in Session, v \in Vip : Grant(s, v)
        \/ \E gone \in SUBSET Session : End(gone)

Spec == Init /\ [][Next]_vars
=============================================================================
