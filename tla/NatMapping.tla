------------------------------ MODULE NatMapping ------------------------------
(***************************************************************************)
(* MappingManager: every 5 s a node asks the STUN server where it is seen  *)
(* and finds the kind of NAT it is behind, by which of the server's        *)
(* answers get in.  The server has two addresses and two ports; "changed"  *)
(* is the other address with the other port.                               *)
(*                                                                         *)
(* The NAT is environment: it gives the node's port an address outside,    *)
(* which may become another one, and lets packets in as its kind says -    *)
(* depending on what the node has sent, until the NAT forgets that.        *)
(***************************************************************************)
EXTENDS Naturals

CONSTANTS
    Outside, \* addresses the NAT may give to the node's port
    None     \* no verdict yet

\* From the most open kind to the least.
Kinds == <<"FullCone", "RestrictedCone", "PortRestrictedCone", "Symmetric">>
NatKind == {Kinds[i] : i \in 1..4}
Rank(kind) == CHOOSE i \in 1..4 : Kinds[i] = kind

Verdict == [type : NatKind, address : Outside]

ASSUMPTION NatConstants == None \notin Verdict

VARIABLES
    nat,     \* the kind of the NAT
    outside, \* the address it gives to what goes to the server
    opened,  \* it remembers a packet of the node to the changed address
    test,    \* the test check() waits for, "none" between checks
    mapped1, \* the address the server saw in the first test
    verdict, \* ref: the last result
    trouble  \* since this check began an answer was lost or the address changed

natVars == <<nat, outside, opened, test, mapped1, verdict, trouble>>

NatInit ==
    /\ nat \in NatKind
    /\ outside \in Outside
    /\ opened = FALSE
    /\ test = "none"
    /\ mapped1 \in Outside
    /\ verdict = None
    /\ trouble = FALSE

-----------------------------------------------------------------------------
\* Which of the server's answers the NAT lets in.  A symmetric NAT has sent
\* to the changed address from another port.
ChangedGetsIn ==
    \/ nat = "FullCone"
    \/ nat \in {"RestrictedCone", "PortRestrictedCone"} /\ opened

OtherPortGetsIn == nat \in {"FullCone", "RestrictedCone"}

\* check() returns, run() keeps it.
Result(type) ==
    /\ verdict' = [type |-> type, address |-> mapped1]
    /\ test' = "none"

Check ==
    /\ test = "none"
    /\ test' = "bind"
    /\ trouble' = FALSE
    /\ UNCHANGED <<nat, outside, opened, mapped1, verdict>>

\* sendBind(remote): the answer, or the exception that ends the check.
Bind ==
    /\ test = "bind"
    /\ mapped1' = outside
    /\ test' = "both"
    /\ UNCHANGED <<nat, outside, opened, verdict, trouble>>

BindFails ==
    /\ test = "bind"
    /\ test' = "none"
    /\ trouble' = TRUE
    /\ UNCHANGED <<nat, outside, opened, mapped1, verdict>>

\* testChangeBind(remote, true, true)
BothHeard ==
    /\ test = "both" /\ ChangedGetsIn
    /\ Result("FullCone")
    /\ UNCHANGED <<nat, outside, opened, mapped1, trouble>>

\* Mutant: the second test is left out.
BothSilentLast ==
    /\ test = "both"
    /\ test' = "changed"
    /\ trouble' = (trouble \/ ChangedGetsIn)
    /\ UNCHANGED <<nat, outside, opened, mapped1, verdict>>

BothSilent ==
    /\ test = "both"
    /\ test' = "port"
    /\ trouble' = (trouble \/ ChangedGetsIn)
    /\ UNCHANGED <<nat, outside, opened, mapped1, verdict>>

\* testChangeBind(remote, false, true)
PortHeard ==
    /\ test = "port" /\ OtherPortGetsIn
    /\ Result("RestrictedCone")
    /\ UNCHANGED <<nat, outside, opened, mapped1, trouble>>

PortSilent ==
    /\ test = "port"
    /\ test' = "changed"
    /\ opened' = TRUE
    /\ trouble' = (trouble \/ OtherPortGetsIn)
    /\ UNCHANGED <<nat, outside, mapped1, verdict>>

\* Mutant: the two addresses are not compared.
ChangedHeardAny ==
    /\ test = "changed"
    /\ Result("PortRestrictedCone")
    /\ UNCHANGED <<nat, outside, opened, mapped1, trouble>>

\* sendBind(changedAddress): the address the changed server saw, or none.
ChangedHeard ==
    /\ test = "changed"
    /\ IF nat # "Symmetric" /\ outside = mapped1
       THEN Result("PortRestrictedCone") ELSE Result("Symmetric")
    /\ UNCHANGED <<nat, outside, opened, mapped1, trouble>>

\* Mutant: the address of the result is not the one the server saw.
Unmapped ==
    /\ test = "changed"
    /\ verdict' = [type |-> "Symmetric", address |-> None]
    /\ test' = "none"
    /\ trouble' = TRUE
    /\ UNCHANGED <<nat, outside, opened, mapped1>>

ChangedSilent ==
    /\ test = "changed"
    /\ Result("Symmetric")
    /\ trouble' = TRUE
    /\ UNCHANGED <<nat, outside, opened, mapped1>>

-----------------------------------------------------------------------------
\* The NAT gives the port another address.
Remap ==
    /\ \E a \in Outside \ {outside} : outside' = a
    /\ opened' = FALSE
    /\ trouble' = TRUE
    /\ UNCHANGED <<nat, test, mapped1, verdict>>

\* It forgets what the node has sent to the changed address.
Forget ==
    /\ opened
    /\ opened' = FALSE
    /\ UNCHANGED <<nat, outside, test, mapped1, verdict, trouble>>

NatNext ==
    \/ Check \/ Bind \/ BindFails
    \/ BothHeard \/ BothSilent
    \/ PortHeard \/ PortSilent
    \/ ChangedHeard \/ ChangedSilent
    \/ Remap \/ Forget

NatSpec == NatInit /\ [][NatNext]_natVars

-----------------------------------------------------------------------------
\* Every variable has its type.
NatTypeOK ==
    /\ nat \in NatKind /\ outside \in Outside /\ mapped1 \in Outside
    /\ opened \in BOOLEAN /\ trouble \in BOOLEAN
    /\ test \in {"none", "bind", "both", "port", "changed"}
    /\ verdict \in Verdict \cup {None}

\* A restricted NAT that remembers the bind to the changed address lets the
\* first test of the next check in: the one error check() makes by itself.
OwnOpening ==
    nat \in {"RestrictedCone", "PortRestrictedCone"} /\ verdict.type = "FullCone"

\* However many answers are lost, and whatever the NAT does meanwhile, a node
\* does not take its NAT for a more open one but by its own opening (check()).
NeverTooOpen ==
    verdict # None => Rank(verdict.type) >= Rank(nat) \/ OwnOpening

\* A check without trouble finds the NAT as it is, but for its own opening, and
\* where the node is seen.
UntroubledExact ==
    test = "none" /\ ~trouble /\ verdict # None =>
        /\ verdict.type = nat \/ OwnOpening
        /\ verdict.address = outside
=============================================================================
