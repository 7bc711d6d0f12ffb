----------------------------- MODULE MCAddresses -----------------------------
(***************************************************************************)
(* Small instances of NatMapping and CidrMath, which have nothing to do    *)
(* with each other: the CIDR is given, the checks of the NAT go on.        *)
(***************************************************************************)
EXTENDS NatMapping, CidrMath

Init == NatInit /\ CidrInit
Next == NatNext /\ UNCHANGED cidr
Spec == Init /\ [][Next]_<<natVars, cidr>>
=============================================================================
