--------------------------- MODULE NatMappingProofs ---------------------------
(***************************************************************************)
(* What MappingManager's check can and cannot take a NAT for, whatever     *)
(* answers are lost and however many addresses the NAT gives out.          *)
(***************************************************************************)
EXTENDS NatMapping, TLAPS

\* The kinds are four, in their order.
LEMMA Ranks ==
    /\ NatKind = {"FullCone", "RestrictedCone", "PortRestrictedCone", "Symmetric"}
    /\ Rank("FullCone") = 1 /\ Rank("RestrictedCone") = 2
    /\ Rank("PortRestrictedCone") = 3 /\ Rank("Symmetric") = 4
<1>1. /\ Kinds[1] = "FullCone" /\ Kinds[2] = "RestrictedCone"
      /\ Kinds[3] = "PortRestrictedCone" /\ Kinds[4] = "Symmetric"
  BY DEF Kinds
<1>2. 1..4 = {1, 2, 3, 4}
  OBVIOUS
<1>3. NatKind = {"FullCone", "RestrictedCone", "PortRestrictedCone", "Symmetric"}
  BY <1>1, <1>2 DEF NatKind
<1>4. ASSUME NEW i \in 1..4 PROVE Rank(Kinds[i]) = i
  BY <1>1, <1>2 DEF Rank
<1> QED
  BY <1>1, <1>3, <1>4

-----------------------------------------------------------------------------
(***************************************************************************)
(* The invariant.  A check that is under way without trouble has measured  *)
(* the address the NAT still gives, and each test that stayed silent rules *)
(* out the kinds that would have let its answer in.                        *)
(***************************************************************************)

RuledOut ==
    test # "none" /\ ~trouble =>
        /\ test \in {"both", "port", "changed"} => mapped1 = outside
        /\ test \in {"port", "changed"} => nat # "FullCone"
        /\ test = "changed" => nat # "RestrictedCone"

IInv == NatTypeOK /\ NeverTooOpen /\ UntroubledExact /\ RuledOut

\* Every variable keeps its type.
THEOREM NatTypeCorrect == NatSpec => []NatTypeOK
<1> USE DEF NatTypeOK
<1>1. NatInit => NatTypeOK
  BY DEF NatInit
<1>2. NatTypeOK /\ [NatNext]_natVars => NatTypeOK'
  <2> SUFFICES ASSUME NatTypeOK, [NatNext]_natVars PROVE NatTypeOK'
    OBVIOUS
  <2>0. ASSUME NEW type \in NatKind, Result(type) PROVE verdict' \in Verdict /\ test' = "none"
    BY <2>0 DEF Result, Verdict
  <2> USE DEF natVars
  <2>1. CASE Check \/ Bind \/ BindFails \/ BothSilent \/ PortSilent
    BY <2>1 DEF Check, Bind, BindFails, BothSilent, PortSilent,
                ChangedGetsIn, OtherPortGetsIn
  <2>2. CASE BothHeard \/ PortHeard \/ ChangedHeard \/ ChangedSilent
    <3>1. verdict' \in Verdict /\ test' = "none"
      BY <2>2, <2>0, Ranks DEF BothHeard, PortHeard, ChangedHeard, ChangedSilent
    <3> QED
      BY <2>2, <3>1 DEF BothHeard, PortHeard, ChangedHeard, ChangedSilent
  <2>3. CASE Remap \/ Forget
    BY <2>3 DEF Remap, Forget
  <2>4. CASE UNCHANGED natVars
    BY <2>4
  <2> QED
    BY <2>1, <2>2, <2>3, <2>4 DEF NatNext
<1> QED
  BY <1>1, <1>2, PTL DEF NatSpec

LEMMA Initially == NatInit => IInv
  BY DEF NatInit, IInv, NatTypeOK, NeverTooOpen, UntroubledExact, RuledOut

LEMMA Inductive == IInv /\ NatTypeOK' /\ [NatNext]_natVars => IInv'
<1> SUFFICES ASSUME IInv, NatTypeOK', [NatNext]_natVars
             PROVE NeverTooOpen' /\ UntroubledExact' /\ RuledOut'
  BY DEF IInv
<1> USE NatConstants DEF IInv, NatTypeOK, NeverTooOpen, UntroubledExact,
        OwnOpening, RuledOut
\* A test begins, or stays silent: the verdict is the last check's.
<1>1. CASE Check \/ Bind \/ BindFails
  BY <1>1 DEF Check, Bind, BindFails
<1>2. CASE BothSilent
  BY <1>2, Ranks DEF BothSilent, ChangedGetsIn
<1>3. CASE PortSilent
  BY <1>3, Ranks DEF PortSilent, OtherPortGetsIn
\* An answer gets in: the kind is one that lets it in.
<1>4. ASSUME NEW type \in NatKind, Result(type)
      PROVE verdict' # None /\ verdict'.type = type /\ verdict'.address = mapped1
            /\ test' = "none"
  BY <1>4 DEF Result, Verdict
<1>5. CASE BothHeard
  <2>1. verdict'.type = "FullCone" /\ verdict'.address = mapped1 /\ test' = "none"
    BY <1>4, <1>5, Ranks DEF BothHeard
  <2> QED
    BY <1>5, <2>1, Ranks DEF BothHeard, ChangedGetsIn
<1>6. CASE PortHeard
  <2>1. verdict'.type = "RestrictedCone" /\ verdict'.address = mapped1 /\ test' = "none"
    BY <1>4, <1>6, Ranks DEF PortHeard
  <2> QED
    BY <1>6, <2>1, Ranks DEF PortHeard, OtherPortGetsIn
<1>7. CASE ChangedHeard
  <2>1. CASE nat # "Symmetric" /\ outside = mapped1
    <3>1. /\ verdict'.type = "PortRestrictedCone" /\ verdict'.address = mapped1
          /\ test' = "none"
      BY <1>4, <1>7, <2>1, Ranks DEF ChangedHeard
    <3> QED
      BY <1>7, <2>1, <3>1, Ranks DEF ChangedHeard
  <2>2. CASE ~(nat # "Symmetric" /\ outside = mapped1)
    <3>1. /\ verdict'.type = "Symmetric" /\ verdict'.address = mapped1
          /\ test' = "none"
      BY <1>4, <1>7, <2>2, Ranks DEF ChangedHeard
    <3> QED
      BY <1>7, <2>2, <3>1, Ranks DEF ChangedHeard
  <2> QED
    BY <2>1, <2>2
<1>8. CASE ChangedSilent
  <2>1. verdict'.type = "Symmetric" /\ test' = "none"
    BY <1>4, <1>8, Ranks DEF ChangedSilent
  <2> QED
    BY <1>8, <2>1, Ranks DEF ChangedSilent
<1>9. CASE Remap \/ Forget
  BY <1>9 DEF Remap, Forget
<1>10. CASE UNCHANGED natVars
  BY <1>10 DEF natVars, ChangedGetsIn, OtherPortGetsIn
<1> QED
  BY <1>1, <1>2, <1>3, <1>5, <1>6, <1>7, <1>8, <1>9, <1>10 DEF NatNext

LEMMA Invariance == NatSpec => []IInv
  BY Initially, Inductive, NatTypeCorrect, PTL DEF NatSpec

\* Whatever answers are lost, a NAT is not taken for a more open one but by the
\* node's own opening (MappingManager.check).
THEOREM NotTooOpen == NatSpec => []NeverTooOpen
<1>1. IInv => NeverTooOpen
  BY DEF IInv
<1> QED
  BY <1>1, Invariance, PTL

\* A check without trouble finds the NAT's kind, but for that opening, and the
\* node's address outside.
THEOREM ExactWithoutTrouble == NatSpec => []UntroubledExact
<1>1. IInv => UntroubledExact
  BY DEF IInv
<1> QED
  BY <1>1, Invariance, PTL
=============================================================================
