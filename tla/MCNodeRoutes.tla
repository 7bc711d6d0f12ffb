------------------------------ MODULE MCNodeRoutes ------------------------------
(***************************************************************************)
(* Small instances of NodeRoutes.                                          *)
(***************************************************************************)
EXTENDS NodeRoutes

CONSTANTS dA, dB, dLan, other, me

\* Two destinations behind another node, one of them also reached by this one,
\* and the local network of this node.
Rules ==
    {[dest |-> dA, nexthop |-> other], [dest |-> dA, nexthop |-> me],
     [dest |-> dB, nexthop |-> other], [dest |-> dLan, nexthop |-> me]}

\* None, one route or another of another node, or one's own.
FewLists == {{}} \cup {{r} : r \in Rules}

\* And several routes: all of them, a destination both nodes reach, and a route
\* of each node.
MixedLists ==
    FewLists \cup {Rules} \cup
    {{[dest |-> dA, nexthop |-> h] : h \in {other, me}},
     {[dest |-> dB, nexthop |-> other], [dest |-> dLan, nexthop |-> me]}}

\* What a push that meets a boot breaks: the node works with an old list, or
\* routes stay in the system when it releases them (not checked by a run).
EverCurrent == Current
EverClean == [][Clean]_vars
=============================================================================
