----------------------------- MODULE MCRouteConfig -----------------------------
(***************************************************************************)
(* Small instances of RouteConfig.                                         *)
(***************************************************************************)
EXTENDS RouteConfig, TLC

\* Ids, addresses and threads are interchangeable.
Alike ==
    Permutations(Node) \cup Permutations(Route) \cup Permutations(Http)
        \cup Permutations(Vip)

\* Bound: one session at a time is between the queries of its answer.  Two of
\* them would only read.
OneAnswer == Cardinality({n \in Node : boot[n] \in {"mesh", "reply"}}) <= 1
=============================================================================
