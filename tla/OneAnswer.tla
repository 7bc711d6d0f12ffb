------------------------------- MODULE OneAnswer -------------------------------
(***************************************************************************)
(* What a caller of AsyncTask may count on: a call that is waited for ends *)
(* once, with an answer if the other side has acted on it, or with a       *)
(* timeout - whether the other side has acted on it or not.                *)
(***************************************************************************)
CONSTANT Call

VARIABLES outcome, served

vars == <<outcome, served>>

Init == outcome = [c \in Call |-> "none"] /\ served = {}

Ask(c) ==
    /\ outcome[c] = "none"
    /\ outcome' = [outcome EXCEPT ![c] = "pending"]
    /\ UNCHANGED served

Act(c) ==
    /\ outcome[c] # "none"
    /\ served' = served \cup {c}
    /\ UNCHANGED outcome

Succeed(c) ==
    /\ outcome[c] = "pending" /\ c \in served
    /\ outcome' = [outcome EXCEPT ![c] = "answer"]
    /\ UNCHANGED served

GiveUp(c) ==
    /\ outcome[c] = "pending"
    /\ outcome' = [outcome EXCEPT ![c] = "timeout"]
    /\ UNCHANGED served

\* The id is out of use; it stands for the next one.
Renew(c) ==
    /\ outcome[c] \in {"answer", "timeout"}
    /\ outcome' = [outcome EXCEPT ![c] = "none"]
    /\ served' = served \ {c}

Next == \E c \in Call : Ask(c) \/ Act(c) \/ Succeed(c) \/ GiveUp(c) \/ Renew(c)

Spec == Init /\ [][Next]_vars
=============================================================================
