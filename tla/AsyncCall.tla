------------------------------- MODULE AsyncCall -------------------------------
(***************************************************************************)
(* AsyncTask: requests whose answers come back by their id.  The caller    *)
(* puts a future in futureMap, starts its timer and sends the request.     *)
(* The loop that receives the answer and the timer's thread each take the  *)
(* future out of the map, which only one of them can, and complete it.     *)
(*                                                                         *)
(* Requests and answers may be lost, repeated or late (StunClient speaks   *)
(* UDP; over the control channel they are lost with the connection).  Ids  *)
(* are random: an id stands for another one once nothing is left of it.    *)
(***************************************************************************)
EXTENDS Naturals

CONSTANTS
    Call,       \* ids in use at a time (a bound)
    MaxAnswers  \* answers of one call on their way (a bound)

ASSUMPTION CallConstants == MaxAnswers \in Nat

VARIABLES
    at,         \* how far the caller is: "idle", "put", "armed" or "sent"
    futureMap,  \* AsyncTask.futureMap: ids that have a future there
    future,     \* the call's CompletableFuture
    timer,      \* calls whose timeout is to come
    taken,      \* who has removed the future and not completed it yet
    requests,   \* requests on their way
    answers,    \* number of answers on their way
    served      \* calls the other side has acted on

callVars == <<at, futureMap, future, timer, taken, requests, answers, served>>

CallInit ==
    /\ at = [c \in Call |-> "idle"]
    /\ futureMap = {}
    /\ future = [c \in Call |-> "none"]
    /\ timer = {}
    /\ taken = [c \in Call |-> "no"]
    /\ requests = {}
    /\ answers = [c \in Call |-> 0]
    /\ served = {}

-----------------------------------------------------------------------------
\* waitTask: futureMap.put
Wait(c) ==
    /\ at[c] = "idle"
    /\ at' = [at EXCEPT ![c] = "put"]
    /\ futureMap' = futureMap \cup {c}
    /\ future' = [future EXCEPT ![c] = "pending"]
    /\ UNCHANGED <<timer, taken, requests, answers, served>>

\* waitTask: TIMEOUT.newTimeout
Arm(c) ==
    /\ at[c] = "put"
    /\ at' = [at EXCEPT ![c] = "armed"]
    /\ timer' = timer \cup {c}
    /\ UNCHANGED <<futureMap, future, taken, requests, answers, served>>

\* writeAndFlush, after waitTask; what is lost is lost here.
Send(c) ==
    /\ at[c] = "armed"
    /\ at' = [at EXCEPT ![c] = "sent"]
    /\ requests' = requests \cup {c}
    /\ UNCHANGED <<futureMap, future, timer, taken, answers, served>>

SendLost(c) ==
    /\ at[c] = "armed"
    /\ at' = [at EXCEPT ![c] = "sent"]
    /\ UNCHANGED <<futureMap, future, timer, taken, requests, answers, served>>

\* The other side acts on the request and answers.
Act(c) ==
    /\ c \in requests
    /\ answers' = [answers EXCEPT ![c] = IF @ < MaxAnswers THEN @ + 1 ELSE @]
    /\ served' = served \cup {c}
    /\ UNCHANGED <<at, futureMap, future, timer, taken>>

Serve(c) == Act(c) /\ requests' = requests \ {c}

\* The network has another copy of the request.
ServeCopy(c) == Act(c) /\ UNCHANGED requests

LoseAnswer(c) ==
    /\ answers[c] > 0
    /\ answers' = [answers EXCEPT ![c] = @ - 1]
    /\ UNCHANGED <<at, futureMap, future, timer, taken, requests, served>>

\* futureMap.remove by whoever comes.
Remove(c, who) ==
    /\ futureMap' = futureMap \ {c}
    /\ taken' = IF c \in futureMap THEN [taken EXCEPT ![c] = who] ELSE taken

\* Mutant: an answer leaves the future in the map.
TakeKeeps(c) ==
    /\ answers[c] > 0
    /\ answers' = [answers EXCEPT ![c] = @ - 1]
    /\ taken' = IF c \in futureMap THEN [taken EXCEPT ![c] = "loop"] ELSE taken
    /\ UNCHANGED <<at, futureMap, future, timer, requests, served>>

\* Mutant: an answer is for whoever waits.
TakeAny(c) ==
    /\ \E d \in Call :
        /\ answers[d] > 0
        /\ answers' = [answers EXCEPT ![d] = @ - 1]
    /\ Remove(c, "loop")
    /\ UNCHANGED <<at, future, timer, requests, served>>

\* Mutant: an answer is handled twice.
TakeTwice(c) ==
    /\ answers[c] > 0
    /\ answers' = [answers EXCEPT ![c] = @ - 2]
    /\ Remove(c, "loop")
    /\ UNCHANGED <<at, future, timer, requests, served>>

\* completeTask: the answer's loop removes the future.
Take(c) ==
    /\ answers[c] > 0
    /\ answers' = [answers EXCEPT ![c] = @ - 1]
    /\ Remove(c, "loop")
    /\ UNCHANGED <<at, future, timer, requests, served>>

\* FutureTask.complete: the timer is cancelled, the caller has its answer.
Complete(c) ==
    /\ taken[c] = "loop"
    /\ timer' = timer \ {c}
    /\ future' = [future EXCEPT ![c] = IF @ = "pending" THEN "answer" ELSE @]
    /\ taken' = [taken EXCEPT ![c] = "no"]
    /\ UNCHANGED <<at, futureMap, requests, answers, served>>

\* Mutant: the timer's task finds no future.
FireKeeps(c) ==
    /\ c \in timer
    /\ timer' = timer \ {c}
    /\ UNCHANGED <<at, futureMap, future, taken, requests, answers, served>>

\* completeExceptionallyTask: the timer's thread removes the future.
Fire(c) ==
    /\ c \in timer
    /\ timer' = timer \ {c}
    /\ Remove(c, "timer")
    /\ UNCHANGED <<at, future, requests, answers, served>>

Expire(c) ==
    /\ taken[c] = "timer"
    /\ future' = [future EXCEPT ![c] = IF @ = "pending" THEN "timeout" ELSE @]
    /\ taken' = [taken EXCEPT ![c] = "no"]
    /\ UNCHANGED <<at, futureMap, timer, requests, answers, served>>

\* Nothing is left of the call.
Over(c) ==
    /\ at[c] = "sent" /\ future[c] # "pending"
    /\ taken[c] = "no" /\ c \notin timer /\ c \notin requests /\ answers[c] = 0

Renew(c) ==
    /\ Over(c)
    /\ at' = [at EXCEPT ![c] = "idle"]
    /\ future' = [future EXCEPT ![c] = "none"]
    /\ served' = served \ {c}
    /\ UNCHANGED <<futureMap, timer, taken, requests, answers>>

-----------------------------------------------------------------------------
CallNext ==
    \E c \in Call :
        \/ Wait(c) \/ Arm(c) \/ Send(c) \/ SendLost(c) \/ Renew(c)
        \/ Serve(c) \/ ServeCopy(c) \/ LoseAnswer(c)
        \/ Take(c) \/ Complete(c) \/ Fire(c) \/ Expire(c)

CallSpec == CallInit /\ [][CallNext]_callVars

CallTypeOK ==
    /\ at \in [Call -> {"idle", "put", "armed", "sent"}]
    /\ futureMap \in SUBSET Call
    /\ future \in [Call -> {"none", "pending", "answer", "timeout"}]
    /\ timer \in SUBSET Call
    /\ taken \in [Call -> {"no", "loop", "timer"}]
    /\ requests \in SUBSET Call
    /\ answers \in [Call -> Nat]
    /\ served \in SUBSET Call

\* Nothing is left behind: a future in the map is pending and its timer is to
\* come or about to be started, so the map does not grow with the answers that
\* are lost (waitTask, completeTask, completeExceptionallyTask).
MapDrains ==
    \A c \in futureMap :
        /\ future[c] = "pending"
        /\ c \in timer \/ at[c] = "put"

\* The calls seen as calls that have one end.
Calls == INSTANCE OneAnswer WITH outcome <- future

\* A call ends once, in an answer only if the other side has acted on it.
OneEnd == Calls!Spec
=============================================================================
