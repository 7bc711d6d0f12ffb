---------------------------- MODULE AsyncCallProofs ----------------------------
(***************************************************************************)
(* AsyncCall implements OneAnswer, and its map drains, for any calls.      *)
(***************************************************************************)
EXTENDS AsyncCall, TLAPS

\* Whoever has taken a future is the only one who has it, and it is pending.
\* An answer comes from a request that was acted on.
Held ==
    \A c \in Call :
        /\ at[c] = "idle" <=> future[c] = "none"
        /\ taken[c] # "no" => future[c] = "pending" /\ c \notin futureMap
        /\ taken[c] = "loop" \/ answers[c] > 0 => c \in served
        /\ at[c] = "idle" => c \notin futureMap
        /\ c \in requests => at[c] = "sent"

\* A pending future is in the map or in someone's hands.
MapNeeded ==
    \A c \in futureMap : future[c] = "pending" /\ (c \in timer \/ at[c] = "put")

CallIInv == CallTypeOK /\ Held /\ MapNeeded

USE CallConstants

LEMMA CallInitIInv == CallInit => CallIInv
BY DEF CallInit, CallIInv, CallTypeOK, Held, MapNeeded

\* Every step of a call keeps the invariant.
LEMMA CallStep ==
    ASSUME CallIInv, NEW c \in Call,
           \/ Wait(c) \/ Arm(c) \/ Send(c) \/ SendLost(c) \/ Renew(c)
           \/ Serve(c) \/ ServeCopy(c) \/ LoseAnswer(c)
           \/ Take(c) \/ Complete(c) \/ Fire(c) \/ Expire(c)
    PROVE  CallIInv'
<1> USE DEF CallIInv, CallTypeOK, Held, MapNeeded
<1>1. CASE Wait(c)
  BY <1>1 DEF Wait
<1>2. CASE Arm(c)
  BY <1>2 DEF Arm
<1>3. CASE Send(c)
  BY <1>3 DEF Send
<1>4. CASE SendLost(c)
  BY <1>4 DEF SendLost
<1>5. CASE Renew(c)
  BY <1>5 DEF Renew, Over
<1>6. CASE Serve(c)
  BY <1>6 DEF Serve, Act
<1>7. CASE ServeCopy(c)
  BY <1>7 DEF ServeCopy, Act
<1>8. CASE LoseAnswer(c)
  BY <1>8 DEF LoseAnswer
<1>9. CASE Take(c)
  BY <1>9 DEF Take, Remove
<1>10. CASE Complete(c)
  BY <1>10 DEF Complete
<1>11. CASE Fire(c)
  BY <1>11 DEF Fire, Remove
<1>12. CASE Expire(c)
  BY <1>12 DEF Expire
<1>13. QED
  BY <1>1, <1>2, <1>3, <1>4, <1>5, <1>6, <1>7, <1>8, <1>9, <1>10, <1>11, <1>12

\* Nothing of the invariant depends on anything but the calls.
LEMMA CallStutter == CallIInv /\ UNCHANGED callVars => CallIInv'
BY DEF callVars, CallIInv, CallTypeOK, Held, MapNeeded

LEMMA CallInvariance == CallSpec => []CallIInv
<1>1. CallIInv /\ [CallNext]_callVars => CallIInv'
  BY CallStep, CallStutter DEF CallNext
<1>2. QED
  BY <1>1, CallInitIInv, PTL DEF CallSpec

\* Every step is a step of one call that ends once, or none of it.
LEMMA CallStepMaps == CallIInv /\ [CallNext]_callVars => [Calls!Next]_(Calls!vars)
<1> SUFFICES ASSUME CallIInv, [CallNext]_callVars
             PROVE  Calls!Next \/ UNCHANGED <<future, served>>
  BY DEF Calls!vars
<1> USE DEF CallIInv, CallTypeOK, Held, MapNeeded
<1>1. CASE UNCHANGED callVars
  BY <1>1 DEF callVars
<1>2. ASSUME NEW c \in Call,
             \/ Arm(c) \/ Send(c) \/ SendLost(c) \/ LoseAnswer(c) \/ Take(c) \/ Fire(c)
      PROVE  UNCHANGED <<future, served>>
  BY <1>2 DEF Arm, Send, SendLost, LoseAnswer, Take, Fire
<1>3. ASSUME NEW c \in Call, Wait(c)
      PROVE  Calls!Ask(c)
  BY <1>3 DEF Wait, Calls!Ask
<1>4. ASSUME NEW c \in Call, Serve(c) \/ ServeCopy(c)
      PROVE  Calls!Act(c)
  BY <1>4 DEF Serve, ServeCopy, Act, Calls!Act
<1>5. ASSUME NEW c \in Call, Complete(c)
      PROVE  Calls!Succeed(c)
  BY <1>5 DEF Complete, Calls!Succeed
<1>6. ASSUME NEW c \in Call, Expire(c)
      PROVE  Calls!GiveUp(c)
  BY <1>6 DEF Expire, Calls!GiveUp
<1>7. ASSUME NEW c \in Call, Renew(c)
      PROVE  Calls!Renew(c)
  BY <1>7 DEF Renew, Over, Calls!Renew
<1>8. QED
  BY <1>1, <1>2, <1>3, <1>4, <1>5, <1>6, <1>7 DEF CallNext, Calls!Next

-----------------------------------------------------------------------------
\* The map of futures keeps nothing that is over, whatever is lost or late.
THEOREM CallsDrain == CallSpec => []MapDrains
<1>1. CallIInv => MapDrains
  BY DEF CallIInv, MapNeeded, MapDrains
<1>2. QED
  BY <1>1, CallInvariance, PTL

\* Answers, timeouts and repeated answers in any order give each call one end.
THEOREM CallsEndOnce == CallSpec => OneEnd
<1>1. CallInit => Calls!Init
  BY DEF CallInit, Calls!Init
<1>2. QED
  BY <1>1, CallStepMaps, CallInvariance, PTL DEF CallSpec, OneEnd, Calls!Spec
=============================================================================
