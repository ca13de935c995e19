-------------------------- MODULE EventFlags_proofs --------------------------
(***************************************************************************)
(* A late expiration never reaches a later get, and locks, list and        *)
(* semaphores implement the event group: for any threads, events, requests *)
(* and sets.                                                               *)
(***************************************************************************)
EXTENDS EventFlags, TLAPS

(* What NoStaleWakeup needs besides: a get arms its timer while its block  *)
(* is in the list and it keeps the lock, and only a get with a timeout has *)
(* a routine, from then on until it has cancelled the timer.               *)
ArmInv == \A t \in Threads :
            /\ pc[t] = "arm" => lock = t /\ t \in waiters /\ request[t].wait = "timed"
            /\ routine[t] => pc[t] \in {"sleep", "cancel", "clear"} /\ request[t].wait = "timed"

FlagsInv == TypeOK /\ ArmInv /\ NoStaleWakeup

\* Nobody waits at first.
LEMMA FlagsInit == Init => FlagsInv
<1> SUFFICES ASSUME Init PROVE FlagsInv
    OBVIOUS
<1>1. (CHOOSE r \in Requests : TRUE) \in Requests
      BY FlagsAssumption
<1>2. request \in [Threads -> Requests]
      BY <1>1 DEF Init
<1>3. TypeOK
      BY <1>2 DEF Init, TypeOK
<1> QED
    BY <1>3 DEF Init, FlagsInv, ArmInv, NoStaleWakeup

\* Every step keeps the types.
LEMMA TypeStep == TypeOK /\ [Next]_vars => TypeOK'
<1> SUFFICES ASSUME TypeOK, [Next]_vars PROVE TypeOK'
    OBVIOUS
<1> USE FlagsAssumption DEF TypeOK, Goes, blockVars, timerVars
<1>1. ASSUME NEW t \in Threads, NEW r \in Requests, GetNow(t, r) PROVE TypeOK'
      BY <1>1 DEF GetNow, Block
<1>2. ASSUME NEW t \in Threads, NEW r \in Requests, GetMisses(t, r) PROVE TypeOK'
      BY <1>2 DEF GetMisses, Block
<1>3. ASSUME NEW t \in Threads, NEW r \in Requests, GetWaits(t, r) PROVE TypeOK'
      BY <1>3 DEF GetWaits, Block
<1>4. ASSUME NEW t \in Threads, NEW r \in Requests, GetWaitsTimed(t, r) PROVE TypeOK'
      BY <1>4 DEF GetWaitsTimed, Block
<1>5. ASSUME NEW t \in Threads, Arm(t) PROVE TypeOK'
      BY <1>5 DEF Arm
<1>6. ASSUME NEW t \in Threads, Wake(t) PROVE TypeOK'
      BY <1>6 DEF Wake
<1>7. ASSUME NEW t \in Threads, Cancel(t) PROVE TypeOK'
      BY <1>7 DEF Cancel
<1>8. ASSUME NEW t \in Threads, ClearRoutine(t) PROVE TypeOK'
      BY <1>8 DEF ClearRoutine
<1>9. ASSUME NEW t \in Threads, Return(t) PROVE TypeOK'
      BY <1>9 DEF Return
<1>10. ASSUME NEW s \in Sets, Set(s) PROVE TypeOK'
      BY <1>10 DEF Set
<1>11. ASSUME NEW t \in Threads, Expire(t) PROVE TypeOK'
      BY <1>11 DEF Expire
<1>12. ASSUME NEW t \in Threads, RemoveBlock(t) PROVE TypeOK'
      BY <1>12 DEF RemoveBlock
<1>13. ASSUME NEW t \in Threads, Post(t) PROVE TypeOK'
      BY <1>13 DEF Post
<1>14. ASSUME NEW t \in Threads, Finish(t) PROVE TypeOK'
      BY <1>14 DEF Finish
<1>15. CASE UNCHANGED vars
      BY <1>15 DEF vars, blockVars, timerVars
<1> QED
    BY <1>1, <1>2, <1>3, <1>4, <1>5, <1>6, <1>7, <1>8, <1>9, <1>10, <1>11, <1>12, <1>13, <1>14, <1>15 DEF Next, Get, Timer

\* Every step keeps the arming of timers in order.
LEMMA ArmStep == FlagsInv /\ [Next]_vars => ArmInv'
<1> SUFFICES ASSUME FlagsInv, [Next]_vars PROVE ArmInv'
    OBVIOUS
<1> USE FlagsAssumption DEF FlagsInv, TypeOK, ArmInv, NoStaleWakeup, Goes, Unlocked, blockVars, timerVars
<1>1. ASSUME NEW t \in Threads, NEW r \in Requests, GetNow(t, r) PROVE ArmInv'
      BY <1>1 DEF GetNow, Block
<1>2. ASSUME NEW t \in Threads, NEW r \in Requests, GetMisses(t, r) PROVE ArmInv'
      BY <1>2 DEF GetMisses, Block
<1>3. ASSUME NEW t \in Threads, NEW r \in Requests, GetWaits(t, r) PROVE ArmInv'
      BY <1>3 DEF GetWaits, Block
<1>4. ASSUME NEW t \in Threads, NEW r \in Requests, GetWaitsTimed(t, r) PROVE ArmInv'
      BY <1>4 DEF GetWaitsTimed, Block
<1>5. ASSUME NEW t \in Threads, Arm(t) PROVE ArmInv'
      BY <1>5 DEF Arm
<1>6. ASSUME NEW t \in Threads, Wake(t) PROVE ArmInv'
      BY <1>6 DEF Wake
<1>7. ASSUME NEW t \in Threads, Cancel(t) PROVE ArmInv'
      BY <1>7 DEF Cancel
<1>8. ASSUME NEW t \in Threads, ClearRoutine(t) PROVE ArmInv'
      BY <1>8 DEF ClearRoutine
<1>9. ASSUME NEW t \in Threads, Return(t) PROVE ArmInv'
      BY <1>9 DEF Return
<1>10. ASSUME NEW s \in Sets, Set(s) PROVE ArmInv'
      BY <1>10 DEF Set
<1>11. ASSUME NEW t \in Threads, Expire(t) PROVE ArmInv'
      BY <1>11 DEF Expire
<1>12. ASSUME NEW t \in Threads, RemoveBlock(t) PROVE ArmInv'
      BY <1>12 DEF RemoveBlock
<1>13. ASSUME NEW t \in Threads, Post(t) PROVE ArmInv'
      BY <1>13 DEF Post
<1>14. ASSUME NEW t \in Threads, Finish(t) PROVE ArmInv'
      BY <1>14 DEF Finish
<1>15. CASE UNCHANGED vars
      BY <1>15 DEF vars, blockVars, timerVars
<1> QED
    BY <1>1, <1>2, <1>3, <1>4, <1>5, <1>6, <1>7, <1>8, <1>9, <1>10, <1>11, <1>12, <1>13, <1>14, <1>15 DEF Next, Get, Timer

\* Every step posts a sleeper once at most and leaves other gets alone.
LEMMA WakeupStep == FlagsInv /\ [Next]_vars => NoStaleWakeup'
<1> SUFFICES ASSUME FlagsInv, [Next]_vars PROVE NoStaleWakeup'
    OBVIOUS
<1> USE FlagsAssumption DEF FlagsInv, TypeOK, ArmInv, NoStaleWakeup, Goes, Unlocked, blockVars, timerVars
<1>1. ASSUME NEW t \in Threads, NEW r \in Requests, GetNow(t, r) PROVE NoStaleWakeup'
      BY <1>1 DEF GetNow, Block
<1>2. ASSUME NEW t \in Threads, NEW r \in Requests, GetMisses(t, r) PROVE NoStaleWakeup'
      BY <1>2 DEF GetMisses, Block
<1>3. ASSUME NEW t \in Threads, NEW r \in Requests, GetWaits(t, r) PROVE NoStaleWakeup'
      BY <1>3 DEF GetWaits, Block
<1>4. ASSUME NEW t \in Threads, NEW r \in Requests, GetWaitsTimed(t, r) PROVE NoStaleWakeup'
      BY <1>4 DEF GetWaitsTimed, Block
<1>5. ASSUME NEW t \in Threads, Arm(t) PROVE NoStaleWakeup'
      BY <1>5 DEF Arm
<1>6. ASSUME NEW t \in Threads, Wake(t) PROVE NoStaleWakeup'
      BY <1>6 DEF Wake
<1>7. ASSUME NEW t \in Threads, Cancel(t) PROVE NoStaleWakeup'
      BY <1>7 DEF Cancel
<1>8. ASSUME NEW t \in Threads, ClearRoutine(t) PROVE NoStaleWakeup'
      BY <1>8 DEF ClearRoutine
<1>9. ASSUME NEW t \in Threads, Return(t) PROVE NoStaleWakeup'
      BY <1>9 DEF Return
<1>10. ASSUME NEW s \in Sets, Set(s) PROVE NoStaleWakeup'
      BY <1>10 DEF Set
<1>11. ASSUME NEW t \in Threads, Expire(t) PROVE NoStaleWakeup'
      BY <1>11 DEF Expire
<1>12. ASSUME NEW t \in Threads, RemoveBlock(t) PROVE NoStaleWakeup'
      BY <1>12 DEF RemoveBlock
<1>13. ASSUME NEW t \in Threads, Post(t) PROVE NoStaleWakeup'
      BY <1>13 DEF Post
<1>14. ASSUME NEW t \in Threads, Finish(t) PROVE NoStaleWakeup'
      BY <1>14 DEF Finish
<1>15. CASE UNCHANGED vars
      BY <1>15 DEF vars, blockVars, timerVars
<1> QED
    BY <1>1, <1>2, <1>3, <1>4, <1>5, <1>6, <1>7, <1>8, <1>9, <1>10, <1>11, <1>12, <1>13, <1>14, <1>15 DEF Next, Get, Timer

\* Each sleep ends with one post, and a timer is armed only for the get that waits.
THEOREM NoWakeupIsStale == Spec => []NoStaleWakeup
<1>1. FlagsInv /\ [Next]_vars => FlagsInv'
      BY TypeStep, ArmStep, WakeupStep DEF FlagsInv
<1>2. FlagsInv => NoStaleWakeup
      BY DEF FlagsInv
<1> QED
    BY <1>1, <1>2, FlagsInit, PTL DEF Spec

\* The flags are well typed.
THEOREM TypeCorrect == Spec => []TypeOK
<1>1. FlagsInv /\ [Next]_vars => FlagsInv'
      BY TypeStep, ArmStep, WakeupStep DEF FlagsInv
<1>2. FlagsInv => TypeOK
      BY DEF FlagsInv
<1> QED
    BY <1>1, <1>2, FlagsInit, PTL DEF Spec

-----------------------------------------------------------------------------
(* Refinement                                                              *)

\* The first state is a first state of the event group.
LEMMA GroupInit == Init => Abstract!Init
<1> SUFFICES ASSUME Init PROVE Abstract!Init
    OBVIOUS
<1>1. (CHOOSE r \in Requests : TRUE) \in Abstract!Request
      BY FlagsAssumption DEF Abstract!Request
<1>2. request \in [Threads -> Abstract!Request]
      BY <1>1 DEF Init
<1> QED
    BY <1>2 DEF Init, Abstract!Init, phase

\* A step that keeps the group's variables is a stutter of the group.
LEMMA GroupStutter ==
  ASSUME UNCHANGED <<events, request, success, actual>>, phase' = phase
  PROVE  UNCHANGED Abstract!vars
  BY DEF Abstract!vars

\* Every step is a step of the event group or a stutter.
LEMMA GroupStep == FlagsInv /\ FlagsInv' /\ [Next]_vars => [Abstract!Next]_(Abstract!vars)
<1> SUFFICES ASSUME FlagsInv, FlagsInv', [Next]_vars PROVE Abstract!Next \/ UNCHANGED Abstract!vars
    OBVIOUS
<1>0. Requests \subseteq Abstract!Request
      BY FlagsAssumption DEF Abstract!Request
<1>t. /\ waiters \subseteq Threads /\ pc \in [Threads -> {"out", "arm", "sleep", "cancel", "clear", "done"}]
      /\ \A t \in Threads : t \in waiters => pc[t] \in {"arm", "sleep"}
      /\ request \in [Threads -> Requests] /\ events \subseteq Events
      BY DEF FlagsInv, TypeOK, NoStaleWakeup
<1> USE <1>0, <1>t DEF Goes, Abstract!Next, Abstract!Starts, phase, Satisfied, Consumed, Abstract!Satisfied, Abstract!Consumed, blockVars, timerVars
<1>1. ASSUME NEW t \in Threads, NEW r \in Requests, GetNow(t, r) PROVE Abstract!Next \/ UNCHANGED Abstract!vars
      BY <1>1, FlagsAssumption DEF GetNow, Block, Abstract!Now
<1>2. ASSUME NEW t \in Threads, NEW r \in Requests, GetMisses(t, r) PROVE Abstract!Next \/ UNCHANGED Abstract!vars
      BY <1>2 DEF GetMisses, Block, Abstract!Miss
<1>3. ASSUME NEW t \in Threads, NEW r \in Requests, GetWaits(t, r) PROVE Abstract!Next \/ UNCHANGED Abstract!vars
      BY <1>3 DEF GetWaits, Block, Abstract!Wait
<1>4. ASSUME NEW t \in Threads, NEW r \in Requests, GetWaitsTimed(t, r) PROVE Abstract!Next \/ UNCHANGED Abstract!vars
      BY <1>4 DEF GetWaitsTimed, Block, Abstract!Wait
<1>5. ASSUME NEW t \in Threads, Arm(t) PROVE Abstract!Next \/ UNCHANGED Abstract!vars
      BY <1>5, GroupStutter DEF Arm
<1>6. ASSUME NEW t \in Threads, Wake(t) PROVE Abstract!Next \/ UNCHANGED Abstract!vars
      BY <1>6, GroupStutter DEF Wake
<1>7. ASSUME NEW t \in Threads, Cancel(t) PROVE Abstract!Next \/ UNCHANGED Abstract!vars
      BY <1>7, GroupStutter DEF Cancel
<1>8. ASSUME NEW t \in Threads, ClearRoutine(t) PROVE Abstract!Next \/ UNCHANGED Abstract!vars
      BY <1>8, GroupStutter DEF ClearRoutine
<1>9. ASSUME NEW t \in Threads, Return(t) PROVE Abstract!Next \/ UNCHANGED Abstract!vars
      BY <1>9 DEF Return, Abstract!Return
<1>10. ASSUME NEW s \in Sets, Set(s) PROVE Abstract!Next \/ UNCHANGED Abstract!vars
  <2>1. PICK e \in SUBSET Events : e = IF s.op = "OR" THEN events \union s.bits ELSE events \cap s.bits
        BY FlagsAssumption
  <2> DEFINE woken == {t \in waiters : Satisfied(request[t], e)}
  <2>2. woken = {t \in Threads : phase[t] = "waiting" /\ Abstract!Satisfied(request[t], e)}
        OBVIOUS
  <2>3. phase' = [t \in Threads |-> IF t \in woken THEN "done" ELSE phase[t]]
        BY <1>10, <2>1 DEF Set
  <2>4. Abstract!Set(e)
        BY <1>10, <2>1, <2>2, <2>3, ZenonT(60) DEF Set, Abstract!Set
  <2> QED
      BY <2>4 DEF Abstract!Next
<1>11. ASSUME NEW t \in Threads, Expire(t) PROVE Abstract!Next \/ UNCHANGED Abstract!vars
      BY <1>11, GroupStutter DEF Expire
<1>12. ASSUME NEW t \in Threads, RemoveBlock(t) PROVE Abstract!Next \/ UNCHANGED Abstract!vars
  <2>1. CASE t \in waiters
    <3>1. request[t].wait = "timed"
          BY <1>12 DEF RemoveBlock, FlagsInv, ArmInv, NoStaleWakeup
    <3>2. Abstract!TimeOut(t)
          BY <1>12, <2>1, <3>1 DEF RemoveBlock, Abstract!TimeOut
    <3> QED
        BY <3>2
  <2>2. CASE t \notin waiters
        BY <1>12, <2>2, GroupStutter DEF RemoveBlock
  <2> QED
      BY <2>1, <2>2
<1>13. ASSUME NEW t \in Threads, Post(t) PROVE Abstract!Next \/ UNCHANGED Abstract!vars
      BY <1>13, GroupStutter DEF Post
<1>14. ASSUME NEW t \in Threads, Finish(t) PROVE Abstract!Next \/ UNCHANGED Abstract!vars
      BY <1>14, GroupStutter DEF Finish
<1>15. CASE UNCHANGED vars
      BY <1>15, GroupStutter DEF vars, blockVars, timerVars
<1> QED
    BY <1>1, <1>2, <1>3, <1>4, <1>5, <1>6, <1>7, <1>8, <1>9, <1>10, <1>11, <1>12, <1>13, <1>14, <1>15 DEF Next, Get, Timer

\* The flags implement the event group's safety: a get returns the events that
\* satisfied it, whatever other waiters consume, or nothing when its time is up.
THEOREM FlagsImplementGroup == Spec => Abstract!Spec
<1>1. FlagsInv /\ [Next]_vars => FlagsInv'
      BY TypeStep, ArmStep, WakeupStep DEF FlagsInv
<1> QED
    BY <1>1, FlagsInit, GroupInit, GroupStep, PTL DEF Spec, Abstract!Spec
=============================================================================
