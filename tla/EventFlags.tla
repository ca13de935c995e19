----------------------------- MODULE EventFlags -----------------------------
(***************************************************************************)
(* The event flags of VCOS, vcos_generic_event_flags.c, on the threads and *)
(* timers of vcos_pthreads.c: what the recorder's loop waits on and the    *)
(* port callbacks set.                                                     *)
(*                                                                         *)
(* A get that has to wait puts a block on its stack into the flags' list   *)
(* and sleeps on its thread's semaphore; a timed one sets its thread's     *)
(* timer first, while it holds the flags' lock.  A set wakes the waiters   *)
(* it satisfies.  The timer's thread runs the expiration routine under the *)
(* timer's lock, and the routine takes the flags' lock: the two locks are  *)
(* taken in both orders.                                                   *)
(*                                                                         *)
(* What runs under one lock without taking the other is one step.          *)
(***************************************************************************)
EXTENDS Naturals

CONSTANTS Threads,   \* each has a semaphore and a timer of its own
          Events,
          Requests,  \* what gets may ask for
          Sets,      \* what sets may do: records of bits and op, "OR" or "AND"
          Nobody

ASSUME FlagsAssumption ==
    /\ Nobody \notin Threads
    /\ Requests \subseteq [mask : SUBSET Events, all : BOOLEAN, consume : BOOLEAN,
                           wait : {"no", "timed", "forever"}]
    /\ Sets \subseteq [bits : SUBSET Events, op : {"OR", "AND"}]
    /\ Requests # {}

VARIABLES
    events,      \* flags->events
    waiters,     \* flags->waiters: threads with a block in the list; a set walks all of
                 \* it under the lock, so its order tells nothing apart
    lock,        \* who holds flags->lock between two steps
    request, success, actual,   \* a thread's block: what it wants, return_status, actual_events
    suspend,     \* the semaphore a thread sleeps on
    armed,       \* its timer's expires is set
    routine,     \* orig_task_timer_expiration_routine is set
    timer,       \* where its timer's thread is: "idle", "remove", "post", "finish"; it
                 \* holds the timer's lock unless idle
    pc           \* where a get is: "out", "arm", "sleep", "cancel", "clear", "done"

blockVars == <<request, success, actual>>
timerVars == <<armed, routine, timer>>
vars      == <<events, waiters, lock, blockVars, suspend, timerVars, pc>>

Init == /\ events = {} /\ waiters = {} /\ lock = Nobody
        /\ request = [t \in Threads |-> CHOOSE r \in Requests : TRUE]
        /\ success = [t \in Threads |-> FALSE] /\ actual = [t \in Threads |-> {}]
        /\ suspend = [t \in Threads |-> 0]
        /\ armed = [t \in Threads |-> FALSE] /\ routine = [t \in Threads |-> FALSE]
        /\ timer = [t \in Threads |-> "idle"]
        /\ pc = [t \in Threads |-> "out"]

Goes(t, from, to) == pc[t] = from /\ pc' = [pc EXCEPT ![t] = to]
Unlocked          == lock = Nobody

Satisfied(r, e) == IF r.all THEN r.mask \subseteq e ELSE r.mask \cap e # {}
Consumed(r)     == IF r.consume THEN r.mask ELSE {}

\* a get fills in its block
Block(t, r, ok, e) == /\ request' = [request EXCEPT ![t] = r]
                      /\ success' = [success EXCEPT ![t] = ok]
                      /\ actual' = [actual EXCEPT ![t] = e]

-----------------------------------------------------------------------------
(* Faulty variants, not part of Next.                                      *)

\* cancels the timer without waiting for a routine that runs
CancelAtOnce(t) == /\ Goes(t, "cancel", "clear")
                   /\ armed' = [armed EXCEPT ![t] = FALSE]
                   /\ UNCHANGED <<events, waiters, lock, blockVars, suspend, routine, timer>>

\* posts whether the block was still in the list or not
RemoveAndPost(t) == /\ Unlocked
                    /\ timer[t] = "remove"
                    /\ waiters' = waiters \ {t}
                    /\ timer' = [timer EXCEPT ![t] = "post"]
                    /\ UNCHANGED <<events, lock, blockVars, suspend, armed, routine, pc>>

\* consumes while it walks: a later waiter no longer sees what an earlier one took
SetInTurn(s) ==
    /\ Unlocked
    /\ LET e     == IF s.op = "OR" THEN events \union s.bits ELSE events \cap s.bits
           woken == {t \in waiters : Satisfied(request[t], e)}
       IN  \E first \in SUBSET woken :
             /\ IF woken = {} THEN first = {} ELSE \E t \in woken : first = {t}
             /\ waiters' = waiters \ first
             /\ success' = [t \in Threads |-> success[t] \/ t \in first]
             /\ actual' = [t \in Threads |-> IF t \in first THEN e ELSE actual[t]]
             /\ suspend' = [t \in Threads |-> IF t \in first THEN suspend[t] + 1 ELSE suspend[t]]
             /\ events' = e \ UNION {Consumed(request[t]) : t \in first}
    /\ UNCHANGED <<lock, request, timerVars, pc>>

-----------------------------------------------------------------------------
(* vcos_generic_event_flags_get                                            *)

GetNow(t, r) == /\ Unlocked
                /\ Satisfied(r, events)
                /\ Goes(t, "out", "done")
                /\ Block(t, r, TRUE, events)
                /\ events' = events \ Consumed(r)
                /\ UNCHANGED <<waiters, lock, suspend, timerVars>>

GetMisses(t, r) == /\ Unlocked
                   /\ ~Satisfied(r, events) /\ r.wait = "no"
                   /\ Goes(t, "out", "done")
                   /\ Block(t, r, FALSE, {})
                   /\ UNCHANGED <<events, waiters, lock, suspend, timerVars>>

\* join the list; without a timeout the thread is about to sleep
GetWaits(t, r) == /\ Unlocked
                  /\ ~Satisfied(r, events) /\ r.wait = "forever"
                  /\ Goes(t, "out", "sleep")
                  /\ Block(t, r, FALSE, {})
                  /\ waiters' = waiters \union {t}
                  /\ UNCHANGED <<events, lock, suspend, timerVars>>

\* with one it still needs its timer, under the lock
GetWaitsTimed(t, r) == /\ Unlocked
                       /\ ~Satisfied(r, events) /\ r.wait = "timed"
                       /\ Goes(t, "out", "arm")
                       /\ Block(t, r, FALSE, {})
                       /\ waiters' = waiters \union {t}
                       /\ lock' = t
                       /\ UNCHANGED <<events, suspend, timerVars>>

\* _vcos_task_timer_set takes the timer's lock; then the flags' lock is released
Arm(t) == /\ Goes(t, "arm", "sleep")
          /\ timer[t] = "idle"
          /\ armed' = [armed EXCEPT ![t] = TRUE]
          /\ routine' = [routine EXCEPT ![t] = TRUE]
          /\ lock' = Nobody
          /\ UNCHANGED <<events, waiters, blockVars, suspend, timer>>

Wake(t) == /\ Goes(t, "sleep", IF request[t].wait = "timed" THEN "cancel" ELSE "done")
           /\ suspend[t] > 0
           /\ suspend' = [suspend EXCEPT ![t] = @ - 1]
           /\ UNCHANGED <<events, waiters, lock, blockVars, timerVars>>

\* _vcos_task_timer_cancel, not under the flags' lock: it waits for a routine
\* that runs and stops the timer; then it takes the routine back
Cancel(t) == /\ Goes(t, "cancel", "clear")
             /\ timer[t] = "idle"
             /\ armed' = [armed EXCEPT ![t] = FALSE]
             /\ UNCHANGED <<events, waiters, lock, blockVars, suspend, routine, timer>>

ClearRoutine(t) == /\ Goes(t, "clear", "done")
                   /\ routine' = [routine EXCEPT ![t] = FALSE]
                   /\ UNCHANGED <<events, waiters, lock, blockVars, suspend, armed, timer>>

Return(t) == /\ Goes(t, "done", "out")
             /\ UNCHANGED <<events, waiters, lock, blockVars, suspend, timerVars>>

Get(t) == \/ \E r \in Requests : GetNow(t, r) \/ GetMisses(t, r) \/ GetWaits(t, r) \/ GetWaitsTimed(t, r)
          \/ Arm(t) \/ Wake(t) \/ Cancel(t) \/ ClearRoutine(t) \/ Return(t)
-----------------------------------------------------------------------------
(* vcos_generic_event_flags_set: every waiter it satisfies sees the same   *)
(* events, whatever the others consume                                     *)

Set(s) ==
    /\ Unlocked
    /\ LET e     == IF s.op = "OR" THEN events \union s.bits ELSE events \cap s.bits
           woken == {t \in waiters : Satisfied(request[t], e)}
       IN  /\ waiters' = waiters \ woken
           /\ success' = [t \in Threads |-> success[t] \/ t \in woken]
           /\ actual' = [t \in Threads |-> IF t \in woken THEN e ELSE actual[t]]
           /\ suspend' = [t \in Threads |-> IF t \in woken THEN suspend[t] + 1 ELSE suspend[t]]
           /\ events' = e \ UNION {Consumed(request[t]) : t \in woken}
    /\ UNCHANGED <<lock, request, timerVars, pc>>
-----------------------------------------------------------------------------
(* The timer of a thread: _timer_thread, which runs                        *)
(* event_flags_timer_expired under the timer's lock                        *)

Expire(t) == /\ timer[t] = "idle" /\ armed[t]
             /\ armed' = [armed EXCEPT ![t] = FALSE]
             /\ timer' = [timer EXCEPT ![t] = "remove"]
             /\ UNCHANGED <<events, waiters, lock, blockVars, suspend, routine, pc>>

\* take the block out of the list; it may have been woken already
RemoveBlock(t) ==
             /\ Unlocked
             /\ timer[t] = "remove"
             /\ waiters' = waiters \ {t}
             /\ timer' = [timer EXCEPT ![t] = IF t \in waiters THEN "post" ELSE "finish"]
             /\ UNCHANGED <<events, lock, blockVars, suspend, armed, routine, pc>>

Post(t) == /\ timer[t] = "post"
           /\ suspend' = [suspend EXCEPT ![t] = @ + 1]
           /\ timer' = [timer EXCEPT ![t] = "finish"]
           /\ UNCHANGED <<events, waiters, lock, blockVars, armed, routine, pc>>

Finish(t) == /\ timer[t] = "finish"
             /\ routine' = [routine EXCEPT ![t] = FALSE]
             /\ timer' = [timer EXCEPT ![t] = "idle"]
             /\ UNCHANGED <<events, waiters, lock, blockVars, suspend, armed, pc>>

Timer(t) == Expire(t) \/ RemoveBlock(t) \/ Post(t) \/ Finish(t)

Next == \/ \E t \in Threads : Get(t) \/ Timer(t)
        \/ \E s \in Sets : Set(s)

Spec == Init /\ [][Next]_vars

(* Threads run and time passes.  The flags' lock is free again and again,  *)
(* if not all the time, while a routine waits for it: a mutex is granted   *)
(* in the end.  Nobody has to call get or set.                             *)
FairSpec == /\ Spec
            /\ \A t \in Threads :
                 /\ WF_vars(Arm(t) \/ Wake(t) \/ Cancel(t) \/ ClearRoutine(t) \/ Return(t))
                 /\ WF_vars(Expire(t) \/ Post(t) \/ Finish(t))
                 /\ SF_vars(RemoveBlock(t))

-----------------------------------------------------------------------------
(* Properties                                                              *)

TypeOK == /\ events \subseteq Events /\ waiters \subseteq Threads /\ lock \in Threads \union {Nobody}
          /\ request \in [Threads -> Requests] /\ success \in [Threads -> BOOLEAN]
          /\ actual \in [Threads -> SUBSET Events]
          /\ suspend \in [Threads -> Nat]
          /\ armed \in [Threads -> BOOLEAN] /\ routine \in [Threads -> BOOLEAN]
          /\ timer \in [Threads -> {"idle", "remove", "post", "finish"}]
          /\ pc \in [Threads -> {"out", "arm", "sleep", "cancel", "clear", "done"}]

(* A thread's semaphore is posted exactly once for each sleep, by the set  *)
(* or by the timer but never by both, and is 0 when the next get begins;   *)
(* its timer is armed, or its routine runs, only on behalf of the get that *)
(* armed it: a late expiration never touches a block of a later get, which *)
(* lies at the same address of the stack.                                  *)
NoStaleWakeup == \A t \in Threads :
    /\ t \in waiters => pc[t] \in {"arm", "sleep"} /\ timer[t] \notin {"post", "finish"}
    /\ suspend[t] = IF pc[t] = "sleep" /\ t \notin waiters /\ timer[t] # "post" THEN 1 ELSE 0
    /\ armed[t] => pc[t] \in {"sleep", "cancel"} /\ routine[t]
    /\ timer[t] # "idle" => pc[t] \in {"sleep", "cancel"} /\ ~armed[t] /\ routine[t]
    /\ timer[t] = "post" => pc[t] = "sleep"
    /\ pc[t] = "arm" => ~routine[t]

\* refinement: a get waits while its block is in the list
phase == [t \in Threads |-> IF pc[t] = "out" THEN "out" ELSE IF t \in waiters THEN "waiting" ELSE "done"]

Abstract == INSTANCE EventGroup WITH bits <- actual

(* Locks, list, semaphores and timers implement the event group, and every *)
(* get that is satisfied or has a timeout returns: the two locks, taken in *)
(* both orders, never block each other.                                    *)
ImplementsEventGroup == Abstract!FairSpec
=============================================================================
