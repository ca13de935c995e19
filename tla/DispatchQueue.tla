---------------------------- MODULE DispatchQueue ----------------------------
(***************************************************************************)
(* The thread pool of src/src/dispatchqueue.cpp: callers push operations   *)
(* under lockMutex, release it and only then notify; worker threads wait   *)
(* on the condition variable; the destructor sets quit, notifies all and   *)
(* joins the threads.                                                      *)
(*                                                                         *)
(* A critical section (lock .. unlock, or the part of a worker's loop that *)
(* owns the lock) is one step.  Everything done without the lock - a       *)
(* caller's notify_one, the destructor's notify_all, an operation's body,  *)
(* each join - is a step of its own.                                       *)
(***************************************************************************)
EXTENDS Naturals, Sequences, FiniteSets

CONSTANTS ThreadCount,   \* size of the pool, the constructor's threadCount
          Callers,       \* threads that call dispatch and removePending
          Ops,           \* operations; each is dispatched at most once
          NoOp           \* "no operation"

ASSUME PoolAssumption == /\ ThreadCount \in Nat
                         /\ IsFiniteSet(Callers)
                         /\ NoOp \notin Ops

Workers == 1..ThreadCount

VARIABLES queue,        \* operations waiting to be started
          quit,         \* set by the destructor
          worker,       \* where each worker is: "ready" (has, or is about to take, the lock), "waiting", "running", "done"
          current,      \* the operation a running worker executes
          notifying,    \* callers between unlock and notify_one
          dtor,         \* "alive", "notify" (quit set, notify_all owed), "joining", "destroyed"
          joined,       \* threads the destructor has joined
          dispatched    \* operations handed to dispatch so far

vars == <<queue, quit, worker, current, notifying, dtor, joined, dispatched>>

Waiting == {w \in Workers : worker[w] = "waiting"}
Ready   == {w \in Workers : worker[w] = "ready"}
Running == {w \in Workers : worker[w] = "running"}

Init == /\ queue = <<>>
        /\ quit = FALSE
        /\ worker = [w \in Workers |-> "ready"]
        /\ current = [w \in Workers |-> NoOp]
        /\ notifying = {}
        /\ dtor = "alive"
        /\ joined = 0
        /\ dispatched = {}

-----------------------------------------------------------------------------
(* Faulty variants.  Not part of Next: each is an operation below with a   *)
(* plausible bug, kept to show that a property notices it.                 *)

\* notifies only when the queue was empty
DispatchNotifiesWhenEmpty(c, op) == /\ dtor # "destroyed" /\ c \notin notifying /\ op \notin dispatched
                                    /\ queue' = Append(queue, op)
                                    /\ dispatched' = dispatched \union {op}
                                    /\ notifying' = IF queue = <<>> THEN notifying \union {c} ELSE notifying
                                    /\ UNCHANGED <<quit, worker, current, dtor, joined>>

\* the wait predicate forgets quit
SleepIgnoringQuit(w) == /\ worker[w] = "ready" /\ queue = <<>>
                        /\ worker' = [worker EXCEPT ![w] = "waiting"]
                        /\ UNCHANGED <<queue, quit, current, notifying, dtor, joined, dispatched>>

\* runs queue.front() and pops only later
TakeWithoutPop(w) == /\ worker[w] = "ready" /\ ~quit /\ queue # <<>>
                     /\ current' = [current EXCEPT ![w] = Head(queue)]
                     /\ worker' = [worker EXCEPT ![w] = "running"]
                     /\ UNCHANGED <<queue, quit, notifying, dtor, joined, dispatched>>

\* wakes one worker instead of all
NotifyAllWakesOne == /\ dtor = "notify"
                     /\ \/ Waiting = {} /\ UNCHANGED worker
                        \/ \E w \in Waiting : worker' = [worker EXCEPT ![w] = "ready"]
                     /\ dtor' = "joining"
                     /\ UNCHANGED <<queue, quit, current, notifying, joined, dispatched>>

\* i <= size
JoinOnePast == /\ dtor = "joining" /\ joined <= ThreadCount
               /\ joined < ThreadCount => worker[joined + 1] = "done"
               /\ joined' = joined + 1
               /\ UNCHANGED <<queue, quit, worker, current, notifying, dtor, dispatched>>

-----------------------------------------------------------------------------
(* Callers.  Members live until the destructor's body has returned.        *)

Dispatch(c, op) == /\ dtor # "destroyed"
                   /\ c \notin notifying
                   /\ op \notin dispatched
                   /\ queue' = Append(queue, op)
                   /\ dispatched' = dispatched \union {op}
                   /\ notifying' = notifying \union {c}
                   /\ UNCHANGED <<quit, worker, current, dtor, joined>>

NotifyOne(c) == /\ c \in notifying
                /\ notifying' = notifying \ {c}
                /\ \/ Waiting = {} /\ UNCHANGED worker
                   \/ \E w \in Waiting : worker' = [worker EXCEPT ![w] = "ready"]
                /\ UNCHANGED <<queue, quit, current, dtor, joined, dispatched>>

RemovePending(c) == /\ dtor # "destroyed"
                    /\ c \notin notifying
                    /\ queue' = <<>>
                    /\ UNCHANGED <<quit, worker, current, notifying, dtor, joined, dispatched>>

-----------------------------------------------------------------------------
(* dispatchThreadHandler, from taking the lock to giving it up.            *)

\* the wait predicate is false: the worker releases the lock and sleeps
Sleep(w) == /\ worker[w] = "ready"
            /\ queue = <<>> /\ ~quit
            /\ worker' = [worker EXCEPT ![w] = "waiting"]
            /\ UNCHANGED <<queue, quit, current, notifying, dtor, joined, dispatched>>

Take(w) == /\ worker[w] = "ready"
           /\ ~quit /\ queue # <<>>
           /\ current' = [current EXCEPT ![w] = Head(queue)]
           /\ queue' = Tail(queue)
           /\ worker' = [worker EXCEPT ![w] = "running"]
           /\ UNCHANGED <<quit, notifying, dtor, joined, dispatched>>

\* op() returns; what follows needs the lock again
Return(w) == /\ worker[w] = "running"
             /\ worker' = [worker EXCEPT ![w] = "ready"]
             /\ current' = [current EXCEPT ![w] = NoOp]
             /\ UNCHANGED <<queue, quit, notifying, dtor, joined, dispatched>>

Exit(w) == /\ worker[w] = "ready"
           /\ quit
           /\ worker' = [worker EXCEPT ![w] = "done"]
           /\ UNCHANGED <<queue, quit, current, notifying, dtor, joined, dispatched>>

\* condition_variable::wait may return without a notification
SpuriousWake(w) == /\ worker[w] = "waiting"
                   /\ worker' = [worker EXCEPT ![w] = "ready"]
                   /\ UNCHANGED <<queue, quit, current, notifying, dtor, joined, dispatched>>

-----------------------------------------------------------------------------
(* ~DispatchQueue                                                          *)

SetQuit == /\ dtor = "alive"
           /\ quit' = TRUE
           /\ dtor' = "notify"
           /\ UNCHANGED <<queue, worker, current, notifying, joined, dispatched>>

NotifyAll == /\ dtor = "notify"
             /\ worker' = [w \in Workers |-> IF w \in Waiting THEN "ready" ELSE worker[w]]
             /\ dtor' = "joining"
             /\ UNCHANGED <<queue, quit, current, notifying, joined, dispatched>>

Join == /\ dtor = "joining"
        /\ joined < ThreadCount
        /\ worker[joined + 1] = "done"
        /\ joined' = joined + 1
        /\ UNCHANGED <<queue, quit, worker, current, notifying, dtor, dispatched>>

\* the members go; the language requires that no call is still inside them
Destroy == /\ dtor = "joining"
           /\ joined = ThreadCount
           /\ notifying = {}
           /\ dtor' = "destroyed"
           /\ UNCHANGED <<queue, quit, worker, current, notifying, joined, dispatched>>

\* nothing is left to do; any other state without a successor is a deadlock
Gone == dtor = "destroyed" /\ UNCHANGED vars

-----------------------------------------------------------------------------

CallerStep(c) == \/ \E op \in Ops : Dispatch(c, op)
                 \/ NotifyOne(c)
                 \/ RemovePending(c)

LockedStep(w) == Sleep(w) \/ Take(w) \/ Exit(w)

WorkerStep(w) == LockedStep(w) \/ Return(w) \/ SpuriousWake(w)

DtorStep == SetQuit \/ NotifyAll \/ Join \/ Destroy

Next == \/ \E c \in Callers : CallerStep(c)
        \/ \E w \in Workers : WorkerStep(w)
        \/ DtorStep
        \/ Gone

Spec == Init /\ [][Next]_vars

(* Threads that can run do run, and get the mutex in the end; a destructor *)
(* that was entered goes on.  Nobody has to dispatch or to destroy.        *)
Fairness == /\ \A w \in Workers : WF_vars(LockedStep(w))
            /\ \A c \in Callers : WF_vars(NotifyOne(c))
            /\ WF_vars(NotifyAll \/ Join \/ Destroy)

OpsTerminate == \A w \in Workers : WF_vars(Return(w))

FairSpec == Spec /\ Fairness

-----------------------------------------------------------------------------
(* Properties                                                              *)

TypeOK == /\ queue \in Seq(Ops)
          /\ quit \in BOOLEAN
          /\ worker \in [Workers -> {"ready", "waiting", "running", "done"}]
          /\ current \in [Workers -> Ops \union {NoOp}]
          /\ notifying \subseteq Callers
          /\ dtor \in {"alive", "notify", "joining", "destroyed"}
          /\ joined \in 0..ThreadCount
          /\ dispatched \subseteq Ops

(* While the pool is open, as long as some worker sleeps there are at      *)
(* least as many wake-ups under way (workers on their way to the lock, or  *)
(* callers about to notify) as operations queued: no notification that was *)
(* sent between unlock and wait is lost.                                   *)
WakeupsCoverQueue == ~quit /\ Waiting # {}
                        => Len(queue) <= Cardinality(Ready) + Cardinality(notifying)

(* Once the destructor has notified, nobody goes back to sleep: a worker   *)
(* asleep during the joins would block the destructor for ever.            *)
NoSleeperDuringJoin == dtor \in {"joining", "destroyed"} => Waiting = {}

(* Joined threads have left dispatchThreadHandler for good, and when the   *)
(* members are destroyed no thread at all can still touch them.            *)
JoinedAreDone == /\ \A w \in 1..joined : worker[w] = "done"
                 /\ dtor = "destroyed" => \A w \in Workers : worker[w] = "done"

(* An operation is in one place only: queued once, or executed by one      *)
(* worker - it is never both queued and running, nor run by two threads.   *)
InOnePlace == /\ \A i, j \in 1..Len(queue) : i # j => queue[i] # queue[j]
              /\ \A w \in Running : \A i \in 1..Len(queue) : queue[i] # current[w]
              /\ \A v, w \in Running : v # w => current[v] # current[w]

(* The destructor comes to its end once it was entered, if operations      *)
(* terminate.                                                              *)
DtorReturns == OpsTerminate => (quit ~> dtor = "destroyed")

(* The pool is a task executor.                                            *)
Executor == INSTANCE TaskExecutor
              WITH Tasks   <- Ops,
                   Width   <- ThreadCount,
                   pending <- queue,
                   running <- {current[w] : w \in Running},
                   closed  <- quit

ImplementsExecutor == Executor!FairSpec
=============================================================================
