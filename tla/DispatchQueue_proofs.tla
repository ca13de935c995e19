------------------------ MODULE DispatchQueue_proofs ------------------------
(***************************************************************************)
(* Proofs about DispatchQueue for every pool size, set of callers and set  *)
(* of operations.                                                          *)
(***************************************************************************)
EXTENDS DispatchQueue, FiniteSetTheorems, SequenceTheorems, TLAPS

-----------------------------------------------------------------------------
(* Type correctness                                                        *)

\* The constructor leaves every variable with its type.
LEMMA TypeInit == Init => TypeOK
<1> SUFFICES ASSUME Init PROVE TypeOK
    OBVIOUS
<1>1. queue \in Seq(Ops)
      BY EmptySeq DEF Init
<1>2. joined \in 0..ThreadCount
      BY PoolAssumption DEF Init
<1> QED
    BY <1>1, <1>2 DEF Init, TypeOK

\* No step of a worker or of a client of the pool breaks a type.
LEMMA TypeStep == TypeOK /\ [Next]_vars => TypeOK'
<1> SUFFICES ASSUME TypeOK, [Next]_vars PROVE TypeOK'
    OBVIOUS
<1> USE PoolAssumption DEF TypeOK, Workers
<1>1. ASSUME NEW c \in Callers, NEW op \in Ops, Dispatch(c, op) PROVE TypeOK'
      BY <1>1, AppendProperties DEF Dispatch
<1>2. ASSUME NEW c \in Callers, NotifyOne(c) PROVE TypeOK'
      BY <1>2 DEF NotifyOne, Waiting
<1>3. ASSUME NEW c \in Callers, RemovePending(c) PROVE TypeOK'
      BY <1>3 DEF RemovePending
<1>4. ASSUME NEW w \in Workers, Sleep(w) PROVE TypeOK'
      BY <1>4 DEF Sleep
<1>5. ASSUME NEW w \in Workers, Take(w) PROVE TypeOK'
      BY <1>5, HeadTailProperties DEF Take
<1>6. ASSUME NEW w \in Workers, Return(w) PROVE TypeOK'
      BY <1>6 DEF Return
<1>7. ASSUME NEW w \in Workers, Exit(w) PROVE TypeOK'
      BY <1>7 DEF Exit
<1>8. ASSUME NEW w \in Workers, SpuriousWake(w) PROVE TypeOK'
      BY <1>8 DEF SpuriousWake
<1>9. CASE SetQuit
      BY <1>9 DEF SetQuit
<1>10. CASE NotifyAll
      BY <1>10 DEF NotifyAll, Waiting
<1>11. CASE Join
      BY <1>11 DEF Join
<1>12. CASE Destroy
      BY <1>12 DEF Destroy
<1>13. CASE UNCHANGED vars
      BY <1>13 DEF vars
<1> QED
    BY <1>1, <1>2, <1>3, <1>4, <1>5, <1>6, <1>7, <1>8, <1>9, <1>10, <1>11, <1>12, <1>13
    DEF Next, CallerStep, WorkerStep, LockedStep, DtorStep, Gone

(* Every variable keeps its type, whatever the size of the pool.           *)
THEOREM TypeCorrect == Spec => []TypeOK
  BY TypeInit, TypeStep, PTL DEF Spec

-----------------------------------------------------------------------------
(* Shutdown                                                                *)

(* Inductive: quit says exactly that the destructor was entered, and the   *)
(* members are destroyed only after the last join.                         *)
ShutdownInv == /\ TypeOK
               /\ quit <=> dtor # "alive"
               /\ NoSleeperDuringJoin
               /\ \A w \in 1..joined : worker[w] = "done"
               /\ dtor = "destroyed" => joined = ThreadCount

\* The shutdown invariant holds when the pool has just been built.
LEMMA ShutdownInit == Init => ShutdownInv
  BY TypeInit DEF Init, ShutdownInv, NoSleeperDuringJoin

\* Every step preserves it: after quit is set, no thread goes to sleep.
LEMMA ShutdownStep == ShutdownInv /\ [Next]_vars => ShutdownInv'
<1> SUFFICES ASSUME ShutdownInv, [Next]_vars PROVE ShutdownInv'
    OBVIOUS
<1>0. TypeOK'
      BY TypeStep DEF ShutdownInv
<1> USE <1>0, PoolAssumption DEF ShutdownInv, TypeOK, Workers, NoSleeperDuringJoin, Waiting
<1>1. ASSUME NEW c \in Callers, NEW op \in Ops, Dispatch(c, op) PROVE ShutdownInv'
      BY <1>1 DEF Dispatch
<1>2. ASSUME NEW c \in Callers, NotifyOne(c) PROVE ShutdownInv'
      BY <1>2 DEF NotifyOne
<1>3. ASSUME NEW c \in Callers, RemovePending(c) PROVE ShutdownInv'
      BY <1>3 DEF RemovePending
<1>4. ASSUME NEW w \in Workers, Sleep(w) PROVE ShutdownInv'
      BY <1>4 DEF Sleep
<1>5. ASSUME NEW w \in Workers, Take(w) PROVE ShutdownInv'
      BY <1>5 DEF Take
<1>6. ASSUME NEW w \in Workers, Return(w) PROVE ShutdownInv'
      BY <1>6 DEF Return
<1>7. ASSUME NEW w \in Workers, Exit(w) PROVE ShutdownInv'
      BY <1>7 DEF Exit
<1>8. ASSUME NEW w \in Workers, SpuriousWake(w) PROVE ShutdownInv'
      BY <1>8 DEF SpuriousWake
<1>9. CASE SetQuit
      BY <1>9 DEF SetQuit
<1>10. CASE NotifyAll
      BY <1>10 DEF NotifyAll
<1>11. CASE Join
      BY <1>11 DEF Join
<1>12. CASE Destroy
      BY <1>12 DEF Destroy
<1>13. CASE UNCHANGED vars
      BY <1>13 DEF vars
<1> QED
    BY <1>1, <1>2, <1>3, <1>4, <1>5, <1>6, <1>7, <1>8, <1>9, <1>10, <1>11, <1>12, <1>13
    DEF Next, CallerStep, WorkerStep, LockedStep, DtorStep, Gone

(* From the destructor's notify_all on no worker sleeps, so no join waits  *)
(* for a thread that nobody will wake.                                     *)
THEOREM NobodySleepsDuringJoin == Spec => []NoSleeperDuringJoin
<1>1. ShutdownInv => NoSleeperDuringJoin
      BY DEF ShutdownInv
<1> QED
    BY <1>1, ShutdownInit, ShutdownStep, PTL DEF Spec

(* A joined thread never runs again, and the members are destroyed only    *)
(* when every worker has left dispatchThreadHandler.                       *)
THEOREM NobodyLeftBehind == Spec => []JoinedAreDone
<1>1. ShutdownInv => JoinedAreDone
      BY DEF ShutdownInv, JoinedAreDone, Workers
<1> QED
    BY <1>1, ShutdownInit, ShutdownStep, PTL DEF Spec

-----------------------------------------------------------------------------
(* No lost wake-up                                                         *)

WakeupInv == ShutdownInv /\ WakeupsCoverQueue

\* The threads ready to run and the calls to notify are finitely many.
LEMMA FiniteThreads ==
  ASSUME TypeOK
  PROVE  /\ IsFiniteSet(Ready) /\ Cardinality(Ready) \in Nat
         /\ IsFiniteSet(notifying) /\ Cardinality(notifying) \in Nat
         /\ Len(queue) \in Nat
<1>1. IsFiniteSet(Workers)
      BY PoolAssumption, FS_Interval DEF Workers
<1>2. Ready \in SUBSET Workers /\ notifying \in SUBSET Callers
      BY DEF Ready, TypeOK
<1>3. IsFiniteSet(Ready) /\ IsFiniteSet(notifying)
      BY <1>1, <1>2, PoolAssumption, FS_Subset
<1> QED
    BY <1>3, FS_CardinalityType, LenProperties DEF TypeOK

\* With no operation queued, no wakeup is owed.
LEMMA WakeupInit == Init => WakeupInv
  BY ShutdownInit DEF Init, WakeupInv, WakeupsCoverQueue, Waiting

\* Every step preserves it: whoever takes a wakeup also takes an operation.
LEMMA WakeupStep == WakeupInv /\ [Next]_vars => WakeupInv'
<1> SUFFICES ASSUME WakeupInv, [Next]_vars, ~quit', Waiting' # {}
             PROVE  Len(queue') <= Cardinality(Ready') + Cardinality(notifying')
    BY ShutdownStep DEF WakeupInv, WakeupsCoverQueue
<1>0. TypeOK /\ TypeOK'
      BY TypeStep DEF WakeupInv, ShutdownInv
<1> DEFINE NR == Cardinality(Ready)
           NN == Cardinality(notifying)
<1>a. /\ IsFiniteSet(Ready) /\ NR \in Nat
      /\ IsFiniteSet(notifying) /\ NN \in Nat
      /\ Len(queue) \in Nat
      BY <1>0, FiniteThreads
<1>b. ASSUME ~quit, Waiting # {} PROVE Len(queue) <= NR + NN
      BY <1>b DEF WakeupInv, WakeupsCoverQueue
<1>1. ASSUME NEW c \in Callers, NEW op \in Ops, Dispatch(c, op)
      PROVE  Len(queue') <= Cardinality(Ready') + Cardinality(notifying')
  <2>1. Ready' = Ready /\ Waiting' = Waiting /\ quit' = quit
        BY <1>1 DEF Dispatch, Ready, Waiting
  <2>2. Len(queue') = Len(queue) + 1
        BY <1>0, <1>1, AppendProperties DEF Dispatch, TypeOK
  <2>3. Cardinality(notifying') = NN + 1
        BY <1>1, <1>a, FS_AddElement DEF Dispatch
  <2> QED
      BY <2>1, <2>2, <2>3, <1>a, <1>b
<1>2. ASSUME NEW c \in Callers, NotifyOne(c)
      PROVE  Len(queue') <= Cardinality(Ready') + Cardinality(notifying')
  <2>1. queue' = queue /\ quit' = quit
        BY <1>2 DEF NotifyOne
  <2>2. Cardinality(notifying') = NN - 1
        BY <1>2, <1>a, FS_RemoveElement DEF NotifyOne
  <2>3. CASE Waiting = {}
        BY <2>3, <1>2 DEF NotifyOne, Waiting
  <2>4. ASSUME NEW w \in Waiting, worker' = [worker EXCEPT ![w] = "ready"]
        PROVE  Len(queue') <= Cardinality(Ready') + Cardinality(notifying')
    <3>1. Ready' = Ready \union {w} /\ w \notin Ready
          BY <2>4, <1>0 DEF Ready, Waiting, TypeOK
    <3>2. Cardinality(Ready') = NR + 1
          BY <3>1, <1>a, FS_AddElement
    <3> QED
        BY <3>2, <2>1, <2>2, <2>4, <1>a, <1>b
  <2> QED
      BY <1>2, <2>3, <2>4 DEF NotifyOne
<1>3. ASSUME NEW c \in Callers, RemovePending(c)
      PROVE  Len(queue') <= Cardinality(Ready') + Cardinality(notifying')
  <2>1. Len(queue') = 0 /\ Ready' = Ready /\ notifying' = notifying
        BY <1>3, EmptySeq DEF RemovePending, Ready
  <2> QED
      BY <2>1, <1>a
<1>4. ASSUME NEW w \in Workers, Sleep(w)
      PROVE  Len(queue') <= Cardinality(Ready') + Cardinality(notifying')
  <2>1. Len(queue') = 0
        BY <1>4, EmptySeq DEF Sleep
  <2>2. Cardinality(Ready') \in Nat /\ Cardinality(notifying') \in Nat
    <3>1. Ready' \in SUBSET Ready /\ notifying' = notifying
          BY <1>4, <1>0 DEF Sleep, Ready, TypeOK
    <3> QED
        BY <3>1, <1>a, FS_Subset, FS_CardinalityType
  <2> QED
      BY <2>1, <2>2
<1>5. ASSUME NEW w \in Workers, Take(w)
      PROVE  Len(queue') <= Cardinality(Ready') + Cardinality(notifying')
  <2>1. Len(queue') = Len(queue) - 1
        BY <1>0, <1>5, HeadTailProperties DEF Take, TypeOK
  <2>2. /\ Ready' = Ready \ {w} /\ w \in Ready
        /\ Waiting' = Waiting /\ quit' = quit /\ notifying' = notifying
        BY <1>0, <1>5 DEF Take, Ready, Waiting, TypeOK
  <2>3. Cardinality(Ready') = NR - 1
        BY <2>2, <1>a, FS_RemoveElement
  <2> QED
      BY <2>1, <2>2, <2>3, <1>a, <1>b
<1>6. ASSUME NEW w \in Workers, Return(w) \/ SpuriousWake(w)
      PROVE  Len(queue') <= Cardinality(Ready') + Cardinality(notifying')
  <2>1. /\ Ready' = Ready \union {w} /\ w \notin Ready
        /\ Waiting' \subseteq Waiting
        /\ quit' = quit /\ notifying' = notifying /\ queue' = queue
        BY <1>0, <1>6 DEF Return, SpuriousWake, Ready, Waiting, TypeOK
  <2>2. Cardinality(Ready') = NR + 1
        BY <2>1, <1>a, FS_AddElement
  <2> QED
      BY <2>1, <2>2, <1>a, <1>b
<1>7. ASSUME NEW w \in Workers, Exit(w) PROVE FALSE
      BY <1>7 DEF Exit
<1>8. ASSUME SetQuit \/ NotifyAll PROVE FALSE
      BY <1>8, <1>0 DEF SetQuit, NotifyAll, WakeupInv, ShutdownInv
<1>9. CASE Join \/ Destroy \/ UNCHANGED vars
  <2>1. /\ queue' = queue /\ quit' = quit /\ notifying' = notifying
        /\ Ready' = Ready /\ Waiting' = Waiting
        BY <1>9 DEF Join, Destroy, vars, Ready, Waiting
  <2> QED
      BY <2>1, <1>b
<1> QED
    BY <1>1, <1>2, <1>3, <1>4, <1>5, <1>6, <1>7, <1>8, <1>9
    DEF Next, CallerStep, WorkerStep, LockedStep, DtorStep, Gone

(* While the pool is open and a worker sleeps, the wake-ups under way      *)
(* cover the queue: dispatch may notify after it has released the lock     *)
(* without ever stranding an operation beside a sleeping thread.           *)
THEOREM NoLostWakeup == Spec => []WakeupsCoverQueue
<1>1. WakeupInv => WakeupsCoverQueue
      BY DEF WakeupInv
<1> QED
    BY <1>1, WakeupInit, WakeupStep, PTL DEF Spec

-----------------------------------------------------------------------------
(* Each operation is in one place                                          *)

(* Inductive with the history of what was dispatched: whatever is queued   *)
(* or running was dispatched before, so a new operation is neither.        *)
PlaceInv == /\ TypeOK
            /\ InOnePlace
            /\ \A i \in 1..Len(queue) : queue[i] \in dispatched
            /\ \A w \in Running : current[w] \in dispatched

\* Nothing is queued or running at first, so no operation is in two places.
LEMMA PlaceInit == Init => PlaceInv
<1> SUFFICES ASSUME Init PROVE PlaceInv
    OBVIOUS
<1>1. Len(queue) = 0 /\ Running = {}
      BY EmptySeq DEF Init, Running
<1> QED
    BY <1>1, TypeInit DEF PlaceInv, InOnePlace

\* Every step preserves it: an operation moves from the queue to one thread.
LEMMA PlaceStep == PlaceInv /\ [Next]_vars => PlaceInv'
<1> SUFFICES ASSUME PlaceInv, [Next]_vars PROVE PlaceInv'
    OBVIOUS
<1>0. TypeOK /\ TypeOK'
      BY TypeStep DEF PlaceInv
<1>a. Len(queue) \in Nat
      BY <1>0, LenProperties DEF TypeOK
<1>1. ASSUME NEW c \in Callers, NEW op \in Ops, Dispatch(c, op) PROVE PlaceInv'
  <2>1. /\ Len(queue') = Len(queue) + 1
        /\ \A i \in 1..Len(queue) : queue'[i] = queue[i]
        /\ queue'[Len(queue) + 1] = op
        BY <1>0, <1>1, AppendProperties DEF Dispatch, TypeOK
  <2>2. /\ op \notin dispatched /\ dispatched' = dispatched \union {op}
        /\ Running' = Running /\ current' = current
        BY <1>1 DEF Dispatch, Running
  <2>3. \A i \in 1..Len(queue') : i \in 1..Len(queue) \/ i = Len(queue) + 1
        BY <2>1, <1>a
  <2>4. \A i \in 1..Len(queue) : queue[i] # op
        BY <2>2 DEF PlaceInv
  <2> QED
      BY <2>1, <2>2, <2>3, <2>4, <1>0 DEF PlaceInv, InOnePlace
<1>2. ASSUME NEW w \in Workers, Take(w) PROVE PlaceInv'
  <2>1. /\ Len(queue') = Len(queue) - 1 /\ Len(queue) >= 1
        /\ \A i \in 1..Len(queue') : queue'[i] = queue[i + 1]
        /\ current'[w] = queue[1]
        BY <1>0, <1>2, <1>a, HeadTailProperties, EmptySeq DEF Take, TypeOK
  <2>2. /\ Running' = Running \union {w} /\ w \notin Running
        /\ \A v \in Running : current'[v] = current[v]
        /\ dispatched' = dispatched
        BY <1>0, <1>2 DEF Take, Running, TypeOK
  <2>3. 1 \in 1..Len(queue) /\ \A i \in 1..Len(queue') : i + 1 \in 1..Len(queue) /\ i + 1 # 1
        BY <2>1, <1>a
  <2>4. \A i, j \in 1..Len(queue') : i # j => queue'[i] # queue'[j]
        BY <2>1, <2>3 DEF PlaceInv, InOnePlace
  <2>5. \A v \in Running' : \A i \in 1..Len(queue') : queue'[i] # current'[v]
        BY <2>1, <2>2, <2>3 DEF PlaceInv, InOnePlace
  <2>6. \A u, v \in Running' : u # v => current'[u] # current'[v]
        BY <2>1, <2>2, <2>3 DEF PlaceInv, InOnePlace
  <2>7. /\ \A i \in 1..Len(queue') : queue'[i] \in dispatched'
        /\ \A v \in Running' : current'[v] \in dispatched'
        BY <2>1, <2>2, <2>3 DEF PlaceInv
  <2> QED
      BY <2>4, <2>5, <2>6, <2>7, <1>0 DEF PlaceInv, InOnePlace
<1>3. ASSUME NEW c \in Callers, RemovePending(c) PROVE PlaceInv'
  <2>1. Len(queue') = 0 /\ Running' = Running /\ current' = current /\ dispatched' = dispatched
        BY <1>3, EmptySeq DEF RemovePending, Running
  <2> QED
      BY <2>1, <1>0 DEF PlaceInv, InOnePlace
<1>4. ASSUME NEW w \in Workers, Return(w) PROVE PlaceInv'
  <2>1. /\ Running' = Running \ {w} /\ \A v \in Running' : current'[v] = current[v]
        /\ queue' = queue /\ dispatched' = dispatched
        BY <1>4, <1>0 DEF Return, Running, TypeOK
  <2> QED
      BY <2>1, <1>0 DEF PlaceInv, InOnePlace
<1>5. ASSUME Running' = Running, queue' = queue, current' = current, dispatched' = dispatched
      PROVE  PlaceInv'
      BY <1>5, <1>0 DEF PlaceInv, InOnePlace
<1>6. ASSUME NEW c \in Callers, NotifyOne(c) PROVE PlaceInv'
      BY <1>5, <1>6, <1>0 DEF NotifyOne, Running, Waiting, TypeOK
<1>7. ASSUME NEW w \in Workers, Sleep(w) \/ Exit(w) \/ SpuriousWake(w) PROVE PlaceInv'
      BY <1>5, <1>7, <1>0 DEF Sleep, Exit, SpuriousWake, Running, TypeOK
<1>8. CASE NotifyAll
      BY <1>5, <1>8, <1>0 DEF NotifyAll, Running, Waiting, TypeOK
<1>9. CASE SetQuit \/ Join \/ Destroy \/ UNCHANGED vars
      BY <1>5, <1>9 DEF SetQuit, Join, Destroy, vars, Running
<1> QED
    BY <1>1, <1>2, <1>3, <1>4, <1>6, <1>7, <1>8, <1>9
    DEF Next, CallerStep, WorkerStep, LockedStep, DtorStep, Gone

(* No operation is executed twice, by one thread or by two.                *)
THEOREM EachInOnePlace == Spec => []InOnePlace
<1>1. PlaceInv => InOnePlace
      BY DEF PlaceInv
<1> QED
    BY <1>1, PlaceInit, PlaceStep, PTL DEF Spec

-----------------------------------------------------------------------------
(* The pool implements TaskExecutor                                        *)

RunningOps == {current[w] : w \in Running}

(* A worker that holds the lock leaves room for one more operation.        *)
LEMMA RoomForOneMore ==
  ASSUME TypeOK, NEW w \in Ready
  PROVE  Cardinality(RunningOps) < ThreadCount
<1>1. IsFiniteSet(Workers) /\ Cardinality(Workers) = ThreadCount
      BY PoolAssumption, FS_Interval DEF Workers
<1>2. w \in Workers /\ Running \in SUBSET (Workers \ {w})
      BY DEF Running, Ready
<1>3. IsFiniteSet(Workers \ {w}) /\ Cardinality(Workers \ {w}) = ThreadCount - 1
      BY <1>1, <1>2, FS_RemoveElement
<1>4. IsFiniteSet(Running) /\ Cardinality(Running) <= ThreadCount - 1
      BY <1>2, <1>3, FS_Subset
<1> DEFINE f == [v \in Running |-> current[v]]
<1>5. f \in Surjection(Running, RunningOps)
      BY DEF Surjection, RunningOps
<1>6. IsFiniteSet(RunningOps) /\ Cardinality(RunningOps) <= Cardinality(Running)
      BY <1>4, <1>5, FS_Surjection
<1>7. Cardinality(RunningOps) \in Nat /\ Cardinality(Running) \in Nat
      BY <1>4, <1>6, FS_CardinalityType
<1> QED
    BY <1>4, <1>6, <1>7, PoolAssumption

\* The initial state of the pool is the executor's.
LEMMA ExecutorInit == Init => Executor!Init
  BY DEF Init, Executor!Init, Running

\* Every step of the pool is a step of the executor, or changes nothing it sees.
LEMMA ExecutorStep == PlaceInv /\ PlaceInv' /\ [Next]_vars => [Executor!Next]_(Executor!vars)
<1> SUFFICES ASSUME PlaceInv, PlaceInv', [Next]_vars
             PROVE  Executor!Next \/ UNCHANGED <<queue, RunningOps, quit>>
    BY DEF Executor!vars, RunningOps
<1>0. TypeOK
      BY DEF PlaceInv
<1>1. ASSUME NEW c \in Callers, NEW op \in Ops, Dispatch(c, op) PROVE Executor!Next
      BY <1>1 DEF Dispatch, Executor!Next, Executor!Submit, Running
<1>2. ASSUME NEW c \in Callers, RemovePending(c) PROVE Executor!Next
      BY <1>2 DEF RemovePending, Executor!Next, Executor!Discard, Running
<1>3. ASSUME NEW w \in Workers, Take(w) PROVE Executor!Next
  <2>1. w \in Ready
        BY <1>3 DEF Take, Ready
  <2>2. Cardinality(RunningOps) < ThreadCount
        BY <1>0, <2>1, RoomForOneMore
  <2>3. Running' = Running \union {w} /\ w \notin Running
        BY <1>0, <1>3 DEF Take, Running, TypeOK
  <2>4. current'[w] = Head(queue) /\ \A v \in Running : current'[v] = current[v]
        BY <1>0, <1>3, <2>3 DEF Take, Running, TypeOK
  <2>5. RunningOps' = RunningOps \union {Head(queue)}
        BY <2>3, <2>4 DEF RunningOps
  <2>6. Head(queue) \notin RunningOps
    <3>1. Len(queue) \in Nat /\ Len(queue) >= 1 /\ Head(queue) = queue[1]
          BY <1>0, <1>3, EmptySeq, LenProperties DEF Take, TypeOK
    <3> QED
        BY <3>1 DEF PlaceInv, InOnePlace, RunningOps
  <2>7. Executor!Cardinality(RunningOps) = Cardinality(RunningOps)
        BY DEF Executor!Cardinality, Cardinality
  <2>8. Executor!Begin
        BY <1>3, <2>2, <2>5, <2>6, <2>7 DEF Take, Executor!Begin, RunningOps
  <2> QED
      BY <2>8 DEF Executor!Next
<1>4. ASSUME NEW w \in Workers, Return(w) PROVE Executor!Next
  <2>1. w \in Running /\ Running' = Running \ {w} /\ \A v \in Running' : current'[v] = current[v]
        BY <1>0, <1>4 DEF Return, Running, TypeOK
  <2>2. RunningOps' = RunningOps \ {current[w]}
        BY <2>1 DEF PlaceInv, InOnePlace, RunningOps
  <2>3. Executor!Finish
        BY <1>4, <2>1, <2>2 DEF Return, Executor!Finish, RunningOps
  <2> QED
      BY <2>3 DEF Executor!Next
<1>5. CASE SetQuit
      BY <1>5 DEF SetQuit, Executor!Next, Executor!Close, Running
<1>6. ASSUME queue' = queue, quit' = quit, current' = current, Running' = Running
      PROVE  UNCHANGED <<queue, RunningOps, quit>>
      BY <1>6 DEF RunningOps
<1>7. ASSUME NEW c \in Callers, NotifyOne(c) PROVE UNCHANGED <<queue, RunningOps, quit>>
      BY <1>0, <1>6, <1>7 DEF NotifyOne, Running, Waiting, TypeOK
<1>8. ASSUME NEW w \in Workers, Sleep(w) \/ Exit(w) \/ SpuriousWake(w)
      PROVE  UNCHANGED <<queue, RunningOps, quit>>
      BY <1>0, <1>6, <1>8 DEF Sleep, Exit, SpuriousWake, Running, TypeOK
<1>9. CASE NotifyAll
      BY <1>0, <1>6, <1>9 DEF NotifyAll, Running, Waiting, TypeOK
<1>10. CASE Join \/ Destroy \/ UNCHANGED vars
      BY <1>6, <1>10 DEF Join, Destroy, vars, Running
<1> QED
    BY <1>1, <1>2, <1>3, <1>4, <1>5, <1>7, <1>8, <1>9, <1>10
    DEF Next, CallerStep, WorkerStep, LockedStep, DtorStep, Gone

(* Every behaviour of the pool is one of the abstract executor: operations *)
(* start in dispatch order, at most ThreadCount at a time, none after quit.*)
THEOREM PoolImplementsExecutor == Spec => Executor!Spec
  BY ExecutorInit, ExecutorStep, PlaceInit, PlaceStep, PTL DEF Spec, Executor!Spec
=============================================================================
