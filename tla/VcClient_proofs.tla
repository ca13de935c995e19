--------------------------- MODULE VcClient_proofs ---------------------------
(***************************************************************************)
(* The pool of waiters and the use count of the client, for any finite     *)
(* number of threads and any number of waiters.                            *)
(***************************************************************************)
EXTENDS VcClient, FiniteSetTheorems, TLAPS

Places == Calling \union {"idle", "opened", "claim", "have", "broken", "unclaim", "deinit"}

\* where a thread has a component or is about to, where it holds a unit of the
\* pool's semaphore, where it holds a waiter
Busy    == Places \ {"idle"}
Granted == Calling \ {"take"}
Holding == {"use", "queue", "wait", "unuse", "clear"}

\* where a thread needs VideoCore, where it needs it once more, and during the opening
Claiming == Places \ {"idle", "opened", "claim", "deinit"}
Sending  == {"queue", "wait", "unuse"}
Opening  == {"opened"}

In(places)    == {t \in Threads : pc[t] \in places}
Count(places) == Cardinality(In(places))
Change(places, from, to) == (IF to \in places THEN 1 ELSE 0) - (IF from \in places THEN 1 ELSE 0)

\* A thread that moves changes a count of threads by one at most.
LEMMA CountMoves ==
  ASSUME NEW places, NEW t \in Threads, NEW from, NEW to, pc \in [Threads -> Places], Goes(t, from, to)
  PROVE  /\ Count(places) \in Nat
         /\ Cardinality({u \in Threads : pc'[u] \in places}) = Count(places) + Change(places, from, to)
<1>1. IsFiniteSet(In(places))
      BY ClientAssumption, FS_Subset DEF In
<1>2. Count(places) \in Nat
      BY <1>1, FS_CardinalityType DEF Count
<1>3. \A u \in Threads : pc'[u] = IF u = t THEN to ELSE pc[u]
      BY DEF Goes
<1>4. pc[t] = from
      BY DEF Goes
<1>5. CASE to \in places
  <2>1. {u \in Threads : pc'[u] \in places} = In(places) \union {t}
        BY <1>3, <1>5 DEF In
  <2>2. Cardinality(In(places) \union {t}) = IF t \in In(places) THEN Count(places) ELSE Count(places) + 1
        BY <1>1, FS_AddElement DEF Count
  <2> QED
      BY <1>2, <1>4, <1>5, <2>1, <2>2 DEF Change, In
<1>6. CASE to \notin places
  <2>1. {u \in Threads : pc'[u] \in places} = In(places) \ {t}
        BY <1>3, <1>6 DEF In
  <2>2. Cardinality(In(places) \ {t}) = IF t \in In(places) THEN Count(places) - 1 ELSE Count(places)
        BY <1>1, FS_RemoveElement DEF Count
  <2> QED
      BY <1>2, <1>4, <1>6, <2>1, <2>2 DEF Change, In
<1> QED
    BY <1>5, <1>6

\* A count is zero exactly if nobody is there.
LEMMA CountZero ==
  ASSUME NEW places
  PROVE  Count(places) \in Nat /\ (Count(places) = 0 <=> \A t \in Threads : pc[t] \notin places)
<1>1. IsFiniteSet(In(places))
      BY ClientAssumption, FS_Subset DEF In
<1>2. Count(places) = 0 <=> In(places) = {}
      BY <1>1, FS_EmptySet DEF Count
<1> QED
    BY <1>1, <1>2, FS_CardinalityType DEF In, Count

-----------------------------------------------------------------------------
(* Type correctness                                                        *)

\* TypeOK in two parts: truth values, and everything else
BoolOK == /\ inited \in BOOLEAN /\ used \in BOOLEAN
          /\ inuse \in [Waiters -> BOOLEAN]
DataOK == /\ usecount \in Int /\ misses \in Nat /\ stuck \in Nat
          /\ wsem \in [Waiters -> Nat]
          /\ dest \in [Waiters -> Threads \union {Nobody}]
          /\ wire \subseteq [to : Waiters, from : Threads]
          /\ pc \in [Threads -> Places]
          /\ cmd \in [Threads -> {"create", "call", "destroy"}]
          /\ waiter \in [Threads -> Waiters \union {0}]
          /\ got \in [Threads -> [from : Threads \union {Nobody}, ok : BOOLEAN]]
          /\ \A t \in Threads : pc[t] \in Holding => waiter[t] \in Waiters

\* The parts are the whole.
LEMMA TypeParts == BoolOK /\ DataOK /\ refcount \in Nat /\ sem \in Nat => TypeOK
  BY DEF TypeOK, BoolOK, DataOK, Places

\* Every step keeps the truth values.
LEMMA BoolStep == BoolOK /\ [Next]_vars => BoolOK'
<1> SUFFICES ASSUME BoolOK, [Next]_vars PROVE BoolOK'
    OBVIOUS
<1> USE DEF BoolOK, countVars, poolVars
<1>1. ASSUME NEW t \in Threads, InitFirst(t) PROVE BoolOK'
      BY <1>1 DEF InitFirst
<1>2. ASSUME NEW t \in Threads, InitMore(t) PROVE BoolOK'
      BY <1>2 DEF InitMore
<1>3. ASSUME NEW t \in Threads, InitReleases(t) PROVE BoolOK'
      BY <1>3 DEF InitReleases, Release
<1>4. ASSUME NEW t \in Threads, ShmFails(t) PROVE BoolOK'
      BY <1>4 DEF ShmFails
<1>5. ASSUME NEW t \in Threads, Claim(t) PROVE BoolOK'
      BY <1>5 DEF Claim, Use, Sends
<1>6. ASSUME NEW t \in Threads, Call(t) PROVE BoolOK'
      BY <1>6 DEF Call, Sends
<1>7. ASSUME NEW t \in Threads, Destroy(t) PROVE BoolOK'
      BY <1>7 DEF Destroy, Sends
<1>8. ASSUME NEW t \in Threads, Unclaim(t) PROVE BoolOK'
      BY <1>8 DEF Unclaim, Release
<1>9. ASSUME NEW t \in Threads, Deinit(t) PROVE BoolOK'
      BY <1>9 DEF Deinit
<1>10. ASSUME NEW t \in Threads, Take(t) PROVE BoolOK'
      BY <1>10 DEF Take
<1>11. ASSUME NEW t \in Threads, Scan(t) PROVE BoolOK'
      BY <1>11 DEF Scan
<1>12. ASSUME NEW t \in Threads, CallUses(t) PROVE BoolOK'
      BY <1>12 DEF CallUses, Use
<1>13. ASSUME NEW t \in Threads, Queue(t) PROVE BoolOK'
      BY <1>13 DEF Queue
<1>14. ASSUME NEW t \in Threads, QueueFails(t) PROVE BoolOK'
      BY <1>14 DEF QueueFails
<1>15. ASSUME NEW t \in Threads, Woken(t) PROVE BoolOK'
      BY <1>15 DEF Woken
<1>16. ASSUME NEW t \in Threads, CallReleases(t) PROVE BoolOK'
      BY <1>16 DEF CallReleases, Release
<1>17. ASSUME NEW t \in Threads, Clear(t) PROVE BoolOK'
      BY <1>17 DEF Clear
<1>18. ASSUME NEW t \in Threads, Returns(t) PROVE BoolOK'
      BY <1>18 DEF Returns
<1>19. ASSUME NEW t \in Threads, DestroyBroken(t) PROVE BoolOK'
      BY <1>19 DEF DestroyBroken, Sends
<1>20. ASSUME NEW m \in wire, Reply(m) PROVE BoolOK'
      BY <1>20 DEF Reply
<1>21. CASE UNCHANGED vars
      BY <1>21 DEF vars, countVars, poolVars, threadVars
<1> QED
    BY <1>1, <1>2, <1>3, <1>4, <1>5, <1>6, <1>7, <1>8, <1>9, <1>10, <1>11, <1>12, <1>13, <1>14, <1>15, <1>16, <1>17, <1>18, <1>19, <1>20, <1>21 DEF Next, Component, SendWait

\* Every step keeps the rest but for the two counts that go down.
LEMMA DataStep == BoolOK /\ DataOK /\ [Next]_vars => DataOK'
<1> SUFFICES ASSUME BoolOK, DataOK, [Next]_vars PROVE DataOK'
    OBVIOUS
<1> USE ClientAssumption DEF DataOK, Goes, Places, Calling, Holding, countVars, poolVars
<1>1. ASSUME NEW t \in Threads, InitFirst(t) PROVE DataOK'
      BY <1>1 DEF InitFirst
<1>2. ASSUME NEW t \in Threads, InitMore(t) PROVE DataOK'
      BY <1>2 DEF InitMore
<1>3. ASSUME NEW t \in Threads, InitReleases(t) PROVE DataOK'
      BY <1>3 DEF InitReleases, Release
<1>4. ASSUME NEW t \in Threads, ShmFails(t) PROVE DataOK'
      BY <1>4 DEF ShmFails
<1>5. ASSUME NEW t \in Threads, Claim(t) PROVE DataOK'
      BY <1>5 DEF Claim, Use, Sends
<1>6. ASSUME NEW t \in Threads, Call(t) PROVE DataOK'
      BY <1>6 DEF Call, Sends
<1>7. ASSUME NEW t \in Threads, Destroy(t) PROVE DataOK'
      BY <1>7 DEF Destroy, Sends
<1>8. ASSUME NEW t \in Threads, Unclaim(t) PROVE DataOK'
      BY <1>8 DEF Unclaim, Release
<1>9. ASSUME NEW t \in Threads, Deinit(t) PROVE DataOK'
      BY <1>9 DEF Deinit
<1>10. ASSUME NEW t \in Threads, Take(t) PROVE DataOK'
      BY <1>10 DEF Take
<1>11. ASSUME NEW t \in Threads, Scan(t) PROVE DataOK'
      BY <1>11 DEF Scan
<1>12. ASSUME NEW t \in Threads, CallUses(t) PROVE DataOK'
      BY <1>12 DEF CallUses, Use
<1>13. ASSUME NEW t \in Threads, Queue(t) PROVE DataOK'
  <2>1. waiter[t] \in Waiters
        BY <1>13 DEF Queue
  <2>2. [to |-> waiter[t], from |-> t] \in [to : Waiters, from : Threads]
        BY <2>1
  <2>3. wire' \subseteq [to : Waiters, from : Threads]
        BY <1>13, <2>2 DEF Queue
  <2> QED
      BY <1>13, <2>3 DEF Queue
<1>14. ASSUME NEW t \in Threads, QueueFails(t) PROVE DataOK'
      BY <1>14 DEF QueueFails
<1>15. ASSUME NEW t \in Threads, Woken(t) PROVE DataOK'
      BY <1>15 DEF Woken
<1>16. ASSUME NEW t \in Threads, CallReleases(t) PROVE DataOK'
      BY <1>16 DEF CallReleases, Release
<1>17. ASSUME NEW t \in Threads, Clear(t) PROVE DataOK'
      BY <1>17 DEF Clear
<1>18. ASSUME NEW t \in Threads, Returns(t) PROVE DataOK'
  <2>1. pc' \in [Threads -> Places] /\ cmd' \in [Threads -> {"create", "call", "destroy"}]
        BY <1>18 DEF Returns
  <2>2. waiter' \in [Threads -> Waiters \union {0}]
        BY <1>18 DEF Returns
  <2>3. NoReply \in [from : Threads \union {Nobody}, ok : BOOLEAN]
        BY DEF NoReply
  <2>4. got' \in [Threads -> [from : Threads \union {Nobody}, ok : BOOLEAN]]
        BY <1>18, <2>3 DEF Returns
  <2>5. \A u \in Threads : pc'[u] \in Holding => pc[u] \in Holding /\ waiter'[u] = waiter[u]
        BY <1>18 DEF Returns
  <2> QED
      BY <1>18, <2>1, <2>2, <2>4, <2>5 DEF Returns
<1>19. ASSUME NEW t \in Threads, DestroyBroken(t) PROVE DataOK'
      BY <1>19 DEF DestroyBroken, Sends
<1>20. ASSUME NEW m \in wire, Reply(m) PROVE DataOK'
  <2>1. m.to \in Waiters /\ m.from \in Threads
        BY DEF Reply
  <2>2. \A ok \in {TRUE, ~Failures} : [from |-> m.from, ok |-> ok] \in [from : Threads \union {Nobody}, ok : BOOLEAN]
        BY <2>1
  <2>3. got' \in [Threads -> [from : Threads \union {Nobody}, ok : BOOLEAN]]
    <3>1. PICK r \in [from : Threads \union {Nobody}, ok : BOOLEAN] : got' = [got EXCEPT ![dest[m.to]] = r]
          BY <1>20, <2>2 DEF Reply
    <3> QED
        BY <3>1
  <2>4. wsem' \in [Waiters -> Nat]
        BY <1>20, <2>1 DEF Reply
  <2> QED
      BY <1>20, <2>3, <2>4 DEF Reply
<1>21. CASE UNCHANGED vars
      BY <1>21 DEF vars, countVars, poolVars, threadVars
<1> QED
    BY <1>1, <1>2, <1>3, <1>4, <1>5, <1>6, <1>7, <1>8, <1>9, <1>10, <1>11, <1>12, <1>13, <1>14, <1>15, <1>16, <1>17, <1>18, <1>19, <1>20, <1>21 DEF Next, Component, SendWait

-----------------------------------------------------------------------------
(* The counts                                                              *)

(* Inductive: refcount counts the components; while there are any, the     *)
(* units of the semaphore are in the pool or with a thread, and the use    *)
(* count is what the threads need, but for what failed.                    *)
CountInv == /\ refcount = Count(Busy) /\ sem \in Nat
            /\ refcount > 0 => /\ sem + Count(Granted) = MAX_WAITERS
                               /\ usecount + misses = stuck + Count(Claiming) + Count(Sending) + Count(Opening)

(* Inductive: the service is open while there are components; while no     *)
(* use has failed, a positive use count means that VideoCore is in use.    *)
AwakeInv == /\ inited <=> refcount > 0
            /\ refcount > 0 /\ misses = 0 /\ usecount > 0 => used

\* what a move does to all counts
CountsMove(from, to) ==
    /\ Count(Busy) \in Nat /\ Count(Busy)' = Count(Busy) + Change(Busy, from, to)
    /\ Count(Granted) \in Nat /\ Count(Granted)' = Count(Granted) + Change(Granted, from, to)
    /\ Count(Claiming) \in Nat /\ Count(Claiming)' = Count(Claiming) + Change(Claiming, from, to)
    /\ Count(Sending) \in Nat /\ Count(Sending)' = Count(Sending) + Change(Sending, from, to)
    /\ Count(Opening) \in Nat /\ Count(Opening)' = Count(Opening) + Change(Opening, from, to)
    /\ from \in Busy => Count(Busy) > 0

\* A thread that moves changes each count by one at most.
LEMMA Moves ==
  ASSUME NEW t \in Threads, NEW from, NEW to, DataOK, Goes(t, from, to)
  PROVE  CountsMove(from, to)
<1>1. pc \in [Threads -> Places] /\ pc[t] = from
      BY DEF DataOK, Goes
<1>2. ASSUME NEW places
      PROVE  /\ Count(places) \in Nat
             /\ Cardinality({u \in Threads : pc'[u] \in places}) = Count(places) + Change(places, from, to)
      BY <1>1, CountMoves
<1>3. /\ Count(Busy)' = Cardinality({u \in Threads : pc'[u] \in Busy})
      /\ Count(Granted)' = Cardinality({u \in Threads : pc'[u] \in Granted})
      /\ Count(Claiming)' = Cardinality({u \in Threads : pc'[u] \in Claiming})
      /\ Count(Sending)' = Cardinality({u \in Threads : pc'[u] \in Sending})
      /\ Count(Opening)' = Cardinality({u \in Threads : pc'[u] \in Opening})
      BY DEF Count, In, Busy, Granted, Claiming, Sending, Opening, Places, Calling
<1>4. from \in Busy => Count(Busy) > 0
      BY <1>1, CountZero
<1> QED
    BY <1>2, <1>3, <1>4 DEF CountsMove

\* While the service is closed nobody is anywhere.
LEMMA NobodyBusy ==
  ASSUME DataOK, CountInv, refcount = 0
  PROVE  /\ \A t \in Threads : pc[t] = "idle"
         /\ Count(Busy) = 0 /\ Count(Granted) = 0
         /\ Count(Claiming) = 0 /\ Count(Sending) = 0 /\ Count(Opening) = 0
<1>1. \A t \in Threads : pc[t] \notin Busy
      BY CountZero DEF CountInv
<1>2. \A t \in Threads : pc[t] = "idle"
      BY <1>1 DEF DataOK, Busy
<1>3. \A t \in Threads : /\ pc[t] \notin Granted /\ pc[t] \notin Claiming
                         /\ pc[t] \notin Sending /\ pc[t] \notin Opening
      BY <1>2 DEF Granted, Claiming, Sending, Opening, Calling
<1> QED
    BY <1>1, <1>2, <1>3, CountZero

\* Every step keeps the counts.
LEMMA CountStep == DataOK /\ CountInv /\ AwakeInv /\ [Next]_vars => CountInv'
<1> SUFFICES ASSUME DataOK, CountInv, AwakeInv, [Next]_vars PROVE CountInv'
    OBVIOUS
<1>0. usecount \in Int /\ misses \in Nat /\ stuck \in Nat /\ MAX_WAITERS \in Nat \ {0}
      BY ClientAssumption DEF DataOK
<1> USE <1>0 DEF CountInv, countVars, poolVars
<1>1. ASSUME NEW t \in Threads, InitFirst(t) PROVE CountInv'
  <2>1. Goes(t, "idle", "opened")
        BY <1>1 DEF InitFirst
  <2>2. CountsMove("idle", "opened")
        BY <2>1, Moves
  <2>3. /\ Count(Busy) = 0 /\ Count(Granted) = 0
        /\ Count(Claiming) = 0 /\ Count(Sending) = 0 /\ Count(Opening) = 0
        BY <1>1, NobodyBusy DEF InitFirst
  <2> QED
      BY <1>1, <2>2, <2>3 DEF InitFirst, CountsMove, Change, Busy, Granted, Claiming, Sending, Opening, Places, Calling
<1>2. ASSUME NEW t \in Threads, InitMore(t) PROVE CountInv'
  <2>1. Goes(t, "idle", "claim")
        BY <1>2 DEF InitMore
  <2>2. CountsMove("idle", "claim")
        BY <2>1, Moves
  <2> QED
      BY <1>2, <2>2 DEF InitMore, CountsMove, Change, Busy, Granted, Claiming, Sending, Opening, Places, Calling
<1>3. ASSUME NEW t \in Threads, InitReleases(t) PROVE CountInv'
  <2>1. Goes(t, "opened", "claim")
        BY <1>3 DEF InitReleases
  <2>2. CountsMove("opened", "claim")
        BY <2>1, Moves
  <2> QED
      BY <1>3, <2>2 DEF InitReleases, Release, CountsMove, Change, Busy, Granted, Claiming, Sending, Opening, Places, Calling
<1>4. ASSUME NEW t \in Threads, ShmFails(t) PROVE CountInv'
  <2>1. Goes(t, "claim", "deinit")
        BY <1>4 DEF ShmFails
  <2>2. CountsMove("claim", "deinit")
        BY <2>1, Moves
  <2> QED
      BY <1>4, <2>2 DEF ShmFails, CountsMove, Change, Busy, Granted, Claiming, Sending, Opening, Places, Calling
<1>5. ASSUME NEW t \in Threads, Claim(t) PROVE CountInv'
  <2>1. Goes(t, "claim", "take")
        BY <1>5 DEF Claim
  <2>2. CountsMove("claim", "take")
        BY <2>1, Moves
  <2> QED
      BY <1>5, <2>2 DEF Claim, Use, Sends, CountsMove, Change, Busy, Granted, Claiming, Sending, Opening, Places, Calling
<1>6. ASSUME NEW t \in Threads, Call(t) PROVE CountInv'
  <2>1. Goes(t, "have", "take")
        BY <1>6 DEF Call
  <2>2. CountsMove("have", "take")
        BY <2>1, Moves
  <2> QED
      BY <1>6, <2>2 DEF Call, Sends, CountsMove, Change, Busy, Granted, Claiming, Sending, Opening, Places, Calling
<1>7. ASSUME NEW t \in Threads, Destroy(t) PROVE CountInv'
  <2>1. Goes(t, "have", "take")
        BY <1>7 DEF Destroy
  <2>2. CountsMove("have", "take")
        BY <2>1, Moves
  <2> QED
      BY <1>7, <2>2 DEF Destroy, Sends, CountsMove, Change, Busy, Granted, Claiming, Sending, Opening, Places, Calling
<1>8. ASSUME NEW t \in Threads, Unclaim(t) PROVE CountInv'
  <2>1. Goes(t, "unclaim", "deinit")
        BY <1>8 DEF Unclaim
  <2>2. CountsMove("unclaim", "deinit")
        BY <2>1, Moves
  <2> QED
      BY <1>8, <2>2 DEF Unclaim, Release, AwakeInv, CountsMove, Change, Busy, Granted, Claiming, Sending, Opening, Places, Calling
<1>9. ASSUME NEW t \in Threads, Deinit(t) PROVE CountInv'
  <2>1. Goes(t, "deinit", "idle")
        BY <1>9 DEF Deinit
  <2>2. CountsMove("deinit", "idle")
        BY <2>1, Moves
  <2> QED
      BY <1>9, <2>2 DEF Deinit, CountsMove, Change, Busy, Granted, Claiming, Sending, Opening, Places, Calling
<1>10. ASSUME NEW t \in Threads, Take(t) PROVE CountInv'
  <2>1. Goes(t, "take", "scan")
        BY <1>10 DEF Take
  <2>2. CountsMove("take", "scan")
        BY <2>1, Moves
  <2> QED
      BY <1>10, <2>2 DEF Take, CountsMove, Change, Busy, Granted, Claiming, Sending, Opening, Places, Calling
<1>11. ASSUME NEW t \in Threads, Scan(t) PROVE CountInv'
  <2>1. Goes(t, "scan", "use")
        BY <1>11 DEF Scan
  <2>2. CountsMove("scan", "use")
        BY <2>1, Moves
  <2> QED
      BY <1>11, <2>2 DEF Scan, CountsMove, Change, Busy, Granted, Claiming, Sending, Opening, Places, Calling
<1>12. ASSUME NEW t \in Threads, CallUses(t) PROVE CountInv'
  <2>1. Goes(t, "use", "queue")
        BY <1>12 DEF CallUses
  <2>2. CountsMove("use", "queue")
        BY <2>1, Moves
  <2> QED
      BY <1>12, <2>2 DEF CallUses, Use, CountsMove, Change, Busy, Granted, Claiming, Sending, Opening, Places, Calling
<1>13. ASSUME NEW t \in Threads, Queue(t) PROVE CountInv'
  <2>1. Goes(t, "queue", "wait")
        BY <1>13 DEF Queue
  <2>2. CountsMove("queue", "wait")
        BY <2>1, Moves
  <2> QED
      BY <1>13, <2>2 DEF Queue, CountsMove, Change, Busy, Granted, Claiming, Sending, Opening, Places, Calling
<1>14. ASSUME NEW t \in Threads, QueueFails(t) PROVE CountInv'
  <2>1. Goes(t, "queue", "unuse")
        BY <1>14 DEF QueueFails
  <2>2. CountsMove("queue", "unuse")
        BY <2>1, Moves
  <2> QED
      BY <1>14, <2>2 DEF QueueFails, CountsMove, Change, Busy, Granted, Claiming, Sending, Opening, Places, Calling
<1>15. ASSUME NEW t \in Threads, Woken(t) PROVE CountInv'
  <2>1. Goes(t, "wait", "unuse")
        BY <1>15 DEF Woken
  <2>2. CountsMove("wait", "unuse")
        BY <2>1, Moves
  <2> QED
      BY <1>15, <2>2 DEF Woken, CountsMove, Change, Busy, Granted, Claiming, Sending, Opening, Places, Calling
<1>16. ASSUME NEW t \in Threads, CallReleases(t) PROVE CountInv'
  <2>1. Goes(t, "unuse", "clear")
        BY <1>16 DEF CallReleases
  <2>2. CountsMove("unuse", "clear")
        BY <2>1, Moves
  <2> QED
      BY <1>16, <2>2 DEF CallReleases, Release, CountsMove, Change, Busy, Granted, Claiming, Sending, Opening, Places, Calling
<1>17. ASSUME NEW t \in Threads, Clear(t) PROVE CountInv'
  <2>1. Goes(t, "clear", "post")
        BY <1>17 DEF Clear
  <2>2. CountsMove("clear", "post")
        BY <2>1, Moves
  <2> QED
      BY <1>17, <2>2 DEF Clear, CountsMove, Change, Busy, Granted, Claiming, Sending, Opening, Places, Calling
<1>18. ASSUME NEW t \in Threads, Returns(t) PROVE CountInv'
  <2>1. PICK to \in {"have", "unclaim", "broken"} : Goes(t, "post", to)
        BY <1>18 DEF Returns, Goes
  <2>2. CountsMove("post", to)
        BY <2>1, Moves
  <2> QED
      BY <1>18, <2>2 DEF Returns, CountsMove, Change, Busy, Granted, Claiming, Sending, Opening, Places, Calling
<1>19. ASSUME NEW t \in Threads, DestroyBroken(t) PROVE CountInv'
  <2>1. Goes(t, "broken", "take")
        BY <1>19 DEF DestroyBroken
  <2>2. CountsMove("broken", "take")
        BY <2>1, Moves
  <2> QED
      BY <1>19, <2>2 DEF DestroyBroken, Sends, CountsMove, Change, Busy, Granted, Claiming, Sending, Opening, Places, Calling
<1>20. ASSUME NEW m \in wire, Reply(m) PROVE CountInv'
  <2>1. UNCHANGED <<refcount, usecount, misses, stuck, sem, pc>>
        BY <1>20 DEF Reply
  <2> QED
      BY <2>1 DEF Count, In
<1>21. CASE UNCHANGED vars
  <2>1. UNCHANGED <<refcount, usecount, misses, stuck, sem, pc>>
        BY <1>21 DEF vars, threadVars
  <2> QED
      BY <2>1 DEF Count, In
<1> QED
    BY <1>1, <1>2, <1>3, <1>4, <1>5, <1>6, <1>7, <1>8, <1>9, <1>10, <1>11, <1>12, <1>13, <1>14, <1>15, <1>16, <1>17, <1>18, <1>19, <1>20, <1>21 DEF Next, Component, SendWait

\* A release keeps VideoCore in use unless it was the last one.
LEMMA ReleaseKeeps ==
  ASSUME usecount \in Int, usecount > 0 => used, Release
  PROVE  usecount' > 0 => used'
<1> SUFFICES ASSUME usecount' > 0 PROVE used'
    OBVIOUS
<1>1. CASE usecount' = usecount - 1 /\ used' = (used /\ usecount # 1)
  <2>1. usecount > 0 /\ usecount # 1
        BY <1>1
  <2> QED
      BY <1>1, <2>1, Zenon
<1>2. CASE UNCHANGED <<usecount, used>>
  <2>1. usecount' = usecount /\ used' = used
        BY <1>2
  <2>2. usecount > 0
        BY <2>1
  <2> QED
      BY <2>1, <2>2, Zenon
<1> QED
    BY <1>1, <1>2 DEF Release

\* A use that does not fail leaves VideoCore in use; one that fails counts.
LEMMA UseKeeps ==
  ASSUME usecount \in Int, misses \in Nat, usecount + misses >= 0,
         misses = 0 /\ usecount > 0 => used, Use
  PROVE  misses' = 0 /\ usecount' > 0 => used'
<1> SUFFICES ASSUME misses' = 0, usecount' > 0 PROVE used'
    OBVIOUS
<1>1. CASE usecount' = usecount + 1 /\ used' = (used \/ usecount = 0) /\ misses' = misses
  <2>1. misses = 0
        BY <1>1
  <2>2. usecount = 0 \/ usecount > 0
        BY <2>1
  <2> QED
      BY <1>1, <2>1, <2>2, Zenon
<1>2. CASE misses' = misses + 1
      BY <1>2
<1> QED
    BY <1>1, <1>2 DEF Use

\* Every step keeps VideoCore awake.
LEMMA AwakeStep == DataOK /\ CountInv /\ AwakeInv /\ [Next]_vars => AwakeInv'
<1> SUFFICES ASSUME DataOK, CountInv, AwakeInv, [Next]_vars PROVE AwakeInv'
    OBVIOUS
<1>0. /\ usecount \in Int /\ misses \in Nat /\ stuck \in Nat /\ refcount \in Nat
      /\ refcount > 0 => usecount + misses >= 0
  <2>1. /\ Count(Busy) \in Nat /\ Count(Claiming) \in Nat
        /\ Count(Sending) \in Nat /\ Count(Opening) \in Nat
        BY CountZero
  <2> QED
      BY <2>1 DEF DataOK, CountInv
<1>a. ASSUME NEW t \in Threads, pc[t] # "idle" PROVE refcount > 0
  <2>1. pc[t] \in Busy
        BY <1>a DEF Busy, DataOK
  <2> QED
      BY <2>1, CountZero DEF CountInv
<1> USE <1>0 DEF AwakeInv, countVars, poolVars
<1>1. ASSUME NEW t \in Threads, InitFirst(t) PROVE AwakeInv'
      BY <1>1 DEF InitFirst
<1>2. ASSUME NEW t \in Threads, InitMore(t) PROVE AwakeInv'
      BY <1>2 DEF InitMore
<1>3. ASSUME NEW t \in Threads, InitReleases(t) PROVE AwakeInv'
  <2>1. refcount > 0 /\ Release /\ UNCHANGED <<inited, refcount, misses>>
        BY <1>3, <1>a DEF InitReleases, Goes
  <2>2. misses = 0 => (usecount' > 0 => used')
        BY <2>1, ReleaseKeeps
  <2> QED
      BY <2>1, <2>2
<1>4. ASSUME NEW t \in Threads, ShmFails(t) PROVE AwakeInv'
      BY <1>4 DEF ShmFails
<1>5. ASSUME NEW t \in Threads, Claim(t) PROVE AwakeInv'
  <2>1. refcount > 0 /\ Use /\ UNCHANGED <<inited, refcount>>
        BY <1>5, <1>a DEF Claim, Goes
  <2>2. misses' = 0 /\ usecount' > 0 => used'
        BY <2>1, UseKeeps
  <2> QED
      BY <2>1, <2>2
<1>6. ASSUME NEW t \in Threads, Call(t) PROVE AwakeInv'
      BY <1>6 DEF Call, Sends
<1>7. ASSUME NEW t \in Threads, Destroy(t) PROVE AwakeInv'
      BY <1>7 DEF Destroy, Sends
<1>8. ASSUME NEW t \in Threads, Unclaim(t) PROVE AwakeInv'
  <2>1. refcount > 0 /\ Release /\ UNCHANGED <<inited, refcount, misses>>
        BY <1>8, <1>a DEF Unclaim, Goes
  <2>2. misses = 0 => (usecount' > 0 => used')
        BY <2>1, ReleaseKeeps
  <2> QED
      BY <2>1, <2>2
<1>9. ASSUME NEW t \in Threads, Deinit(t) PROVE AwakeInv'
  <2>1. refcount > 0 /\ refcount' = refcount - 1 /\ UNCHANGED <<usecount, misses>>
        BY <1>9, <1>a DEF Deinit, Goes
  <2>2. inited' = (refcount # 1) /\ used' = (used /\ refcount # 1)
        BY <1>9 DEF Deinit
  <2>3. inited' <=> refcount' > 0
    <3>1. refcount # 1 <=> refcount' > 0
          BY <2>1
    <3> QED
        BY <2>2, <3>1, Zenon
  <2>4. ASSUME refcount' > 0, misses' = 0, usecount' > 0 PROVE used'
    <3>1. refcount # 1 /\ misses = 0 /\ usecount > 0
          BY <2>1, <2>4
    <3> QED
        BY <2>1, <2>2, <3>1, Zenon
  <2> QED
      BY <2>3, <2>4
<1>10. ASSUME NEW t \in Threads, Take(t) PROVE AwakeInv'
      BY <1>10 DEF Take
<1>11. ASSUME NEW t \in Threads, Scan(t) PROVE AwakeInv'
      BY <1>11 DEF Scan
<1>12. ASSUME NEW t \in Threads, CallUses(t) PROVE AwakeInv'
  <2>1. refcount > 0 /\ Use /\ UNCHANGED <<inited, refcount>>
        BY <1>12, <1>a DEF CallUses, Goes
  <2>2. misses' = 0 /\ usecount' > 0 => used'
        BY <2>1, UseKeeps
  <2> QED
      BY <2>1, <2>2
<1>13. ASSUME NEW t \in Threads, Queue(t) PROVE AwakeInv'
      BY <1>13 DEF Queue
<1>14. ASSUME NEW t \in Threads, QueueFails(t) PROVE AwakeInv'
      BY <1>14 DEF QueueFails
<1>15. ASSUME NEW t \in Threads, Woken(t) PROVE AwakeInv'
      BY <1>15 DEF Woken
<1>16. ASSUME NEW t \in Threads, CallReleases(t) PROVE AwakeInv'
  <2>1. refcount > 0 /\ Release /\ UNCHANGED <<inited, refcount, misses>>
        BY <1>16, <1>a DEF CallReleases, Goes
  <2>2. misses = 0 => (usecount' > 0 => used')
        BY <2>1, ReleaseKeeps
  <2> QED
      BY <2>1, <2>2
<1>17. ASSUME NEW t \in Threads, Clear(t) PROVE AwakeInv'
      BY <1>17 DEF Clear
<1>18. ASSUME NEW t \in Threads, Returns(t) PROVE AwakeInv'
      BY <1>18 DEF Returns
<1>19. ASSUME NEW t \in Threads, DestroyBroken(t) PROVE AwakeInv'
      BY <1>19 DEF DestroyBroken, Sends
<1>20. ASSUME NEW m \in wire, Reply(m) PROVE AwakeInv'
      BY <1>20 DEF Reply
<1>21. CASE UNCHANGED vars
      BY <1>21 DEF vars, countVars, poolVars, threadVars
<1> QED
    BY <1>1, <1>2, <1>3, <1>4, <1>5, <1>6, <1>7, <1>8, <1>9, <1>10, <1>11, <1>12, <1>13, <1>14, <1>15, <1>16, <1>17, <1>18, <1>19, <1>20, <1>21 DEF Next, Component, SendWait

-----------------------------------------------------------------------------
(* The waiters                                                             *)

(* Inductive: a waiter in use belongs to one thread, the one whose buffer  *)
(* it points to.                                                           *)
HolderInv ==
    /\ \A t \in Threads : pc[t] \in Holding => inuse[waiter[t]] /\ dest[waiter[t]] = t
    /\ \A w \in Waiters : inuse[w] => \E t \in Threads : pc[t] \in Holding /\ waiter[t] = w

\* Every step keeps the holders.
LEMMA HolderStep == DataOK /\ BoolOK /\ CountInv /\ HolderInv /\ [Next]_vars => HolderInv'
<1> SUFFICES ASSUME DataOK, BoolOK, CountInv, HolderInv, [Next]_vars PROVE HolderInv'
    OBVIOUS
<1>0. /\ pc \in [Threads -> Places] /\ waiter \in [Threads -> Waiters \union {0}]
      /\ inuse \in [Waiters -> BOOLEAN] /\ dest \in [Waiters -> Threads \union {Nobody}]
      /\ \A t \in Threads : pc[t] \in Holding => waiter[t] \in Waiters
      BY DEF DataOK, BoolOK
<1> USE <1>0 DEF HolderInv, Holding, Goes, countVars, poolVars
<1>1. ASSUME NEW t \in Threads, InitFirst(t) PROVE HolderInv'
  <2>1. \A u \in Threads : pc[u] = "idle"
        BY <1>1, NobodyBusy DEF InitFirst
  <2> QED
      BY <1>1, <2>1 DEF InitFirst
<1>2. ASSUME NEW t \in Threads, InitMore(t) PROVE HolderInv'
      BY <1>2 DEF InitMore
<1>3. ASSUME NEW t \in Threads, InitReleases(t) PROVE HolderInv'
      BY <1>3 DEF InitReleases, Release
<1>4. ASSUME NEW t \in Threads, ShmFails(t) PROVE HolderInv'
      BY <1>4 DEF ShmFails
<1>5. ASSUME NEW t \in Threads, Claim(t) PROVE HolderInv'
      BY <1>5 DEF Claim, Use, Sends
<1>6. ASSUME NEW t \in Threads, Call(t) PROVE HolderInv'
      BY <1>6 DEF Call, Sends
<1>7. ASSUME NEW t \in Threads, Destroy(t) PROVE HolderInv'
      BY <1>7 DEF Destroy, Sends
<1>8. ASSUME NEW t \in Threads, Unclaim(t) PROVE HolderInv'
      BY <1>8 DEF Unclaim, Release
<1>9. ASSUME NEW t \in Threads, Deinit(t) PROVE HolderInv'
      BY <1>9 DEF Deinit
<1>10. ASSUME NEW t \in Threads, Take(t) PROVE HolderInv'
      BY <1>10 DEF Take
<1>11. ASSUME NEW t \in Threads, Scan(t) PROVE HolderInv'
      BY <1>11 DEF Scan
<1>12. ASSUME NEW t \in Threads, CallUses(t) PROVE HolderInv'
      BY <1>12 DEF CallUses, Use
<1>13. ASSUME NEW t \in Threads, Queue(t) PROVE HolderInv'
      BY <1>13 DEF Queue
<1>14. ASSUME NEW t \in Threads, QueueFails(t) PROVE HolderInv'
      BY <1>14 DEF QueueFails
<1>15. ASSUME NEW t \in Threads, Woken(t) PROVE HolderInv'
      BY <1>15 DEF Woken
<1>16. ASSUME NEW t \in Threads, CallReleases(t) PROVE HolderInv'
      BY <1>16 DEF CallReleases, Release
<1>17. ASSUME NEW t \in Threads, Clear(t) PROVE HolderInv'
      BY <1>17 DEF Clear
<1>18. ASSUME NEW t \in Threads, Returns(t) PROVE HolderInv'
      BY <1>18 DEF Returns
<1>19. ASSUME NEW t \in Threads, DestroyBroken(t) PROVE HolderInv'
      BY <1>19 DEF DestroyBroken, Sends
<1>20. ASSUME NEW m \in wire, Reply(m) PROVE HolderInv'
      BY <1>20 DEF Reply
<1>21. CASE UNCHANGED vars
      BY <1>21 DEF vars, countVars, poolVars, threadVars
<1> QED
    BY <1>1, <1>2, <1>3, <1>4, <1>5, <1>6, <1>7, <1>8, <1>9, <1>10, <1>11, <1>12, <1>13, <1>14, <1>15, <1>16, <1>17, <1>18, <1>19, <1>20, <1>21 DEF Next, Component, SendWait

\* Every step keeps requests, replies and waiting threads together.
LEMMA ReplyStep ==
  DataOK /\ CountInv /\ HolderInv /\ HolderInv' /\ EachReplyWakesItsCaller /\ [Next]_vars
      => EachReplyWakesItsCaller'
<1> SUFFICES ASSUME DataOK, CountInv, HolderInv, HolderInv', EachReplyWakesItsCaller, [Next]_vars
             PROVE  EachReplyWakesItsCaller'
    OBVIOUS
<1>0. /\ pc \in [Threads -> Places] /\ waiter \in [Threads -> Waiters \union {0}]
      /\ wsem \in [Waiters -> Nat] /\ wire \subseteq [to : Waiters, from : Threads]
      /\ \A t \in Threads : pc[t] \in Holding => waiter[t] \in Waiters
      BY DEF DataOK
<1> USE <1>0 DEF HolderInv, EachReplyWakesItsCaller, Holding, Goes, countVars, poolVars
<1>1. ASSUME NEW t \in Threads, InitFirst(t) PROVE EachReplyWakesItsCaller'
  <2>1. \A u \in Threads : pc[u] = "idle"
        BY <1>1, NobodyBusy DEF InitFirst
  <2> QED
      BY <1>1, <2>1 DEF InitFirst
<1>2. ASSUME NEW t \in Threads, InitMore(t) PROVE EachReplyWakesItsCaller'
      BY <1>2 DEF InitMore
<1>3. ASSUME NEW t \in Threads, InitReleases(t) PROVE EachReplyWakesItsCaller'
      BY <1>3 DEF InitReleases, Release
<1>4. ASSUME NEW t \in Threads, ShmFails(t) PROVE EachReplyWakesItsCaller'
      BY <1>4 DEF ShmFails
<1>5. ASSUME NEW t \in Threads, Claim(t) PROVE EachReplyWakesItsCaller'
      BY <1>5 DEF Claim, Use, Sends
<1>6. ASSUME NEW t \in Threads, Call(t) PROVE EachReplyWakesItsCaller'
      BY <1>6 DEF Call, Sends
<1>7. ASSUME NEW t \in Threads, Destroy(t) PROVE EachReplyWakesItsCaller'
      BY <1>7 DEF Destroy, Sends
<1>8. ASSUME NEW t \in Threads, Unclaim(t) PROVE EachReplyWakesItsCaller'
      BY <1>8 DEF Unclaim, Release
<1>9. ASSUME NEW t \in Threads, Deinit(t) PROVE EachReplyWakesItsCaller'
      BY <1>9 DEF Deinit
<1>10. ASSUME NEW t \in Threads, Take(t) PROVE EachReplyWakesItsCaller'
      BY <1>10 DEF Take
<1>11. ASSUME NEW t \in Threads, Scan(t) PROVE EachReplyWakesItsCaller'
      BY <1>11 DEF Scan
<1>12. ASSUME NEW t \in Threads, CallUses(t) PROVE EachReplyWakesItsCaller'
      BY <1>12 DEF CallUses, Use
<1>13. ASSUME NEW t \in Threads, Queue(t) PROVE EachReplyWakesItsCaller'
      BY <1>13 DEF Queue
<1>14. ASSUME NEW t \in Threads, QueueFails(t) PROVE EachReplyWakesItsCaller'
      BY <1>14 DEF QueueFails
<1>15. ASSUME NEW t \in Threads, Woken(t) PROVE EachReplyWakesItsCaller'
  <2>1. /\ pc[t] = "wait" /\ waiter[t] \in Waiters /\ wsem[waiter[t]] = 1
        /\ [to |-> waiter[t], from |-> t] \notin wire
        BY <1>15 DEF Woken
  <2>2. /\ wsem' = [wsem EXCEPT ![waiter[t]] = 0] /\ pc' = [pc EXCEPT ![t] = "unuse"]
        /\ UNCHANGED <<inuse, dest, wire, waiter>>
        BY <1>15, <2>1 DEF Woken
  <2>3. \A u \in Threads : u # t /\ pc[u] = "wait" => waiter[u] # waiter[t]
        BY <2>1
  <2>4. \A m \in wire : m.from # t
    <3> SUFFICES ASSUME NEW m \in wire, m.from = t PROVE FALSE
        OBVIOUS
    <3>1. m = [to |-> waiter[t], from |-> t]
          OBVIOUS
    <3> QED
        BY <2>1, <3>1
  <2>5. \A m \in wire' : /\ pc'[m.from] = "wait" /\ waiter'[m.from] = m.to
                         /\ inuse'[m.to] /\ dest'[m.to] = m.from
        BY <2>2, <2>4
  <2>6. \A u \in Threads : pc'[u] = "wait" => u # t /\ pc[u] = "wait"
        BY <2>2
  <2>7. \A w \in Waiters : wsem'[w] > 0 => w # waiter[t] /\ wsem[w] > 0
        BY <2>1, <2>2
  <2>8. \A w \in Waiters : wsem'[w] > 0 => \E u \in Threads : pc'[u] = "wait" /\ waiter'[u] = w
        BY <2>2, <2>7
  <2> QED
      BY <2>2, <2>3, <2>5, <2>6, <2>8
<1>16. ASSUME NEW t \in Threads, CallReleases(t) PROVE EachReplyWakesItsCaller'
      BY <1>16 DEF CallReleases, Release
<1>17. ASSUME NEW t \in Threads, Clear(t) PROVE EachReplyWakesItsCaller'
      BY <1>17 DEF Clear
<1>18. ASSUME NEW t \in Threads, Returns(t) PROVE EachReplyWakesItsCaller'
      BY <1>18 DEF Returns
<1>19. ASSUME NEW t \in Threads, DestroyBroken(t) PROVE EachReplyWakesItsCaller'
      BY <1>19 DEF DestroyBroken, Sends
<1>20. ASSUME NEW m \in wire, Reply(m) PROVE EachReplyWakesItsCaller'
      BY <1>20 DEF Reply
<1>21. CASE UNCHANGED vars
      BY <1>21 DEF vars, countVars, poolVars, threadVars
<1> QED
    BY <1>1, <1>2, <1>3, <1>4, <1>5, <1>6, <1>7, <1>8, <1>9, <1>10, <1>11, <1>12, <1>13, <1>14, <1>15, <1>16, <1>17, <1>18, <1>19, <1>20, <1>21 DEF Next, Component, SendWait

-----------------------------------------------------------------------------
(* The theorems                                                            *)

ClientInv == BoolOK /\ DataOK /\ CountInv /\ AwakeInv /\ HolderInv /\ EachReplyWakesItsCaller

\* The service is closed at first and nobody has a component.
LEMMA ClientInit == Init => ClientInv
<1> SUFFICES ASSUME Init PROVE ClientInv
    OBVIOUS
<1>1. \A t \in Threads : pc[t] = "idle"
      BY DEF Init
<1>2. BoolOK
      BY DEF Init, BoolOK
<1>3. DataOK
  <2>1. NoReply \in [from : Threads \union {Nobody}, ok : BOOLEAN]
        BY DEF NoReply
  <2>2. got \in [Threads -> [from : Threads \union {Nobody}, ok : BOOLEAN]]
        BY <2>1 DEF Init
  <2> QED
      BY <2>2 DEF Init, DataOK, Places, Holding
<1>4. CountInv
  <2>1. \A t \in Threads : pc[t] \notin Busy
        BY <1>1 DEF Busy
  <2> QED
      BY <2>1, CountZero DEF Init, CountInv
<1>5. AwakeInv
      BY DEF Init, AwakeInv
<1>6. HolderInv
      BY DEF Init, HolderInv, Holding
<1>7. EachReplyWakesItsCaller
      BY DEF Init, EachReplyWakesItsCaller
<1> QED
    BY <1>2, <1>3, <1>4, <1>5, <1>6, <1>7 DEF ClientInv

\* Every step keeps the whole invariant.
LEMMA ClientStep == ClientInv /\ [Next]_vars => ClientInv'
  BY BoolStep, DataStep, CountStep, AwakeStep, HolderStep, ReplyStep DEF ClientInv

\* The state of the client is well typed: in particular the reference count and
\* the semaphore never become negative.
THEOREM TypeCorrect == Spec => []TypeOK
<1>1. ClientInv => TypeOK
  <2>1. CountInv => refcount \in Nat /\ sem \in Nat
        BY CountZero DEF CountInv
  <2> QED
      BY <2>1, TypeParts DEF ClientInv
<1> QED
    BY <1>1, ClientInit, ClientStep, PTL DEF Spec

\* A unit of the semaphore is as good as a waiter: get_waiter always finds one.
\* The waiters in use belong to different threads with a unit, and the thread that
\* looks has a unit and no waiter.
THEOREM WaiterFound == Spec => []WaiterAlwaysThere
<1>1. ASSUME ClientInv, NEW t \in Threads, pc[t] = "scan", \A w \in Waiters : inuse[w] PROVE FALSE
  <2> DEFINE holders == In(Granted) \ {t}
             f == [w \in Waiters |-> CHOOSE u \in Threads : pc[u] \in Holding /\ waiter[u] = w]
  <2>1. MAX_WAITERS \in Nat /\ Waiters = 1..MAX_WAITERS
        BY ClientAssumption DEF Waiters
  <2>2. IsFiniteSet(Waiters) /\ Cardinality(Waiters) = MAX_WAITERS
        BY <2>1, FS_Interval
  <2>3. /\ IsFiniteSet(holders) /\ Cardinality(holders) = Count(Granted) - 1
        /\ Count(Granted) \in Nat
    <3>1. IsFiniteSet(In(Granted))
          BY ClientAssumption, FS_Subset DEF In
    <3>2. t \in In(Granted)
          BY <1>1 DEF In, Granted, Calling
    <3> QED
        BY <3>1, <3>2, FS_RemoveElement, FS_CardinalityType DEF Count
  <2>4. Count(Granted) <= MAX_WAITERS
    <3>1. pc[t] \in Busy
          BY <1>1 DEF Busy, Places, Calling
    <3>2. refcount > 0
          BY <1>1, <3>1, CountZero DEF ClientInv, CountInv
    <3> QED
        BY <1>1, <2>1, <2>3, <3>2 DEF ClientInv, CountInv
  <2>5. \A w \in Waiters : pc[f[w]] \in Holding /\ waiter[f[w]] = w /\ f[w] \in Threads
        BY <1>1 DEF ClientInv, HolderInv
  <2>6. \A w \in Waiters : f[w] \in holders
        BY <1>1, <2>5 DEF In, Granted, Holding, Calling
  <2>7. f \in [Waiters -> holders]
        BY <2>6
  <2>8. Cardinality(holders) < Cardinality(Waiters)
        BY <2>1, <2>2, <2>3, <2>4
  <2> HIDE DEF holders, f
  <2>9. PICK v \in Waiters, w \in Waiters : v # w /\ f[v] = f[w]
        BY <2>2, <2>3, <2>7, <2>8, FS_PigeonHole
  <2> QED
      BY <2>5, <2>9
<1>2. ClientInv => WaiterAlwaysThere
      BY <1>1 DEF WaiterAlwaysThere
<1> QED
    BY <1>2, ClientInit, ClientStep, PTL DEF Spec

\* Every reply finds its caller waiting, and wakes nobody else.
THEOREM RepliesReachCallers == Spec => []EachReplyWakesItsCaller
<1>1. ClientInv => EachReplyWakesItsCaller
      BY DEF ClientInv
<1> QED
    BY <1>1, ClientInit, ClientStep, PTL DEF Spec

\* The use count is exact but for failures, and without a failed use VideoCore is
\* awake whenever somebody needs it.
THEOREM VideoCoreAwake == Spec => []AwakeWhileNeeded
<1>1. ASSUME ClientInv PROVE AwakeWhileNeeded
  <2>1. Claims = In(Claiming) /\ InCall = In(Sending) /\ Opened = In(Opening)
        BY <1>1 DEF ClientInv, DataOK, Claims, InCall, Opened, In, Claiming, Sending, Opening
  <2>2. inited <=> refcount > 0
        BY <1>1 DEF ClientInv, AwakeInv
  <2>3. refcount > 0 => usecount + misses = stuck + Cardinality(Claims) + Cardinality(InCall) + Cardinality(Opened)
        BY <1>1, <2>1 DEF ClientInv, CountInv, Count
  <2>4. ASSUME misses = 0, NEW t \in Claims \union Opened PROVE used
    <3>1. pc[t] \in Busy /\ (pc[t] \in Claiming \/ pc[t] \in Opening) /\ t \in Threads
          BY <2>1, <2>4 DEF In, Claiming, Opening, Busy, Places
    <3>2. refcount > 0
          BY <1>1, <3>1, CountZero DEF ClientInv, CountInv
    <3>3. Count(Claiming) + Count(Sending) + Count(Opening) > 0
          BY <3>1, CountZero
    <3>4. usecount > 0
          BY <1>1, <2>4, <3>2, <3>3, CountZero DEF ClientInv, CountInv, DataOK
    <3> QED
        BY <1>1, <2>4, <3>2, <3>4 DEF ClientInv, AwakeInv
  <2>5. inited => usecount + misses = stuck + Cardinality(Claims) + Cardinality(InCall) + Cardinality(Opened)
        BY <2>2, <2>3, Zenon
  <2>6. misses = 0 => \A t \in Claims \union Opened : used
        BY <2>4
  <2> QED
      BY <2>5, <2>6, Zenon DEF AwakeWhileNeeded
<1> QED
    BY <1>1, ClientInit, ClientStep, PTL DEF Spec

-----------------------------------------------------------------------------
(* Refinement                                                              *)

\* a request of this thread is on its way
Asking(t) == [to |-> waiter[t], from |-> t] \in wire

(* Inductive: a reply buffer holds nothing or the answer to its owner's    *)
(* call, and it holds it once VideoCore has answered.                      *)
AnswerInv == \A t \in Threads :
    /\ got[t].from \in {Nobody, t}
    /\ got[t].from = t => pc[t] \in {"wait", "unuse", "clear", "post"}
    /\ pc[t] = "wait" => (got[t].from = t <=> ~Asking(t))

\* Every step keeps the answers.
LEMMA AnswerStep == ClientInv /\ AnswerInv /\ [Next]_vars => AnswerInv'
<1> SUFFICES ASSUME ClientInv, AnswerInv, [Next]_vars PROVE AnswerInv'
    OBVIOUS
<1>0. /\ pc \in [Threads -> Places] /\ waiter \in [Threads -> Waiters \union {0}]
      /\ wire \subseteq [to : Waiters, from : Threads] /\ Nobody \notin Threads
      /\ got \in [Threads -> [from : Threads \union {Nobody}, ok : BOOLEAN]]
      /\ \A m \in wire : pc[m.from] = "wait"
      /\ EachReplyWakesItsCaller
      BY ClientAssumption DEF ClientInv, DataOK, EachReplyWakesItsCaller
<1> USE <1>0 DEF AnswerInv, Asking, Goes, Places, Calling, countVars, poolVars
<1>1. ASSUME NEW t \in Threads, InitFirst(t) PROVE AnswerInv'
      BY <1>1 DEF InitFirst
<1>2. ASSUME NEW t \in Threads, InitMore(t) PROVE AnswerInv'
      BY <1>2 DEF InitMore
<1>3. ASSUME NEW t \in Threads, InitReleases(t) PROVE AnswerInv'
      BY <1>3 DEF InitReleases, Release
<1>4. ASSUME NEW t \in Threads, ShmFails(t) PROVE AnswerInv'
      BY <1>4 DEF ShmFails
<1>5. ASSUME NEW t \in Threads, Claim(t) PROVE AnswerInv'
      BY <1>5 DEF Claim, Use, Sends
<1>6. ASSUME NEW t \in Threads, Call(t) PROVE AnswerInv'
      BY <1>6 DEF Call, Sends
<1>7. ASSUME NEW t \in Threads, Destroy(t) PROVE AnswerInv'
      BY <1>7 DEF Destroy, Sends
<1>8. ASSUME NEW t \in Threads, Unclaim(t) PROVE AnswerInv'
      BY <1>8 DEF Unclaim, Release
<1>9. ASSUME NEW t \in Threads, Deinit(t) PROVE AnswerInv'
      BY <1>9 DEF Deinit
<1>10. ASSUME NEW t \in Threads, Take(t) PROVE AnswerInv'
      BY <1>10 DEF Take
<1>11. ASSUME NEW t \in Threads, Scan(t) PROVE AnswerInv'
      BY <1>11 DEF Scan
<1>12. ASSUME NEW t \in Threads, CallUses(t) PROVE AnswerInv'
      BY <1>12 DEF CallUses, Use
<1>13. ASSUME NEW t \in Threads, Queue(t) PROVE AnswerInv'
      BY <1>13 DEF Queue
<1>14. ASSUME NEW t \in Threads, QueueFails(t) PROVE AnswerInv'
      BY <1>14 DEF QueueFails
<1>15. ASSUME NEW t \in Threads, Woken(t) PROVE AnswerInv'
      BY <1>15 DEF Woken
<1>16. ASSUME NEW t \in Threads, CallReleases(t) PROVE AnswerInv'
      BY <1>16 DEF CallReleases, Release
<1>17. ASSUME NEW t \in Threads, Clear(t) PROVE AnswerInv'
      BY <1>17 DEF Clear
<1>18. ASSUME NEW t \in Threads, Returns(t) PROVE AnswerInv'
  <2>1. got' = [got EXCEPT ![t] = NoReply] /\ NoReply.from = Nobody /\ UNCHANGED wire
        BY <1>18 DEF Returns, NoReply
  <2>2. \A u \in Threads : IF u = t THEN pc'[u] \notin Calling ELSE pc'[u] = pc[u] /\ waiter'[u] = waiter[u]
        BY <1>18 DEF Returns
  <2> QED
      BY <2>1, <2>2
<1>19. ASSUME NEW t \in Threads, DestroyBroken(t) PROVE AnswerInv'
      BY <1>19 DEF DestroyBroken, Sends
<1>20. ASSUME NEW m \in wire, Reply(m) PROVE AnswerInv'
  <2>1. /\ m.from \in Threads /\ pc[m.from] = "wait" /\ waiter[m.from] = m.to
        /\ dest[m.to] = m.from /\ m = [to |-> waiter[m.from], from |-> m.from]
        BY DEF EachReplyWakesItsCaller
  <2>2. \A u \in Threads : got'[u].from = IF u = m.from THEN u ELSE got[u].from
        BY <1>20, <2>1 DEF Reply
  <2>3. \A u \in Threads : Asking(u)' <=> Asking(u) /\ u # m.from
        BY <1>20, <2>1 DEF Reply
  <2>4. pc' = pc
        BY <1>20 DEF Reply
  <2> QED
      BY <2>1, <2>2, <2>3, <2>4, ZenonT(60)
<1>21. CASE UNCHANGED vars
      BY <1>21 DEF vars, countVars, poolVars, threadVars
<1> QED
    BY <1>1, <1>2, <1>3, <1>4, <1>5, <1>6, <1>7, <1>8, <1>9, <1>10, <1>11, <1>12, <1>13, <1>14, <1>15, <1>16, <1>17, <1>18, <1>19, <1>20, <1>21 DEF Next, Component, SendWait

\* A step that touches one call changes only its view.
LEMMA Viewed ==
  ASSUME NEW t \in Threads, \A u \in Threads : u # t => pc'[u] = pc[u] /\ got'[u].from = got[u].from
  PROVE  callState' = [callState EXCEPT ![t] = callState'[t]]
<1>1. \A u \in Threads : u # t => callState'[u] = callState[u]
      BY DEF callState, Calling
<1>2. /\ callState = [u \in Threads |-> callState[u]]
      /\ callState' = [u \in Threads |-> callState'[u]]
      BY DEF callState
<1> QED
    BY <1>1, <1>2

\* Every step is a step of some call, as its caller sees it, or a stutter.
LEMMA CallStep == ClientInv /\ AnswerInv /\ [Next]_vars => [Abstract!Next]_callState
<1> SUFFICES ASSUME ClientInv, AnswerInv, [Next]_vars PROVE Abstract!Next \/ callState' = callState
    OBVIOUS
<1>0. /\ pc \in [Threads -> Places] /\ waiter \in [Threads -> Waiters \union {0}]
      /\ wire \subseteq [to : Waiters, from : Threads] /\ Nobody \notin Threads
      /\ got \in [Threads -> [from : Threads \union {Nobody}, ok : BOOLEAN]]
      /\ \A t \in Threads : /\ got[t].from \in {Nobody, t}
                            /\ got[t].from = t => pc[t] \in {"wait", "unuse", "clear", "post"}
                            /\ pc[t] = "wait" => (got[t].from = t <=> ~Asking(t))
                            /\ pc[t] = "wait" /\ ~Asking(t) => wsem[waiter[t]] = 1
                            /\ pc[t] = "wait" /\ Asking(t) => wsem[waiter[t]] = 0
      /\ EachReplyWakesItsCaller
      BY ClientAssumption DEF ClientInv, DataOK, EachReplyWakesItsCaller, AnswerInv, Asking
<1> USE <1>0 DEF Goes, Places, Calling, Abstract!Next, Abstract!Moves, countVars, poolVars
<1>1. ASSUME NEW t \in Threads, InitFirst(t) PROVE Abstract!Next \/ callState' = callState
      BY <1>1, ZenonT(60) DEF InitFirst, callState
<1>2. ASSUME NEW t \in Threads, InitMore(t) PROVE Abstract!Next \/ callState' = callState
      BY <1>2, ZenonT(60) DEF InitMore, callState
<1>3. ASSUME NEW t \in Threads, InitReleases(t) PROVE Abstract!Next \/ callState' = callState
      BY <1>3, ZenonT(60) DEF InitReleases, callState
<1>4. ASSUME NEW t \in Threads, ShmFails(t) PROVE Abstract!Next \/ callState' = callState
      BY <1>4, ZenonT(60) DEF ShmFails, callState
<1>5. ASSUME NEW t \in Threads, Claim(t) PROVE Abstract!Next \/ callState' = callState
  <2>1. \A u \in Threads : u # t => pc'[u] = pc[u] /\ got'[u].from = got[u].from
        BY <1>5 DEF Claim, Sends
  <2>2. callState[t] = "idle" /\ callState'[t] = "called"
        BY <1>5 DEF Claim, Sends, callState
  <2>3. callState' = [callState EXCEPT ![t] = callState'[t]]
        BY <2>1, Viewed
  <2> QED
      BY <2>2, <2>3 DEF Abstract!Call
<1>6. ASSUME NEW t \in Threads, Call(t) PROVE Abstract!Next \/ callState' = callState
  <2>1. \A u \in Threads : u # t => pc'[u] = pc[u] /\ got'[u].from = got[u].from
        BY <1>6 DEF Call, Sends
  <2>2. callState[t] = "idle" /\ callState'[t] = "called"
        BY <1>6 DEF Call, Sends, callState
  <2>3. callState' = [callState EXCEPT ![t] = callState'[t]]
        BY <2>1, Viewed
  <2> QED
      BY <2>2, <2>3 DEF Abstract!Call
<1>7. ASSUME NEW t \in Threads, Destroy(t) PROVE Abstract!Next \/ callState' = callState
  <2>1. \A u \in Threads : u # t => pc'[u] = pc[u] /\ got'[u].from = got[u].from
        BY <1>7 DEF Destroy, Sends
  <2>2. callState[t] = "idle" /\ callState'[t] = "called"
        BY <1>7 DEF Destroy, Sends, callState
  <2>3. callState' = [callState EXCEPT ![t] = callState'[t]]
        BY <2>1, Viewed
  <2> QED
      BY <2>2, <2>3 DEF Abstract!Call
<1>8. ASSUME NEW t \in Threads, Unclaim(t) PROVE Abstract!Next \/ callState' = callState
      BY <1>8, ZenonT(60) DEF Unclaim, callState
<1>9. ASSUME NEW t \in Threads, Deinit(t) PROVE Abstract!Next \/ callState' = callState
      BY <1>9, ZenonT(60) DEF Deinit, callState
<1>10. ASSUME NEW t \in Threads, Take(t) PROVE Abstract!Next \/ callState' = callState
      BY <1>10, ZenonT(60) DEF Take, callState
<1>11. ASSUME NEW t \in Threads, Scan(t) PROVE Abstract!Next \/ callState' = callState
      BY <1>11, ZenonT(60) DEF Scan, callState
<1>12. ASSUME NEW t \in Threads, CallUses(t) PROVE Abstract!Next \/ callState' = callState
      BY <1>12, ZenonT(60) DEF CallUses, callState
<1>13. ASSUME NEW t \in Threads, Queue(t) PROVE Abstract!Next \/ callState' = callState
      BY <1>13, ZenonT(60) DEF Queue, callState
<1>14. ASSUME NEW t \in Threads, QueueFails(t) PROVE Abstract!Next \/ callState' = callState
  <2>1. \A u \in Threads : u # t => pc'[u] = pc[u] /\ got'[u].from = got[u].from
        BY <1>14 DEF QueueFails
  <2>2. callState[t] = "called" /\ callState'[t] = "refused"
        BY <1>14 DEF QueueFails, callState
  <2>3. callState' = [callState EXCEPT ![t] = callState'[t]]
        BY <2>1, Viewed
  <2> QED
      BY <2>2, <2>3 DEF Abstract!Refuse
<1>15. ASSUME NEW t \in Threads, Woken(t) PROVE Abstract!Next \/ callState' = callState
  <2>1. \A u \in Threads : u # t => pc'[u] = pc[u] /\ got'[u].from = got[u].from
        BY <1>15 DEF Woken
  <2>2. got[t].from = t
        BY <1>15 DEF Woken
  <2>3. callState[t] = "answered" /\ callState'[t] = "answered"
        BY <1>15, <2>2 DEF Woken, callState
  <2>4. callState' = [callState EXCEPT ![t] = callState'[t]]
        BY <2>1, Viewed
  <2>5. callState = [u \in Threads |-> callState[u]]
        BY DEF callState
  <2> QED
      BY <2>3, <2>4, <2>5
<1>16. ASSUME NEW t \in Threads, CallReleases(t) PROVE Abstract!Next \/ callState' = callState
      BY <1>16, ZenonT(60) DEF CallReleases, callState
<1>17. ASSUME NEW t \in Threads, Clear(t) PROVE Abstract!Next \/ callState' = callState
      BY <1>17, ZenonT(60) DEF Clear, callState
<1>18. ASSUME NEW t \in Threads, Returns(t) PROVE Abstract!Next \/ callState' = callState
  <2>1. \A u \in Threads : u # t => pc'[u] = pc[u] /\ got'[u].from = got[u].from
        BY <1>18 DEF Returns
  <2>2. callState[t] \in {"answered", "refused"} /\ callState'[t] = "idle"
        BY <1>18 DEF Returns, callState
  <2>3. callState' = [callState EXCEPT ![t] = callState'[t]]
        BY <2>1, Viewed
  <2> QED
      BY <2>2, <2>3 DEF Abstract!Return
<1>19. ASSUME NEW t \in Threads, DestroyBroken(t) PROVE Abstract!Next \/ callState' = callState
  <2>1. \A u \in Threads : u # t => pc'[u] = pc[u] /\ got'[u].from = got[u].from
        BY <1>19 DEF DestroyBroken, Sends
  <2>2. callState[t] = "idle" /\ callState'[t] = "called"
        BY <1>19 DEF DestroyBroken, Sends, callState
  <2>3. callState' = [callState EXCEPT ![t] = callState'[t]]
        BY <2>1, Viewed
  <2> QED
      BY <2>2, <2>3 DEF Abstract!Call
<1>20. ASSUME NEW m \in wire, Reply(m) PROVE Abstract!Next \/ callState' = callState
  <2>1. /\ m.from \in Threads /\ pc[m.from] = "wait" /\ dest[m.to] = m.from
        /\ waiter[m.from] = m.to /\ m = [to |-> waiter[m.from], from |-> m.from]
        BY DEF EachReplyWakesItsCaller
  <2>2. /\ \A u \in Threads : got'[u].from = IF u = m.from THEN u ELSE got[u].from
        /\ pc' = pc
        BY <1>20, <2>1 DEF Reply
  <2>3. got[m.from].from = Nobody
        BY <2>1 DEF Asking
  <2>4. callState[m.from] = "called" /\ callState'[m.from] = "answered"
        BY <2>1, <2>2, <2>3 DEF callState
  <2>5. callState' = [callState EXCEPT ![m.from] = callState'[m.from]]
        BY <2>1, <2>2, Viewed
  <2> QED
      BY <2>1, <2>4, <2>5 DEF Abstract!Answer
<1>21. CASE UNCHANGED vars
      BY <1>21 DEF vars, threadVars, callState
<1> QED
    BY <1>1, <1>2, <1>3, <1>4, <1>5, <1>6, <1>7, <1>8, <1>9, <1>10, <1>11, <1>12, <1>13, <1>14, <1>15, <1>16, <1>17, <1>18, <1>19, <1>20, <1>21 DEF Next, Component, SendWait

\* Every call gets its own answer, once, or is refused, and only then returns.
THEOREM ClientImplementsCalls == Spec => ImplementsRemoteCalls
<1>1. Init => AnswerInv
      BY ClientAssumption DEF Init, AnswerInv, NoReply
<1>2. Init => Abstract!Init
      BY DEF Init, Abstract!Init, callState, Calling
<1>3. Spec => Abstract!Spec
      BY <1>1, <1>2, ClientInit, ClientStep, AnswerStep, CallStep, PTL DEF Spec, Abstract!Spec
<1> QED
    BY <1>3 DEF ImplementsRemoteCalls
=============================================================================
