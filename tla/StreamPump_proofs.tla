-------------------------- MODULE StreamPump_proofs --------------------------
(***************************************************************************)
(* The camera callback needs nothing but the pool, for every capacity,     *)
(* buffer size and set of fragments.                                       *)
(***************************************************************************)
EXTENDS StreamPump, SequenceTheorems, TLAPS

(* Inductive: the lists hold buffers of the pool only, all of them, and at *)
(* most one is outside the free list.                                      *)
PumpInv == /\ ~crashed
           /\ inited \in BOOLEAN
           /\ free \in Seq(Pool) /\ pending \in Seq(Pool) /\ encoded \in Seq(Pool)
           /\ Len(pending) + Len(encoded) <= 1
           /\ inited => Len(free) + Len(pending) + Len(encoded) = Capacity
           /\ live \cap Temporaries = {}
           /\ step \in {"write", "read"}
           /\ ~inited => step = "write"
           /\ step = "write" => encoded = <<>>

\* A pool buffer is never one that the queue deletes on return.
LEMMA PoolIsPermanent == ASSUME NEW b \in Pool PROVE ~IsTemporary(b)
  BY QueueAssumption DEF Pool, IsTemporary

\* Arithmetic of the frame budget: at most one frame, and some, is exactly one.
LEMMA OnlyOne == ASSUME NEW m \in Nat, NEW n \in Nat, m + n <= 1, n # 0
                 PROVE  m = 0 /\ n = 1
  OBVIOUS

\* The invariant holds before the queue is initialised.
LEMMA PumpInvInit == PumpInit => PumpInv
<1> SUFFICES ASSUME PumpInit PROVE PumpInv
    OBVIOUS
<1>1. free = <<>> /\ pending = <<>> /\ encoded = <<>>
      BY DEF PumpInit, Init
<1>2. <<>> \in Seq(Pool) /\ Len(<<>>) = 0
      BY EmptySeq
<1>3. Len(pending) + Len(encoded) <= 1
      BY <1>1, <1>2
<1>4. /\ ~crashed /\ inited = FALSE /\ live = {} /\ step = "write"
      BY DEF PumpInit, Init
<1> QED
    BY <1>1, <1>2, <1>3, <1>4 DEF PumpInv

\* A fragment written by the encoder leaves every pool buffer accounted for.
LEMMA WriteKeepsPool ==
  ASSUME PumpInv, NEW f \in Fragments, WriteFragment(f)
  PROVE  PumpInv'
<1>1. /\ inited /\ step = "write" /\ encoded = <<>> /\ step' = "read"
      /\ WriteBack(f) /\ ~crashed
      BY DEF WriteFragment, PumpInv
<1>2. Len(free) \in Nat /\ Len(pending) \in Nat /\ Len(encoded) = 0
      BY <1>1, LenProperties, EmptySeq DEF PumpInv
<1>a. Len(pending) \in Nat
      BY <1>2
<1>3. Capacity \in Nat \ {0}
      BY QueueAssumption, PumpAssumption
<1>4. CASE Ignore(f)
      BY <1>1, <1>4 DEF Ignore, PumpInv, vars
<1>5. ASSUME Extends(f)
      PROVE  Len(pending) = 1 /\ pending[1] \in Pool
  <2>1. Len(pending) # 0
        BY <1>5, EmptySeq DEF Extends, PumpInv
  <2>2. Len(pending) + Len(encoded) <= 1 /\ Len(encoded) \in Nat
        BY <1>2 DEF PumpInv
  <2>3. Len(pending) = 1
        BY <2>1, <2>2, <1>a
  <2>4. pending \in Seq(Pool) /\ 1 \in 1..Len(pending)
        BY <2>3 DEF PumpInv
  <2> QED
      BY <2>3, <2>4, ElementOfSeq, Zenon
<1>6. CASE GiveUp(f)
  <2>1. Len(pending) = 1 /\ pending[1] \in Pool
        BY <1>5, <1>6 DEF GiveUp
  <2>2. free' \in Seq(Pool) /\ Len(free') = Len(free) + 1
        BY <2>1, <1>6, AppendProperties DEF GiveUp, PumpInv
  <2>3. pending' = <<>> /\ pending' \in Seq(Pool) /\ Len(pending') = 0
        BY <1>6, EmptySeq DEF GiveUp
  <2> QED
      BY <2>1, <2>2, <2>3, <1>1, <1>2, <1>6 DEF GiveUp, PumpInv
<1>7. CASE AppendPart(f)
  <2>1. Len(pending) = 1 /\ pending[1] \in Pool
        BY <1>5, <1>7 DEF AppendPart
  <2>2. CASE "End" \in f.flags
    <3>1. pending' = <<>> /\ pending' \in Seq(Pool) /\ Len(pending') = 0
          BY <1>7, <2>2, EmptySeq DEF AppendPart
    <3>2. encoded' \in Seq(Pool) /\ Len(encoded') = Len(encoded) + 1
          BY <1>7, <2>1, <2>2, AppendProperties DEF AppendPart, PumpInv
    <3> QED
        BY <3>1, <3>2, <2>1, <1>1, <1>2, <1>7 DEF AppendPart, PumpInv
  <2>3. CASE "End" \notin f.flags
        BY <2>3, <1>1, <1>7 DEF AppendPart, PumpInv
  <2> QED
      BY <2>2, <2>3
<1>8. ASSUME Starts(f)
      PROVE  Len(pending) = 0 /\ Len(free) = Capacity /\ free[1] \in Pool /\ ~IsTemporary(free[1])
  <2>1. Len(pending) = 0
        BY <1>8, EmptySeq DEF Starts
  <2>2. Len(free) = Capacity
        BY <2>1, <1>1, <1>2, <1>3 DEF PumpInv
  <2>3. free[1] \in Pool
        BY <2>2, <1>3, ElementOfSeq DEF PumpInv
  <2> QED
      BY <2>1, <2>2, <2>3, PoolIsPermanent
<1>9. ASSUME StartTemporary(f) PROVE FALSE
      BY <1>8, <1>9, <1>3, EmptySeq DEF StartTemporary
<1>10. ASSUME Crash(f) PROVE FALSE
      BY <1>8, <1>10, <1>3 DEF Crash
<1>11. ASSUME NEW k \in 1..Len(free),
              FirstOfPool(k),
              live' = live \ {free[i] : i \in 1..(k - 1)},
              free' = SubSeq(free, k + 1, Len(free)),
              Store(free[k], f),
              Starts(f), inited' = inited, crashed' = crashed
       PROVE  PumpInv'
  <2>1. k = 1
        BY <1>2, <1>8, <1>11 DEF FirstOfPool
  <2>2. free' \in Seq(Pool) /\ Len(free') = Len(free) - 1
    <3>1. \A i \in 2..Len(free) : free[i] \in Pool
          BY <1>2, ElementOfSeq DEF PumpInv
    <3> QED
        BY <3>1, <2>1, <1>2, <1>3, <1>8, <1>11, SubSeqProperties
  <2>3. live' \cap Temporaries = {}
        BY <1>11 DEF PumpInv
  <2>4. CASE "Config" \in f.flags
    <3>1. pending' = <<free[1]>> /\ encoded' = encoded
          BY <1>11, <2>1, <2>4 DEF Store
    <3>2. pending' \in Seq(Pool) /\ Len(pending') = 1
          BY <3>1, <1>8, <1>11
    <3> QED
        BY <3>1, <3>2, <2>2, <2>3, <1>1, <1>2, <1>8, <1>11 DEF PumpInv
  <2>5. CASE "Config" \notin f.flags
    <3>1. encoded' = Append(encoded, free[1]) /\ pending' = pending
          BY <1>11, <2>1, <2>5 DEF Store
    <3>2. encoded' \in Seq(Pool) /\ Len(encoded') = 1
          BY <3>1, <1>2, <1>8, <1>11, AppendProperties DEF PumpInv
    <3> QED
        BY <3>1, <3>2, <2>2, <2>3, <1>1, <1>2, <1>8, <1>11 DEF PumpInv
  <2> QED
      BY <2>4, <2>5
<1>12. CASE StartFree(f)
       BY <1>11, <1>12 DEF StartFree
<1> QED
    BY <1>1, <1>4, <1>6, <1>7, <1>9, <1>10, <1>12 DEF WriteBack

\* Every step of the pump preserves the invariant.
LEMMA PumpInvStep == PumpInv /\ [PumpNext]_pumpVars => PumpInv'
<1> SUFFICES ASSUME PumpInv, [PumpNext]_pumpVars PROVE PumpInv'
    OBVIOUS
<1>1. CASE Setup
  <2>1. /\ free' \in Seq(Pool) /\ Len(free') = Capacity
        /\ pending' = <<>> /\ encoded' = <<>>
        BY <1>1, QueueAssumption DEF Setup, InitQueue, Pool
  <2>2. <<>> \in Seq(Pool) /\ Len(<<>>) = 0
        BY EmptySeq
  <2>3. live' \cap Temporaries = {}
        BY <1>1, QueueAssumption DEF Setup, InitQueue, PumpInv, Pool
  <2> QED
      BY <1>1, <2>1, <2>2, <2>3, QueueAssumption DEF Setup, InitQueue, PumpInv
<1>2. CASE ReadFrame
  <2>1. CASE encoded = <<>>
        BY <1>2, <2>1 DEF ReadFrame, ReadFront, PumpInv, vars
  <2>2. CASE encoded # <<>>
    <3>0. free \in Seq(Pool) /\ pending \in Seq(Pool) /\ encoded \in Seq(Pool)
          BY DEF PumpInv
    <3>a. /\ Len(pending) \in Nat /\ Len(free) \in Nat
          /\ Len(encoded) \in Nat /\ Len(encoded) # 0
          BY <3>0, <2>2, LenProperties, EmptySeq
    <3>b. Len(pending) + Len(encoded) <= 1
          BY DEF PumpInv
    <3>1. Len(pending) = 0 /\ Len(encoded) = 1
          BY <3>a, <3>b, OnlyOne, Zenon
    <3>2. Head(encoded) \in Pool /\ Tail(encoded) \in Seq(Pool) /\ Len(Tail(encoded)) = 0
          BY <2>2, <3>0, <3>1, HeadTailProperties
    <3>3. free' = Append(free, Head(encoded)) /\ encoded' = Tail(encoded)
          BY <1>2, <2>2 DEF ReadFrame, ReadFront
    <3>4. free' \in Seq(Pool) /\ Len(free') = Len(free) + 1
          BY <3>0, <3>2, <3>3, AppendProperties
    <3>5. encoded' = <<>> /\ encoded' \in Seq(Pool) /\ Len(encoded') = 0
          BY <3>2, <3>3, EmptySeq
    <3>6. /\ step' = "write" /\ pending' = pending /\ inited' = inited
          /\ live' = live /\ crashed' = crashed
          BY <1>2, <2>2 DEF ReadFrame, ReadFront
    <3>7. inited' => Len(free') + Len(pending') + Len(encoded') = Capacity
          BY <3>a, <3>1, <3>4, <3>5, <3>6 DEF PumpInv
    <3>8. Len(pending') + Len(encoded') <= 1
          BY <3>1, <3>5, <3>6
    <3> QED
        BY <3>4, <3>5, <3>6, <3>7, <3>8 DEF PumpInv
  <2> QED
      BY <2>1, <2>2
<1>3. ASSUME NEW f \in Fragments, WriteFragment(f) PROVE PumpInv'
      BY <1>3, WriteKeepsPool
<1>4. CASE UNCHANGED pumpVars
      BY <1>4 DEF pumpVars, vars, PumpInv
<1> QED
    BY <1>1, <1>2, <1>3, <1>4 DEF PumpNext

(* Whatever the encoder delivers, the callback never allocates a temporary *)
(* buffer and never runs into the empty free list.                         *)
THEOREM PoolAlwaysSuffices == PumpSpec => []PoolSuffices
<1>1. PumpInv => PoolSuffices
      BY DEF PumpInv, PoolSuffices
<1> QED
    BY <1>1, PumpInvInit, PumpInvStep, PTL DEF PumpSpec

(* No frame waits in the queue between two callbacks.                      *)
THEOREM ReaderNeverLags == PumpSpec => []NothingLeftBehind
<1>1. PumpInv => NothingLeftBehind
      BY DEF PumpInv, NothingLeftBehind
<1> QED
    BY <1>1, PumpInvInit, PumpInvStep, PTL DEF PumpSpec
=============================================================================
