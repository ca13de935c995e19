-------------------------- MODULE FrameQueue_proofs --------------------------
(***************************************************************************)
(* The frame queue, for every capacity, buffer size, set of fragments and  *)
(* set of temporary buffers: who owns the buffers, and that recycling them *)
(* does not touch the frames that wait to be read.                         *)
(***************************************************************************)
EXTENDS FrameQueue, FiniteSetTheorems, SequenceTheorems, TLAPS

-----------------------------------------------------------------------------
(* Lists that hold each of their elements once                             *)

Distinct(s) == \A i, j \in 1..Len(s) : s[i] = s[j] => i = j

\* What Append adds.
LEMMA Appending ==
  ASSUME NEW S, NEW s \in Seq(S), NEW x \in S
  PROVE  /\ Append(s, x) \in Seq(S)
         /\ Elements(Append(s, x)) = Elements(s) \union {x}
         /\ Distinct(s) /\ x \notin Elements(s) => Distinct(Append(s, x))
<1> DEFINE t == Append(s, x)
<1>1. /\ t \in Seq(S) /\ Len(s) \in Nat /\ Len(t) = Len(s) + 1 /\ t[Len(s) + 1] = x
      /\ \A i \in 1..Len(s) : t[i] = s[i]
      OBVIOUS
<1> HIDE DEF t
<1>2. Elements(t) = Elements(s) \union {x}
  <2>1. ASSUME NEW y \in Elements(t) PROVE y \in Elements(s) \union {x}
    <3>1. PICK i \in 1..Len(t) : y = t[i]
          BY DEF Elements
    <3>2. i = Len(s) + 1 \/ i \in 1..Len(s)
          BY <1>1
    <3> QED
        BY <1>1, <3>1, <3>2 DEF Elements
  <2>2. Elements(s) \subseteq Elements(t)
        BY <1>1 DEF Elements
  <2>3. x \in Elements(t)
    <3>1. Len(s) + 1 \in 1..Len(t)
          BY <1>1
    <3> QED
        BY <1>1, <3>1 DEF Elements
  <2> QED
      BY <2>1, <2>2, <2>3
<1>3. ASSUME Distinct(s), x \notin Elements(s), NEW i \in 1..Len(t), NEW j \in 1..Len(t), t[i] = t[j]
      PROVE  i = j
  <2>1. \A k \in 1..Len(s) : s[k] # x
        BY <1>3 DEF Elements
  <2>2. CASE i \in 1..Len(s) /\ j \in 1..Len(s)
        BY <1>1, <1>3, <2>2 DEF Distinct
  <2>3. CASE i = Len(s) + 1 \/ j = Len(s) + 1
        BY <1>1, <1>3, <2>1, <2>3
  <2> QED
      BY <1>1, <2>2, <2>3
<1> QED
    BY <1>1, <1>2, <1>3 DEF Distinct, t

\* Elements from a position on: what SubSeq keeps, what is ahead of it.
LEMMA Splitting ==
  ASSUME NEW S, NEW s \in Seq(S), NEW k \in 1..Len(s)
  PROVE  /\ SubSeq(s, k + 1, Len(s)) \in Seq(S)
         /\ Elements(s) = {s[i] : i \in 1..(k - 1)} \union {s[k]} \union Elements(SubSeq(s, k + 1, Len(s)))
         /\ s[k] \in Elements(s)
         /\ Distinct(s) => /\ Distinct(SubSeq(s, k + 1, Len(s)))
                           /\ s[k] \notin Elements(SubSeq(s, k + 1, Len(s)))
                           /\ s[k] \notin {s[i] : i \in 1..(k - 1)}
                           /\ {s[i] : i \in 1..(k - 1)} \cap Elements(SubSeq(s, k + 1, Len(s))) = {}
<1> DEFINE t == SubSeq(s, k + 1, Len(s))
           n == Len(s)
           a == {s[i] : i \in 1..(k - 1)}
<1>1. /\ n \in Nat /\ t \in Seq(S) /\ Len(t) = n - k
      /\ \A i \in 1..(n - k) : t[i] = s[k + i]
  <2>1. n \in Nat /\ \A i \in k + 1..n : s[i] \in S
        OBVIOUS
  <2>2. k + 1 \in 1..n + 1 /\ n \in k..n
        BY <2>1
  <2>3. Len(t) = n - k
        BY <2>1, <2>2
  <2>4. \A i \in 1..(n - k) : t[i] = s[k + i]
        BY <2>1, <2>2
  <2>5. t \in Seq(S)
        BY <2>1, <2>2
  <2> QED
      BY <2>1, <2>3, <2>4, <2>5
<1> HIDE DEF t, n
<1>2. ASSUME NEW x PROVE x \in Elements(t) <=> \E i \in k + 1..n : x = s[i]
  <2>1. ASSUME NEW i \in k + 1..n PROVE s[i] \in Elements(t)
    <3>1. i - k \in 1..(n - k) /\ k + (i - k) = i
          BY <1>1
    <3>2. t[i - k] = s[i]
          BY <1>1, <3>1
    <3> QED
        BY <1>1, <3>1, <3>2 DEF Elements
  <2>2. ASSUME x \in Elements(t) PROVE \E i \in k + 1..n : x = s[i]
    <3>1. PICK i \in 1..(n - k) : x = t[i]
          BY <1>1, <2>2 DEF Elements
    <3>2. k + i \in k + 1..n /\ x = s[k + i]
          BY <1>1, <3>1
    <3> QED
        BY <3>2
  <2> QED
      BY <2>1, <2>2
<1>3. k \in 1..n
      BY DEF n
<1>4. Elements(s) = {s[i] : i \in 1..n}
      BY DEF Elements, n
<1>5. \A i \in 1..n : i \in 1..(k - 1) \/ i = k \/ i \in k + 1..n
      BY <1>1, <1>3
<1>6. \A i \in k + 1..n : i \in 1..n
      BY <1>1, <1>3
<1>7. \A i \in 1..(k - 1) : i \in 1..n
      BY <1>1, <1>3
<1>8. Elements(s) = a \union {s[k]} \union Elements(t)
      BY <1>2, <1>3, <1>4, <1>5, <1>6, <1>7
<1>9. ASSUME Distinct(s)
      PROVE  s[k] \notin Elements(t) /\ s[k] \notin a /\ a \cap Elements(t) = {}
  <2>0. \A i, j \in 1..n : s[i] = s[j] => i = j
        BY <1>9 DEF Distinct, n
  <2>1. s[k] \notin Elements(t)
    <3> SUFFICES ASSUME s[k] \in Elements(t) PROVE FALSE
        OBVIOUS
    <3>1. PICK i \in k + 1..n : s[k] = s[i]
          BY <1>2
    <3>2. i = k
          BY <1>3, <1>6, <2>0, <3>1
    <3> QED
        BY <1>1, <3>2
  <2>2. s[k] \notin a
        BY <1>1, <1>3, <1>7, <2>0
  <2>3. ASSUME NEW i \in 1..(k - 1), NEW j \in k + 1..n PROVE s[i] # s[j]
        BY <1>1, <1>3, <1>6, <1>7, <2>0
  <2>4. a \cap Elements(t) = {}
        BY <1>2, <2>3
  <2> QED
      BY <2>1, <2>2, <2>4
<1>10. ASSUME Distinct(s), NEW i \in 1..Len(t), NEW j \in 1..Len(t), t[i] = t[j] PROVE i = j
  <2>1. k + i \in 1..n /\ k + j \in 1..n /\ s[k + i] = s[k + j]
        BY <1>1, <1>3, <1>10
  <2>2. k + i = k + j
        BY <1>10, <2>1 DEF Distinct, n
  <2> QED
      BY <1>1, <2>2
<1> QED
    BY <1>1, <1>3, <1>4, <1>8, <1>9, <1>10 DEF Distinct, t, n

\* The first element, and the rest.
LEMMA Parting ==
  ASSUME NEW S, NEW s \in Seq(S), s # <<>>
  PROVE  /\ Head(s) \in S /\ Head(s) = s[1] /\ Tail(s) \in Seq(S)
         /\ Elements(s) = {Head(s)} \union Elements(Tail(s))
         /\ Distinct(s) => Distinct(Tail(s)) /\ Head(s) \notin Elements(Tail(s))
<1>1. Len(s) \in Nat \ {0} /\ Head(s) = s[1] /\ Head(s) \in S /\ Tail(s) \in Seq(S)
      BY EmptySeq, HeadTailProperties
<1>2. 1 \in 1..Len(s) /\ Tail(s) = SubSeq(s, 1 + 1, Len(s))
      BY <1>1
<1>3. {s[i] : i \in 1..(1 - 1)} = {}
      OBVIOUS
<1>4. /\ Elements(s) = {s[i] : i \in 1..(1 - 1)} \union {s[1]} \union Elements(SubSeq(s, 1 + 1, Len(s)))
      /\ Distinct(s) => /\ Distinct(SubSeq(s, 1 + 1, Len(s)))
                        /\ s[1] \notin Elements(SubSeq(s, 1 + 1, Len(s)))
      BY <1>2, Splitting
<1> QED
    BY <1>1, <1>2, <1>3, <1>4

\* One list behind the other.
LEMMA Joining ==
  ASSUME NEW S, NEW s \in Seq(S), NEW t \in Seq(S)
  PROVE  /\ s \o t \in Seq(S)
         /\ Elements(s \o t) = Elements(s) \union Elements(t)
         /\ Distinct(s) /\ Distinct(t) /\ Elements(s) \cap Elements(t) = {} => Distinct(s \o t)
<1> DEFINE u == s \o t
<1>1. /\ u \in Seq(S) /\ Len(s) \in Nat /\ Len(t) \in Nat /\ Len(u) = Len(s) + Len(t)
      /\ \A i \in 1..Len(s) : i \in 1..Len(u) /\ u[i] = s[i]
      /\ \A i \in 1..Len(t) : Len(s) + i \in 1..Len(u) /\ u[Len(s) + i] = t[i]
      /\ \A i \in 1..Len(u) : i \in 1..Len(s) \/ (i - Len(s) \in 1..Len(t) /\ u[i] = t[i - Len(s)])
      OBVIOUS
<1> HIDE DEF u
<1>2. Elements(u) = Elements(s) \union Elements(t)
  <2>1. Elements(u) \subseteq Elements(s) \union Elements(t)
        BY <1>1, ZenonT(60) DEF Elements
  <2>2. Elements(s) \subseteq Elements(u)
        BY <1>1 DEF Elements
  <2>3. ASSUME NEW i \in 1..Len(t) PROVE t[i] \in Elements(u)
    <3>1. Len(s) + i \in 1..Len(u) /\ u[Len(s) + i] = t[i]
          BY <1>1
    <3> QED
        BY <3>1 DEF Elements
  <2> QED
      BY <2>1, <2>2, <2>3 DEF Elements
<1>3. ASSUME Distinct(s), Distinct(t), Elements(s) \cap Elements(t) = {},
             NEW i \in 1..Len(u), NEW j \in 1..Len(u), u[i] = u[j]
      PROVE  i = j
  <2>1. \A k \in 1..Len(s), l \in 1..Len(t) : s[k] # t[l]
        BY <1>3 DEF Elements
  <2>2. CASE i \in 1..Len(s) /\ j \in 1..Len(s)
        BY <1>1, <1>3, <2>2 DEF Distinct
  <2>3. CASE i \in 1..Len(s) /\ j \notin 1..Len(s)
        BY <1>1, <1>3, <2>1, <2>3
  <2>4. CASE i \notin 1..Len(s) /\ j \in 1..Len(s)
        BY <1>1, <1>3, <2>1, <2>4
  <2>5. CASE i \notin 1..Len(s) /\ j \notin 1..Len(s)
    <3>1. i - Len(s) \in 1..Len(t) /\ j - Len(s) \in 1..Len(t) /\ t[i - Len(s)] = t[j - Len(s)]
          BY <1>1, <1>3, <2>5
    <3>2. i - Len(s) = j - Len(s)
          BY <1>3, <3>1 DEF Distinct
    <3> QED
        BY <1>1, <3>2
  <2> QED
      BY <2>2, <2>3, <2>4, <2>5
<1> QED
    BY <1>1, <1>2, <1>3 DEF Distinct, u

\* The empty list, and the list of one.
LEMMA Least ==
  ASSUME NEW x
  PROVE  /\ Elements(<<>>) = {} /\ Distinct(<<>>)
         /\ Elements(<<x>>) = {x} /\ Distinct(<<x>>)
  BY DEF Elements, Distinct

-----------------------------------------------------------------------------
(* Types                                                                   *)

\* A fragment that is not ignored fits into a buffer of its own.
LEMMA CopiedFits ==
  ASSUME NEW f \in Fragments, ~Ignored(f)
  PROVE  Copied(f) \in Contents
<1>1. f.length \in Nat /\ f.flags \subseteq Flags /\ BufferSize \in Nat
      BY QueueAssumption
<1>2. f.length \in 0..BufferSize
      BY <1>1 DEF Ignored
<1>3. <<f>> \in Seq(Fragments)
      OBVIOUS
<1> QED
    BY <1>1, <1>2, <1>3 DEF Copied, Contents

\* One that does not overflow fits behind the ones that are there.
LEMMA AppendedFits ==
  ASSUME NEW f \in Fragments, NEW b \in Names, buf[b] \in Contents, buf[b].length + f.length <= BufferSize
  PROVE  Appended(b, f) \in Contents
<1>1. f.length \in Nat /\ f.flags \subseteq Flags /\ BufferSize \in Nat
      BY QueueAssumption
<1>2. buf[b].length + f.length \in 0..BufferSize
      BY <1>1 DEF Contents
<1>3. Append(buf[b].parts, f) \in Seq(Fragments)
      BY DEF Contents
<1> QED
    BY <1>1, <1>2, <1>3 DEF Appended, Contents

\* One and none are at most one.
LEMMA AtMostOne == /\ \A n \in Nat \ {0} : n <= 1 => n = 1
                   /\ 0 <= 1
                   /\ 1 <= 1
  OBVIOUS

\* What is pending is one buffer.
LEMMA OnePending ==
  ASSUME TypeOK, pending # <<>>
  PROVE  /\ pending[1] \in Names /\ pending = <<pending[1]>>
         /\ Elements(pending) = {pending[1]}
<1>1. pending \in Seq(Names) /\ Len(pending) = 1
  <2>1. pending \in Seq(Names) /\ Len(pending) <= 1
        BY DEF TypeOK
  <2>2. Len(pending) \in Nat \ {0}
        BY <2>1, EmptySeq
  <2> QED
      BY <2>1, <2>2, AtMostOne
<1>2. pending[1] \in Names /\ pending = <<pending[1]>>
      BY <1>1
<1>3. Elements(pending) = {pending[1]}
      BY <1>1 DEF Elements
<1> QED
    BY <1>2, <1>3

\* Store takes a buffer to one of two lists.
LEMMA StoreTyped ==
  ASSUME TypeOK, pending = <<>>, NEW b \in Names, NEW f, Store(b, f)
  PROVE  pending' \in Seq(Names) /\ encoded' \in Seq(Names) /\ Len(pending') <= 1
<1>1. <<b>> \in Seq(Names) /\ Len(<<b>>) = 1
      OBVIOUS
<1>2. Append(encoded, b) \in Seq(Names)
      BY DEF TypeOK
<1>3. encoded \in Seq(Names) /\ <<>> \in Seq(Names) /\ Len(<<>>) = 0
      BY EmptySeq DEF TypeOK
<1>4. Len(<<b>>) <= 1 /\ Len(<<>>) <= 1
      BY <1>1, <1>3, AtMostOne
<1>5. CASE "Config" \in f.flags
      BY <1>1, <1>3, <1>4, <1>5 DEF Store
<1>6. CASE "Config" \notin f.flags
      BY <1>2, <1>3, <1>4, <1>6 DEF Store
<1> QED
    BY <1>5, <1>6

LEMMA BlankFits == Blank \in Contents
<1>1. BufferSize \in Nat
      BY QueueAssumption
<1>2. <<>> \in Seq(Fragments)
      BY EmptySeq
<1> QED
    BY <1>1, <1>2 DEF Blank, Contents

LEMMA TypeInit == Init => TypeOK
<1> SUFFICES ASSUME Init PROVE TypeOK
    OBVIOUS
<1>1. <<>> \in Seq(Names) /\ Len(<<>>) = 0
      BY EmptySeq
<1>2. buf \in [Names -> Contents]
      BY BlankFits DEF Init, Names
<1>3. free = <<>> /\ pending = <<>> /\ encoded = <<>>
      BY DEF Init
<1>4. Len(pending) <= 1
      BY <1>1, <1>3
<1>5. inited \in BOOLEAN /\ crashed \in BOOLEAN /\ live \subseteq Names
      BY DEF Init
<1> QED
    BY <1>1, <1>2, <1>3, <1>4, <1>5 DEF TypeOK

\* The pool as init lists it.
LEMMA PoolListed ==
  /\ [i \in Pool |-> i] \in Seq(Names)
  /\ Elements([i \in Pool |-> i]) = Pool
  /\ Distinct([i \in Pool |-> i])
<1>1. Capacity \in Nat
      BY QueueAssumption
<1>2. [i \in Pool |-> i] \in Seq(Names) /\ Len([i \in Pool |-> i]) = Capacity
      BY <1>1 DEF Pool, Names
<1> QED
    BY <1>1, <1>2 DEF Elements, Distinct, Pool

\* Every operation keeps the types.
LEMMA TypeStep == TypeOK /\ [Next]_vars => TypeOK'
<1> SUFFICES ASSUME TypeOK, [Next]_vars PROVE TypeOK'
    OBVIOUS
<1>0. <<>> \in Seq(Names) /\ Len(<<>>) <= 1
      BY EmptySeq, AtMostOne
<1>1. CASE InitQueue
  <2>1. buf' \in [Names -> Contents]
        BY <1>1, BlankFits DEF InitQueue, Names
  <2>2. free' \in Seq(Names)
        BY <1>1, PoolListed DEF InitQueue
  <2>3. live' \subseteq Names
        BY <1>1 DEF InitQueue, TypeOK, Names
  <2> QED
      BY <1>0, <1>1, <2>1, <2>2, <2>3 DEF InitQueue, TypeOK
<1>2. CASE ReadFront
  <2>1. encoded \in Seq(Names) /\ encoded # <<>> /\ free \in Seq(Names)
        BY <1>2 DEF ReadFront, TypeOK
  <2>2. Head(encoded) \in Names /\ Tail(encoded) \in Seq(Names)
        BY <2>1
  <2>3. Append(free, Head(encoded)) \in Seq(Names)
        BY <2>1, <2>2
  <2> QED
      BY <1>2, <2>2, <2>3 DEF ReadFront, TypeOK
<1>3. CASE Clear
      BY <1>0, <1>3 DEF Clear, TypeOK
<1>4. ASSUME NEW f \in Fragments, WriteBack(f) PROVE TypeOK'
  <2>1. CASE Ignore(f)
        BY <2>1 DEF Ignore, TypeOK, vars
  <2>2. CASE GiveUp(f)
    <3>1. pending[1] \in Names
          BY <2>2, OnePending DEF GiveUp, Extends
    <3>2. Append(free, pending[1]) \in Seq(Names)
          BY <3>1 DEF TypeOK
    <3> QED
        BY <1>0, <2>2, <3>2 DEF GiveUp, TypeOK
  <2>3. CASE AppendPart(f)
    <3>1. pending[1] \in Names
          BY <2>3, OnePending DEF AppendPart, Extends
    <3>2. Appended(pending[1], f) \in Contents
      <4>1. buf[pending[1]] \in Contents
            BY <3>1 DEF TypeOK
      <4>2. ~(buf[pending[1]].length + f.length > BufferSize)
            BY <2>3 DEF AppendPart, Overflows
      <4>3. buf[pending[1]].length \in Nat /\ f.length \in Nat /\ BufferSize \in Nat
            BY <4>1, QueueAssumption DEF Contents
      <4>4. buf[pending[1]].length + f.length <= BufferSize
            BY <4>2, <4>3
      <4> QED
          BY <3>1, <4>1, <4>4, AppendedFits
    <3>3. buf' \in [Names -> Contents]
          BY <2>3, <3>2 DEF AppendPart, TypeOK
    <3>4. Append(encoded, pending[1]) \in Seq(Names)
          BY <3>1 DEF TypeOK
    <3>5. \/ pending' = <<>> /\ encoded' = Append(encoded, pending[1])
          \/ UNCHANGED <<pending, encoded>>
          BY <2>3 DEF AppendPart
    <3>6. pending' \in Seq(Names) /\ encoded' \in Seq(Names) /\ Len(pending') <= 1
      <4>1. pending \in Seq(Names) /\ encoded \in Seq(Names) /\ Len(pending) <= 1
            BY DEF TypeOK
      <4>2. CASE pending' = <<>> /\ encoded' = Append(encoded, pending[1])
            BY <1>0, <3>4, <4>2
      <4>3. CASE UNCHANGED <<pending, encoded>>
            BY <4>1, <4>3
      <4> QED
          BY <3>5, <4>2, <4>3
    <3> QED
        BY <2>3, <3>3, <3>6 DEF AppendPart, TypeOK
  <2>4. CASE StartTemporary(f)
    <3>1. PICK b \in Temporaries \ live : /\ live' = live \union {b}
                                          /\ buf' = [buf EXCEPT ![b] = Copied(f)]
                                          /\ Store(b, f)
          BY <2>4 DEF StartTemporary
    <3>2. b \in Names
          BY DEF Names
    <3>3. pending = <<>> /\ ~Ignored(f) /\ UNCHANGED <<inited, free, crashed>>
          BY <2>4 DEF StartTemporary, Starts
    <3>4. buf' \in [Names -> Contents]
          BY <3>1, <3>3, CopiedFits DEF TypeOK
    <3>5. pending' \in Seq(Names) /\ encoded' \in Seq(Names) /\ Len(pending') <= 1
          BY <3>1, <3>2, <3>3, StoreTyped
    <3> QED
        BY <3>1, <3>2, <3>3, <3>4, <3>5 DEF TypeOK
  <2>5. CASE StartFree(f)
    <3>1. PICK k \in 1..Len(free) : /\ live' = live \ {free[i] : i \in 1..(k - 1)}
                                    /\ free' = SubSeq(free, k + 1, Len(free))
                                    /\ buf' = [buf EXCEPT ![free[k]] = Copied(f)]
                                    /\ Store(free[k], f)
          BY <2>5 DEF StartFree
    <3>2. free[k] \in Names /\ SubSeq(free, k + 1, Len(free)) \in Seq(Names)
          BY Splitting DEF TypeOK
    <3>3. pending = <<>> /\ ~Ignored(f) /\ UNCHANGED <<inited, crashed>>
          BY <2>5 DEF StartFree, Starts
    <3>4. buf' \in [Names -> Contents]
          BY <3>1, <3>3, CopiedFits DEF TypeOK
    <3>5. pending' \in Seq(Names) /\ encoded' \in Seq(Names) /\ Len(pending') <= 1
          BY <3>1, <3>2, <3>3, StoreTyped
    <3> QED
        BY <3>1, <3>2, <3>3, <3>4, <3>5 DEF TypeOK
  <2>6. CASE Crash(f)
        BY <2>6 DEF Crash, TypeOK
  <2> QED
      BY <1>4, <2>1, <2>2, <2>3, <2>4, <2>5, <2>6 DEF WriteBack
<1>5. CASE UNCHANGED vars
      BY <1>5 DEF vars, TypeOK
<1> QED
    BY <1>1, <1>2, <1>3, <1>4, <1>5 DEF Next

\* No buffer is ever written past its end; the lists hold buffers.
THEOREM TypeCorrect == Spec => []TypeOK
  BY TypeInit, TypeStep, PTL DEF Spec

-----------------------------------------------------------------------------
(* Ownership                                                               *)

\* OwnedOnce and PoolSurvives, list by list, which is inductive.
Owned == /\ Distinct(free) /\ Distinct(encoded)
         /\ Elements(free) \cap Elements(pending) = {}
         /\ Elements(free) \cap Elements(encoded) = {}
         /\ Elements(pending) \cap Elements(encoded) = {}
         /\ live = Elements(free) \union Elements(pending) \union Elements(encoded)
         /\ inited => Pool \subseteq live

\* A new buffer is stored in one place.
LEMMA StoreOwned ==
  ASSUME TypeOK, pending = <<>>, NEW b \in Names, NEW f, Store(b, f),
         Distinct(encoded), b \notin Elements(encoded)
  PROVE  /\ Distinct(encoded')
         /\ Elements(pending') \cap Elements(encoded') = {}
         /\ Elements(pending') \union Elements(encoded') = Elements(encoded) \union {b}
<1>1. /\ Elements(Append(encoded, b)) = Elements(encoded) \union {b}
      /\ Distinct(Append(encoded, b))
      BY Appending DEF TypeOK
<1>2. Elements(<<>>) = {} /\ Elements(<<b>>) = {b}
      BY Least
<1>3. CASE "Config" \in f.flags
      BY <1>2, <1>3 DEF Store
<1>4. CASE "Config" \notin f.flags
      BY <1>1, <1>2, <1>4 DEF Store
<1> QED
    BY <1>3, <1>4

LEMMA OwnedInit == Init => Owned
  BY Least DEF Init, Owned

\* Every operation leaves every buffer in one place.
LEMMA OwnedStep == TypeOK /\ Owned /\ [Next]_vars => Owned'
<1> SUFFICES ASSUME TypeOK, Owned, [Next]_vars PROVE Owned'
    OBVIOUS
<1>0. Elements(<<>>) = {} /\ Distinct(<<>>)
      BY Least
<1>a. free \in Seq(Names) /\ pending \in Seq(Names) /\ encoded \in Seq(Names)
      BY DEF TypeOK
<1>1. CASE InitQueue
  <2>1. /\ Elements(free') = Pool /\ Distinct(free')
        /\ pending' = <<>> /\ encoded' = <<>>
        BY <1>1, PoolListed DEF InitQueue
  <2>2. live' = Pool
        BY <1>1 DEF InitQueue, Owned
  <2> QED
      BY <1>0, <2>1, <2>2 DEF Owned
<1>2. CASE ReadFront
  <2> DEFINE b == Head(encoded)
  <2>1. /\ encoded # <<>> /\ free' = Append(free, b) /\ encoded' = Tail(encoded)
        /\ UNCHANGED <<inited, pending, live>>
        BY <1>2 DEF ReadFront
  <2>2. /\ b \in Names /\ Elements(encoded) = {b} \union Elements(Tail(encoded))
        /\ Distinct(Tail(encoded)) /\ b \notin Elements(Tail(encoded))
        BY <1>a, <2>1, Parting DEF Owned
  <2>3. b \notin Elements(free)
        BY <2>2 DEF Owned
  <2> HIDE DEF b
  <2>4. Elements(Append(free, b)) = Elements(free) \union {b} /\ Distinct(Append(free, b))
        BY <1>a, <2>2, <2>3, Appending DEF Owned
  <2> QED
      BY <2>1, <2>2, <2>4 DEF Owned
<1>3. CASE Clear
  <2>1. Elements(free \o encoded) = Elements(free) \union Elements(encoded) /\ Distinct(free \o encoded)
        BY <1>a, Joining DEF Owned
  <2> QED
      BY <1>0, <1>3, <2>1 DEF Clear, Owned
<1>4. ASSUME NEW f \in Fragments, WriteBack(f) PROVE Owned'
  <2>1. CASE Ignore(f)
        BY <2>1 DEF Ignore, Owned, vars
  <2>2. CASE GiveUp(f)
    <3>1. pending[1] \in Names /\ Elements(pending) = {pending[1]}
          BY <2>2, OnePending DEF GiveUp, Extends
    <3>2. pending[1] \notin Elements(free)
          BY <3>1 DEF Owned
    <3>3. /\ Elements(Append(free, pending[1])) = Elements(free) \union {pending[1]}
          /\ Distinct(Append(free, pending[1]))
          BY <1>a, <3>1, <3>2, Appending DEF Owned
    <3> QED
        BY <1>0, <2>2, <3>1, <3>3 DEF GiveUp, Owned
  <2>3. CASE AppendPart(f)
    <3>1. pending[1] \in Names /\ Elements(pending) = {pending[1]}
          BY <2>3, OnePending DEF AppendPart, Extends
    <3>2. pending[1] \notin Elements(encoded)
          BY <3>1 DEF Owned
    <3>3. /\ Elements(Append(encoded, pending[1])) = Elements(encoded) \union {pending[1]}
          /\ Distinct(Append(encoded, pending[1]))
          BY <1>a, <3>1, <3>2, Appending DEF Owned
    <3>4. UNCHANGED <<inited, free, live>>
          BY <2>3 DEF AppendPart
    <3>5. CASE pending' = <<>> /\ encoded' = Append(encoded, pending[1])
          BY <1>0, <3>1, <3>3, <3>4, <3>5 DEF Owned
    <3>6. CASE UNCHANGED <<pending, encoded>>
          BY <3>4, <3>6 DEF Owned
    <3> QED
        BY <2>3, <3>5, <3>6 DEF AppendPart
  <2>4. CASE StartTemporary(f)
    <3>1. PICK b \in Temporaries \ live : live' = live \union {b} /\ Store(b, f)
          BY <2>4 DEF StartTemporary
    <3>2. b \in Names /\ b \notin Elements(encoded) /\ b \notin Elements(free)
          BY DEF Names, Owned
    <3>3. pending = <<>> /\ UNCHANGED <<inited, free>>
          BY <2>4 DEF StartTemporary, Starts
    <3>4. /\ Distinct(encoded') /\ Elements(pending') \cap Elements(encoded') = {}
          /\ Elements(pending') \union Elements(encoded') = Elements(encoded) \union {b}
          BY <3>1, <3>2, <3>3, StoreOwned DEF Owned
    <3>5. Elements(pending) = {}
          BY <1>0, <3>3
    <3> QED
        BY <3>1, <3>2, <3>3, <3>4, <3>5 DEF Owned
  <2>5. CASE StartFree(f)
    <3>1. PICK k \in 1..Len(free) : /\ FirstOfPool(k)
                                    /\ live' = live \ {free[i] : i \in 1..(k - 1)}
                                    /\ free' = SubSeq(free, k + 1, Len(free))
                                    /\ Store(free[k], f)
          BY <2>5 DEF StartFree
    <3> DEFINE deleted == {free[i] : i \in 1..(k - 1)}
               rest    == SubSeq(free, k + 1, Len(free))
               b       == free[k]
    <3>2. /\ b \in Names /\ Distinct(rest)
          /\ Elements(free) = deleted \union {b} \union Elements(rest)
          /\ b \notin Elements(rest) /\ b \notin deleted /\ deleted \cap Elements(rest) = {}
          BY <1>a, Splitting DEF Owned
    <3>3. pending = <<>> /\ UNCHANGED inited
          BY <2>5 DEF StartFree, Starts
    <3>4. b \notin Elements(encoded)
          BY <3>2 DEF Owned
    <3>5. /\ Distinct(encoded') /\ Elements(pending') \cap Elements(encoded') = {}
          /\ Elements(pending') \union Elements(encoded') = Elements(encoded) \union {b}
      <4> HIDE DEF b
      <4>1. Store(b, f) /\ Distinct(encoded)
            BY <3>1 DEF Owned, b
      <4> QED
          BY <3>2, <3>3, <3>4, <4>1, StoreOwned
    <3>6. deleted \subseteq Temporaries /\ Pool \cap Temporaries = {}
          BY <3>1, QueueAssumption DEF FirstOfPool, IsTemporary, Pool
    <3>7. Elements(pending) = {}
          BY <1>0, <3>3
    <3>8. live' = live \ deleted /\ free' = rest
          BY <3>1
    <3> HIDE DEF deleted, rest, b
    <3> QED
        BY <3>2, <3>3, <3>5, <3>6, <3>7, <3>8 DEF Owned
  <2>6. CASE Crash(f)
        BY <2>6 DEF Crash, Owned
  <2> QED
      BY <1>4, <2>1, <2>2, <2>3, <2>4, <2>5, <2>6 DEF WriteBack
<1>5. CASE UNCHANGED vars
      BY <1>5 DEF vars, Owned
<1> QED
    BY <1>1, <1>2, <1>3, <1>4, <1>5 DEF Next

\* A list that holds b once has it at one index, another at none.
LEMMA Indices ==
  ASSUME NEW s, Distinct(s), NEW b
  PROVE  /\ b \notin Elements(s) => {j \in 1..Len(s) : s[j] = b} = {}
         /\ b \in Elements(s) => \E i \in 1..Len(s) : {j \in 1..Len(s) : s[j] = b} = {i}
<1>1. CASE b \notin Elements(s)
      BY <1>1 DEF Elements
<1>2. CASE b \in Elements(s)
  <2>1. PICK i \in 1..Len(s) : s[i] = b
        BY <1>2 DEF Elements
  <2>2. {j \in 1..Len(s) : s[j] = b} = {i}
        BY <2>1 DEF Distinct
  <2> QED
      BY <1>2, <2>2
<1> QED
    BY <1>1, <1>2

\* What the invariant says of Places.
LEMMA OwnedMeansOnce == TypeOK /\ Owned => OwnedOnce
<1> SUFFICES ASSUME TypeOK, Owned, NEW b \in Names
             PROVE  Cardinality(Places(b)) = IF b \in live THEN 1 ELSE 0
    BY DEF OwnedOnce
<1> DEFINE At(s) == {j \in 1..Len(s) : s[j] = b}
<1>1. Distinct(pending)
  <2>1. CASE pending = <<>>
        BY <2>1, Least
  <2>2. CASE pending # <<>>
        BY <2>2, OnePending, Least
  <2> QED
      BY <2>1, <2>2
<1>2. /\ b \notin Elements(free) => At(free) = {}
      /\ b \notin Elements(pending) => At(pending) = {}
      /\ b \notin Elements(encoded) => At(encoded) = {}
      /\ b \in Elements(free) => \E i : At(free) = {i}
      /\ b \in Elements(pending) => \E i : At(pending) = {i}
      /\ b \in Elements(encoded) => \E i : At(encoded) = {i}
      BY <1>1, Indices DEF Owned
<1>3. Places(b) = {<<"free", i>> : i \in At(free)} \union {<<"pending", i>> : i \in At(pending)}
                    \union {<<"encoded", i>> : i \in At(encoded)}
      BY DEF Places
<1> HIDE DEF At
<1>4. CASE b \notin live
  <2>1. At(free) = {} /\ At(pending) = {} /\ At(encoded) = {}
        BY <1>2, <1>4 DEF Owned
  <2>2. Places(b) = {}
        BY <1>3, <2>1
  <2> QED
      BY <1>4, <2>2, FS_EmptySet
<1>5. CASE b \in live
  <2>1. \E p : Places(b) = {p}
    <3>1. CASE b \in Elements(free)
      <4>1. At(pending) = {} /\ At(encoded) = {}
            BY <1>2, <3>1 DEF Owned
      <4>2. PICK i : At(free) = {i}
            BY <1>2, <3>1
      <4>3. Places(b) = {<<"free", i>>}
            BY <1>3, <4>1, <4>2
      <4> QED
          BY <4>3
    <3>2. CASE b \in Elements(pending)
      <4>1. At(free) = {} /\ At(encoded) = {}
            BY <1>2, <3>2 DEF Owned
      <4>2. PICK i : At(pending) = {i}
            BY <1>2, <3>2
      <4>3. Places(b) = {<<"pending", i>>}
            BY <1>3, <4>1, <4>2
      <4> QED
          BY <4>3
    <3>3. CASE b \in Elements(encoded)
      <4>1. At(free) = {} /\ At(pending) = {}
            BY <1>2, <3>3 DEF Owned
      <4>2. PICK i : At(encoded) = {i}
            BY <1>2, <3>3
      <4>3. Places(b) = {<<"encoded", i>>}
            BY <1>3, <4>1, <4>2
      <4> QED
          BY <4>3
    <3> QED
        BY <1>5, <3>1, <3>2, <3>3 DEF Owned
  <2>2. PICK p : Places(b) = {p}
        BY <2>1
  <2>3. Cardinality({p}) = 1
        BY FS_Singleton
  <2> QED
      BY <1>5, <2>2, <2>3
<1> QED
    BY <1>4, <1>5

\* No buffer leaks, is deleted twice or is in two lists at once.
THEOREM BuffersOwnedOnce == Spec => []OwnedOnce
<1>1. TypeOK /\ Owned /\ [Next]_vars => TypeOK' /\ Owned'
      BY TypeStep, OwnedStep
<1> QED
    BY <1>1, TypeInit, OwnedInit, OwnedMeansOnce, PTL DEF Spec

\* The buffers of the pool are never among those that are deleted.
THEOREM PoolNeverDeleted == Spec => []PoolSurvives
<1>1. TypeOK /\ Owned /\ [Next]_vars => TypeOK' /\ Owned'
      BY TypeStep, OwnedStep
<1>2. Owned => PoolSurvives
      BY DEF Owned, PoolSurvives
<1> QED
    BY <1>1, <1>2, TypeInit, OwnedInit, PTL DEF Spec

-----------------------------------------------------------------------------
(* What is in the buffers                                                  *)

Marked(f, flag) == flag \in f.flags
HeldBack(parts) == /\ parts # <<>>
                   /\ Marked(parts[1], "Config")
                   /\ \A k \in 2..Len(parts) : ~Marked(parts[k], "End")
Finished(parts) == /\ parts # <<>>
                   /\ (\E k \in 1..Len(parts) : Marked(parts[k], "Config"))
                        => /\ Marked(parts[1], "Config")
                           /\ Len(parts) > 1
                           /\ Marked(parts[Len(parts)], "End")
                           /\ \A k \in 2..(Len(parts) - 1) : ~Marked(parts[k], "End")

\* What is pending begins with a configuration and has no End behind it; every
\* encoded buffer is a frame and, if any part of it is a configuration, one
\* that began with a configuration and was closed by the first End behind it.
Filled == /\ pending # <<>> => HeldBack(buf[pending[1]].parts)
          /\ \A b \in Elements(encoded) : Finished(buf[b].parts)

LEMMA First ==
  ASSUME NEW f \in Fragments
  PROVE  /\ "Config" \in f.flags => HeldBack(<<f>>)
         /\ "Config" \notin f.flags => Finished(<<f>>)
<1>1. Len(<<f>>) = 1 /\ <<f>>[1] = f /\ <<f>> # <<>>
      OBVIOUS
<1>2. \A k \in 2..1 : FALSE
      OBVIOUS
<1>3. \A k \in 1..1 : k = 1
      OBVIOUS
<1> QED
    BY <1>1, <1>2, <1>3 DEF HeldBack, Finished, Marked

\* A fragment appended to what is pending: it stays pending, or it is a frame.
LEMMA Continued ==
  ASSUME NEW f \in Fragments, NEW parts \in Seq(Fragments), HeldBack(parts)
  PROVE  /\ "End" \notin f.flags => HeldBack(Append(parts, f))
         /\ "End" \in f.flags => Finished(Append(parts, f))
<1> DEFINE more == Append(parts, f)
           n    == Len(parts)
<1>1. n \in Nat \ {0}
      BY EmptySeq DEF HeldBack
<1>2. /\ Len(more) = n + 1 /\ more # <<>>
      /\ more[1] = parts[1] /\ more[n + 1] = f
      /\ \A k \in 1..n : more[k] = parts[k]
      BY <1>1
<1>3. Marked(parts[1], "Config") /\ \A k \in 2..n : ~Marked(parts[k], "End")
      BY DEF HeldBack
<1> HIDE DEF more, n
<1>4. \A k \in 2..n : ~Marked(more[k], "End")
  <2>1. \A k \in 2..n : k \in 1..n
        BY <1>1
  <2> QED
      BY <1>2, <1>3, <2>1
<1>5. n + 1 > 1 /\ (n + 1) - 1 = n
      BY <1>1
<1>6. CASE "End" \notin f.flags
  <2>1. \A k \in 2..(n + 1) : k \in 2..n \/ k = n + 1
        BY <1>1
  <2>2. \A k \in 2..(n + 1) : ~Marked(more[k], "End")
        BY <1>2, <1>4, <1>6, <2>1 DEF Marked
  <2> QED
      BY <1>2, <1>3, <1>6, <2>2 DEF HeldBack, more
<1>7. CASE "End" \in f.flags
  <2>1. Marked(more[n + 1], "End")
        BY <1>2, <1>7 DEF Marked
  <2> QED
      BY <1>2, <1>3, <1>4, <1>5, <1>7, <2>1 DEF Finished, more
<1> QED
    BY <1>6, <1>7

\* A buffer that is filled from the start and stored.
LEMMA StoreFilled ==
  ASSUME TypeOK, Filled, pending = <<>>, NEW b \in Names, b \notin Elements(encoded),
         NEW f \in Fragments, Store(b, f), buf' = [buf EXCEPT ![b] = Copied(f)]
  PROVE  Filled'
<1>1. buf'[b].parts = <<f>> /\ \A c \in Elements(encoded) : buf'[c] = buf[c]
  <2>1. Elements(encoded) \subseteq Names
        BY DEF TypeOK, Elements
  <2>2. buf \in [Names -> Contents]
        BY DEF TypeOK
  <2>3. buf'[b] = Copied(f)
        BY <2>2
  <2>4. \A c \in Elements(encoded) : c # b /\ c \in Names
        BY <2>1
  <2> QED
      BY <2>2, <2>3, <2>4 DEF Copied
<1>2. CASE "Config" \in f.flags
  <2>1. pending' = <<b>> /\ encoded' = encoded
        BY <1>2 DEF Store
  <2>2. pending'[1] = b
        BY <2>1
  <2>3. HeldBack(buf'[pending'[1]].parts)
        BY <1>1, <1>2, <2>2, First
  <2> QED
      BY <1>1, <2>1, <2>3 DEF Filled
<1>3. CASE "Config" \notin f.flags
  <2>1. pending' = <<>> /\ encoded' = Append(encoded, b)
        BY <1>3 DEF Store
  <2>2. Elements(encoded') = Elements(encoded) \union {b}
        BY <2>1, Appending DEF TypeOK
  <2>3. Finished(buf'[b].parts)
        BY <1>1, <1>3, First
  <2> QED
      BY <1>1, <2>1, <2>2, <2>3 DEF Filled
<1> QED
    BY <1>2, <1>3

LEMMA FilledInit == Init => Filled
  BY Least DEF Init, Filled

\* Every operation keeps it.
LEMMA FilledStep == TypeOK /\ Owned /\ Filled /\ [Next]_vars => Filled'
<1> SUFFICES ASSUME TypeOK, Owned, Filled, [Next]_vars PROVE Filled'
    OBVIOUS
<1>0. Elements(<<>>) = {}
      BY Least
<1>a. encoded \in Seq(Names) /\ buf \in [Names -> Contents]
      BY DEF TypeOK
<1>1. CASE InitQueue
      BY <1>0, <1>1 DEF InitQueue, Filled
<1>2. CASE ReadFront
  <2>1. encoded # <<>> /\ encoded' = Tail(encoded) /\ UNCHANGED <<pending, buf>>
        BY <1>2 DEF ReadFront
  <2>2. Elements(Tail(encoded)) \subseteq Elements(encoded)
        BY <1>a, <2>1, Parting
  <2> QED
      BY <2>1, <2>2 DEF Filled
<1>3. CASE Clear
      BY <1>0, <1>3 DEF Clear, Filled
<1>4. ASSUME NEW f \in Fragments, WriteBack(f) PROVE Filled'
  <2>1. CASE Ignore(f)
        BY <2>1 DEF Ignore, Filled, vars
  <2>2. CASE GiveUp(f)
        BY <2>2 DEF GiveUp, Filled
  <2>3. CASE AppendPart(f)
    <3> DEFINE b == pending[1]
    <3>1. pending # <<>> /\ b \in Names /\ Elements(pending) = {b}
          BY <2>3, OnePending DEF AppendPart, Extends
    <3>2. b \notin Elements(encoded) /\ Elements(encoded) \subseteq Names
          BY <1>a, <3>1 DEF Owned, Elements
    <3>3. buf' = [buf EXCEPT ![b] = Appended(b, f)]
          BY <2>3 DEF AppendPart
    <3>4. /\ buf'[b].parts = Append(buf[b].parts, f)
          /\ \A c \in Elements(encoded) : buf'[c] = buf[c]
      <4>1. buf'[b] = Appended(b, f)
            BY <1>a, <3>1, <3>3
      <4>2. \A c \in Elements(encoded) : buf'[c] = buf[c]
        <5>1. \A c \in Elements(encoded) : c # b /\ c \in Names
              BY <3>2
        <5> HIDE DEF b
        <5> QED
            BY <1>a, <3>3, <5>1
      <4> QED
          BY <4>1, <4>2 DEF Appended
    <3>5. buf[b].parts \in Seq(Fragments) /\ HeldBack(buf[b].parts)
          BY <1>a, <3>1 DEF Contents, Filled
    <3>6. /\ "End" \notin f.flags => HeldBack(buf'[b].parts)
          /\ "End" \in f.flags => Finished(buf'[b].parts)
          BY <3>4, <3>5, Continued
    <3>7. CASE "End" \in f.flags
      <4>1. pending' = <<>> /\ encoded' = Append(encoded, b)
            BY <2>3, <3>7 DEF AppendPart
      <4>2. Elements(Append(encoded, b)) = Elements(encoded) \union {b}
        <5> HIDE DEF b
        <5> QED
            BY <1>a, <3>1, Appending
      <4> QED
          BY <3>4, <3>6, <3>7, <4>1, <4>2 DEF Filled
    <3>8. CASE "End" \notin f.flags
      <4>1. pending' = pending /\ encoded' = encoded
            BY <2>3, <3>8 DEF AppendPart
      <4> QED
          BY <3>4, <3>6, <3>8, <4>1 DEF Filled
    <3> QED
        BY <3>7, <3>8
  <2>4. CASE StartTemporary(f)
    <3>1. PICK b \in Temporaries \ live : buf' = [buf EXCEPT ![b] = Copied(f)] /\ Store(b, f)
          BY <2>4 DEF StartTemporary
    <3>2. b \in Names /\ b \notin Elements(encoded)
          BY DEF Names, Owned
    <3> QED
        BY <2>4, <3>1, <3>2, StoreFilled DEF StartTemporary, Starts
  <2>5. CASE StartFree(f)
    <3>1. PICK k \in 1..Len(free) : buf' = [buf EXCEPT ![free[k]] = Copied(f)] /\ Store(free[k], f)
          BY <2>5 DEF StartFree
    <3> DEFINE b == free[k]
    <3>2. b \in Names /\ b \notin Elements(encoded)
          BY DEF TypeOK, Owned, Elements
    <3>3. buf' = [buf EXCEPT ![b] = Copied(f)] /\ Store(b, f) /\ pending = <<>>
          BY <2>5, <3>1 DEF StartFree, Starts
    <3> HIDE DEF b
    <3> QED
        BY <3>2, <3>3, StoreFilled
  <2>6. CASE Crash(f)
        BY <2>6 DEF Crash, Filled
  <2> QED
      BY <1>4, <2>1, <2>2, <2>3, <2>4, <2>5, <2>6 DEF WriteBack
<1>5. CASE UNCHANGED vars
      BY <1>5 DEF vars, Filled
<1> QED
    BY <1>1, <1>2, <1>3, <1>4, <1>5 DEF Next

\* Types, ownership and contents together.
QueueInv == TypeOK /\ Owned /\ Filled

LEMMA QueueInvHolds == Spec => []QueueInv
<1>1. Init => QueueInv
      BY TypeInit, OwnedInit, FilledInit DEF QueueInv
<1>2. QueueInv /\ [Next]_vars => QueueInv'
      BY TypeStep, OwnedStep, FilledStep DEF QueueInv
<1> QED
    BY <1>1, <1>2, PTL DEF Spec

\* SPS and PPS leave the queue at the head of a buffer that a later fragment
\* closed, whichever part of it they are.
THEOREM ConfigLeavesWithFrame == Spec => []ConfigTravelsWithFrame
<1>1. ASSUME Filled PROVE ConfigTravelsWithFrame
  <2>1. ASSUME NEW i \in 1..Len(encoded)
        PROVE  LET parts == buf[encoded[i]].parts
                   last  == Len(parts)
               IN  (\E k \in 1..last : "Config" \in parts[k].flags)
                     => /\ "Config" \in parts[1].flags
                        /\ last > 1
                        /\ "End" \in parts[last].flags
                        /\ \A k \in 2..(last - 1) : "End" \notin parts[k].flags
    <3>1. Finished(buf[encoded[i]].parts)
          BY <1>1 DEF Filled, Elements
    <3> QED
        BY <3>1 DEF Finished, Marked
  <2> QED
      BY <2>1 DEF ConfigTravelsWithFrame
<1> QED
    BY <1>1, QueueInvHolds, PTL DEF QueueInv

-----------------------------------------------------------------------------
(* The queue implements the frame assembler                                *)

\* the frames in the list q, where c says what is in each buffer
Ready(q, c) == [i \in 1..Len(q) |-> c[q[i]].parts]

LEMMA ReadyTyped ==
  ASSUME NEW c \in [Names -> Contents], NEW q \in Seq(Names)
  PROVE  Ready(q, c) \in Seq(Seq(Fragments)) /\ Len(Ready(q, c)) = Len(q)
<1>1. Len(q) \in Nat /\ \A i \in 1..Len(q) : q[i] \in Names
      OBVIOUS
<1>2. \A i \in 1..Len(q) : c[q[i]].parts \in Seq(Fragments)
      BY <1>1 DEF Contents
<1> QED
    BY <1>1, <1>2 DEF Ready

LEMMA ReadyAppend ==
  ASSUME NEW c \in [Names -> Contents], NEW q \in Seq(Names), NEW x \in Names
  PROVE  Ready(Append(q, x), c) = Append(Ready(q, c), c[x].parts)
<1>1. Ready(q, c) \in Seq(Seq(Fragments)) /\ Len(Ready(q, c)) = Len(q) /\ Len(q) \in Nat
      BY ReadyTyped
<1>2. /\ Append(q, x) \in Seq(Names) /\ Len(Append(q, x)) = Len(q) + 1
      /\ \A i \in 1..Len(q) : Append(q, x)[i] = q[i]
      /\ Append(q, x)[Len(q) + 1] = x
      OBVIOUS
<1>3. Ready(Append(q, x), c) \in Seq(Seq(Fragments)) /\ Len(Ready(Append(q, x), c)) = Len(q) + 1
      BY <1>2, ReadyTyped
<1>4. c[x].parts \in Seq(Fragments)
      BY DEF Contents
<1>5. /\ Append(Ready(q, c), c[x].parts) \in Seq(Seq(Fragments))
      /\ Len(Append(Ready(q, c), c[x].parts)) = Len(q) + 1
      /\ \A i \in 1..Len(q) : Append(Ready(q, c), c[x].parts)[i] = Ready(q, c)[i]
      /\ Append(Ready(q, c), c[x].parts)[Len(q) + 1] = c[x].parts
      BY <1>1, <1>4
<1>6. \A i \in 1..Len(q) : /\ Ready(Append(q, x), c)[i] = c[q[i]].parts
                           /\ Ready(q, c)[i] = c[q[i]].parts
      BY <1>1, <1>2 DEF Ready
<1>7. Ready(Append(q, x), c)[Len(q) + 1] = c[x].parts
      BY <1>1, <1>2 DEF Ready
<1>8. \A i \in 1..Len(q) + 1 : Ready(Append(q, x), c)[i] = Append(Ready(q, c), c[x].parts)[i]
      BY <1>1, <1>5, <1>6, <1>7
<1> QED
    BY <1>1, <1>3, <1>5, <1>8, SeqEqual

LEMMA ReadyTail ==
  ASSUME NEW c \in [Names -> Contents], NEW q \in Seq(Names), q # <<>>
  PROVE  Ready(q, c) # <<>> /\ Ready(Tail(q), c) = Tail(Ready(q, c))
<1>1. Ready(q, c) \in Seq(Seq(Fragments)) /\ Len(Ready(q, c)) = Len(q)
      BY ReadyTyped
<1>2. /\ Len(q) \in Nat \ {0} /\ Tail(q) \in Seq(Names) /\ Len(Tail(q)) = Len(q) - 1
      /\ \A i \in 1..Len(Tail(q)) : Tail(q)[i] = q[i + 1]
      BY HeadTailProperties, EmptySeq
<1>3. Ready(Tail(q), c) \in Seq(Seq(Fragments)) /\ Len(Ready(Tail(q), c)) = Len(q) - 1
      BY <1>2, ReadyTyped
<1>4. Ready(q, c) # <<>>
      BY <1>1, <1>2
<1>5. /\ Tail(Ready(q, c)) \in Seq(Seq(Fragments)) /\ Len(Tail(Ready(q, c))) = Len(q) - 1
      /\ \A i \in 1..Len(q) - 1 : Tail(Ready(q, c))[i] = Ready(q, c)[i + 1]
      BY <1>1, <1>4, HeadTailProperties
<1>6. \A i \in 1..Len(q) - 1 : /\ Ready(q, c)[i + 1] = c[q[i + 1]].parts
                               /\ Ready(Tail(q), c)[i] = c[Tail(q)[i]].parts
      BY <1>2 DEF Ready
<1>7. \A i \in 1..Len(q) - 1 : Ready(Tail(q), c)[i] = Tail(Ready(q, c))[i]
      BY <1>2, <1>5, <1>6
<1> QED
    BY <1>2, <1>3, <1>4, <1>5, <1>7, SeqEqual

LEMMA ReadySame ==
  ASSUME NEW c, NEW d, NEW q, \A b \in Elements(q) : c[b].parts = d[b].parts
  PROVE  Ready(q, c) = Ready(q, d)
<1>1. \A i \in 1..Len(q) : q[i] \in Elements(q)
      BY DEF Elements
<1> QED
    BY <1>1 DEF Ready

LEMMA ReadyNone == ASSUME NEW c PROVE Ready(<<>>, c) = <<>>
  BY DEF Ready

\* the frame that is open
Open(p, c) == IF p = <<>> THEN <<>> ELSE c[p[1]].parts

LEMMA AssemblerInit == Init => Assembler!Init
<1> SUFFICES ASSUME Init PROVE Assembler!Init
    OBVIOUS
<1>1. Open(pending, buf) = <<>> /\ Ready(encoded, buf) = <<>>
      BY ReadyNone DEF Init, Open
<1> QED
    BY <1>1 DEF Assembler!Init, Open, Ready

\* A new buffer is a frame opened or a whole frame.
LEMMA StoreStep ==
  ASSUME TypeOK, TypeOK', pending = <<>>, NEW b \in Names, b \notin Elements(encoded),
         NEW f \in Fragments, Store(b, f), buf' = [buf EXCEPT ![b] = Copied(f)]
  PROVE  Assembler!OpenFrame(f) \/ Assembler!WholeFrame(f)
<1>a. encoded \in Seq(Names) /\ buf \in [Names -> Contents] /\ buf' \in [Names -> Contents]
      BY DEF TypeOK
<1>1. buf'[b].parts = <<f>>
      BY <1>a DEF Copied
<1>2. \A c \in Elements(encoded) : buf'[c].parts = buf[c].parts
  <2>1. \A c \in Elements(encoded) : c # b /\ c \in Names
        BY <1>a DEF Elements
  <2> QED
      BY <1>a, <2>1
<1>3. Ready(encoded, buf') = Ready(encoded, buf)
      BY <1>2, ReadySame
<1>4. CASE "Config" \in f.flags
  <2>1. pending' = <<b>> /\ encoded' = encoded
        BY <1>4 DEF Store
  <2>2. Open(pending', buf') = <<f>> /\ Open(pending, buf) = <<>>
        BY <1>1, <2>1 DEF Open
  <2>3. Ready(encoded', buf') = Ready(encoded, buf)
        BY <1>3, <2>1
  <2> QED
      BY <1>4, <2>2, <2>3 DEF Assembler!OpenFrame, Assembler!IsConfig, Open, Ready
<1>5. CASE "Config" \notin f.flags
  <2>1. pending' = pending /\ encoded' = Append(encoded, b)
        BY <1>5 DEF Store
  <2>2. Open(pending', buf') = <<>> /\ Open(pending, buf) = <<>>
        BY <2>1 DEF Open
  <2>3. Ready(encoded', buf') = Append(Ready(encoded, buf), <<f>>)
        BY <1>a, <1>1, <1>3, <2>1, ReadyAppend, ZenonT(60)
  <2> QED
      BY <1>5, <2>2, <2>3 DEF Assembler!WholeFrame, Assembler!IsConfig, Open, Ready
<1> QED
    BY <1>4, <1>5

\* Every operation is an operation of the assembler, or nothing it sees.
LEMMA AssemblerStep == QueueInv /\ QueueInv' /\ [Next]_vars => [Assembler!Next]_(Assembler!vars)
<1> SUFFICES ASSUME QueueInv, QueueInv', [Next]_vars PROVE Assembler!Next \/ UNCHANGED Assembler!vars
    OBVIOUS
<1> USE DEF QueueInv
<1>a. /\ encoded \in Seq(Names) /\ encoded' \in Seq(Names)
      /\ buf \in [Names -> Contents] /\ buf' \in [Names -> Contents]
      BY DEF TypeOK
<1>b. ASSUME UNCHANGED <<pending, encoded, buf>> PROVE UNCHANGED Assembler!vars
      BY <1>b DEF Assembler!vars
<1>1. CASE InitQueue
  <2>1. Open(pending', buf') = <<>> /\ Ready(encoded', buf') = <<>>
        BY <1>1, ReadyNone DEF InitQueue, Open
  <2>2. Assembler!Reset
        BY <2>1 DEF Assembler!Reset, Open, Ready
  <2> QED
      BY <2>2 DEF Assembler!Next
<1>2. CASE ReadFront
  <2>1. encoded # <<>> /\ encoded' = Tail(encoded) /\ UNCHANGED <<pending, buf>>
        BY <1>2 DEF ReadFront
  <2>2. Ready(encoded, buf) # <<>> /\ Ready(encoded', buf') = Tail(Ready(encoded, buf))
        BY <1>a, <2>1, ReadyTail
  <2>3. Open(pending', buf') = Open(pending, buf)
        BY <2>1
  <2>4. Assembler!Read
        BY <2>2, <2>3 DEF Assembler!Read, Open, Ready
  <2> QED
      BY <2>4 DEF Assembler!Next
<1>3. CASE Clear
  <2>1. Ready(encoded', buf') = <<>> /\ Open(pending', buf') = Open(pending, buf)
        BY <1>3, ReadyNone DEF Clear
  <2>2. Assembler!Clear
        BY <2>1 DEF Assembler!Clear, Open, Ready
  <2> QED
      BY <2>2 DEF Assembler!Next
<1>4. ASSUME NEW f \in Fragments, WriteBack(f) PROVE Assembler!Next \/ UNCHANGED Assembler!vars
  <2>1. CASE Ignore(f)
        BY <1>b, <2>1 DEF Ignore, vars
  <2>2. CASE GiveUp(f)
    <3>1. pending # <<>> /\ pending' = <<>> /\ UNCHANGED <<encoded, buf>>
          BY <2>2 DEF GiveUp, Extends
    <3>2. Open(pending, buf) # <<>> /\ Open(pending', buf') = <<>>
          BY <3>1 DEF Open, Filled, HeldBack
    <3>3. Ready(encoded', buf') = Ready(encoded, buf)
          BY <3>1
    <3>4. Assembler!GiveUp
          BY <3>2, <3>3 DEF Assembler!GiveUp, Open, Ready
    <3> QED
        BY <3>4 DEF Assembler!Next
  <2>3. CASE AppendPart(f)
    <3> DEFINE b == pending[1]
    <3>1. pending # <<>> /\ b \in Names /\ Elements(pending) = {b}
          BY <2>3, OnePending DEF AppendPart, Extends
    <3>2. b \notin Elements(encoded) /\ Elements(encoded) \subseteq Names
      <4>1. b \notin Elements(encoded)
            BY <3>1 DEF Owned
      <4>2. Elements(encoded) \subseteq Names
            BY <1>a DEF Elements
      <4> QED
          BY <4>1, <4>2
    <3>3. buf' = [buf EXCEPT ![b] = Appended(b, f)]
          BY <2>3 DEF AppendPart
    <3>4. buf'[b].parts = Append(buf[b].parts, f)
          BY <1>a, <3>1, <3>3 DEF Appended
    <3>5. Ready(encoded, buf') = Ready(encoded, buf)
      <4>1. \A c \in Elements(encoded) : c # b /\ c \in Names
            BY <3>2
      <4> HIDE DEF b
      <4>2. \A c \in Elements(encoded) : buf'[c].parts = buf[c].parts
            BY <1>a, <3>3, <4>1
      <4> QED
          BY <4>2, ReadySame
    <3>6. Open(pending, buf) = buf[b].parts /\ Open(pending, buf) # <<>>
          BY <3>1 DEF Open, Filled, HeldBack
    <3>7. CASE "End" \in f.flags
      <4>1. pending' = <<>> /\ encoded' = Append(encoded, b)
            BY <2>3, <3>7 DEF AppendPart
      <4>2. Open(pending', buf') = <<>>
            BY <4>1 DEF Open
      <4>3. Ready(encoded', buf') = Append(Ready(encoded, buf), Append(Open(pending, buf), f))
        <5> HIDE DEF b
        <5>1. Ready(Append(encoded, b), buf') = Append(Ready(encoded, buf'), buf'[b].parts)
              BY <1>a, <3>1, ReadyAppend
        <5> QED
            BY <3>4, <3>5, <3>6, <4>1, <5>1
      <4>4. Assembler!Complete(f)
            BY <3>6, <3>7, <4>2, <4>3 DEF Assembler!Complete, Assembler!IsFrameEnd, Open, Ready
      <4> QED
          BY <4>4 DEF Assembler!Next
    <3>8. CASE "End" \notin f.flags
      <4>1. pending' = pending /\ encoded' = encoded
            BY <2>3, <3>8 DEF AppendPart
      <4>2. Open(pending', buf') = Append(Open(pending, buf), f)
            BY <3>1, <3>4, <3>6, <4>1 DEF Open
      <4>3. Ready(encoded', buf') = Ready(encoded, buf)
            BY <3>5, <4>1
      <4>4. Assembler!Extend(f)
            BY <3>6, <3>8, <4>2, <4>3 DEF Assembler!Extend, Assembler!IsFrameEnd, Open, Ready
      <4> QED
          BY <4>4 DEF Assembler!Next
    <3> QED
        BY <3>7, <3>8
  <2>4. CASE StartTemporary(f)
    <3>1. PICK b \in Temporaries \ live : buf' = [buf EXCEPT ![b] = Copied(f)] /\ Store(b, f)
          BY <2>4 DEF StartTemporary
    <3>2. b \in Names /\ b \notin Elements(encoded)
          BY DEF Names, Owned
    <3>3. pending = <<>>
          BY <2>4 DEF StartTemporary, Starts
    <3>4. Assembler!OpenFrame(f) \/ Assembler!WholeFrame(f)
          BY <3>1, <3>2, <3>3, StoreStep
    <3> QED
        BY <3>4 DEF Assembler!Next
  <2>5. CASE StartFree(f)
    <3>1. PICK k \in 1..Len(free) : buf' = [buf EXCEPT ![free[k]] = Copied(f)] /\ Store(free[k], f)
          BY <2>5 DEF StartFree
    <3> DEFINE b == free[k]
    <3>2. b \in Names /\ b \notin Elements(encoded)
          BY DEF TypeOK, Owned, Elements
    <3>3. buf' = [buf EXCEPT ![b] = Copied(f)] /\ Store(b, f) /\ pending = <<>>
          BY <2>5, <3>1 DEF StartFree, Starts
    <3> HIDE DEF b
    <3>4. Assembler!OpenFrame(f) \/ Assembler!WholeFrame(f)
          BY <3>2, <3>3, StoreStep
    <3> QED
        BY <3>4 DEF Assembler!Next
  <2>6. CASE Crash(f)
        BY <1>b, <2>6 DEF Crash
  <2> QED
      BY <1>4, <2>1, <2>2, <2>3, <2>4, <2>5, <2>6 DEF WriteBack
<1>5. CASE UNCHANGED vars
      BY <1>b, <1>5 DEF vars
<1> QED
    BY <1>1, <1>2, <1>3, <1>4, <1>5 DEF Next

\* Recycled buffers, temporaries and overflows never mix, reorder or alter frames.
THEOREM QueueImplementsAssembler == Spec => ImplementsAssembler
<1>1. Spec => Assembler!Spec
      BY AssemblerInit, AssemblerStep, QueueInvHolds, PTL DEF Spec, Assembler!Spec
<1> QED
    BY <1>1 DEF ImplementsAssembler
=============================================================================
