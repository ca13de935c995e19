----------------------------- MODULE FrameQueue -----------------------------
(***************************************************************************)
(* The frame queue of src/src/frame_queue.cpp: a pool of buffers that move *)
(* between _free_list, _pending and _encoded_frame_queue, and temporary    *)
(* ones allocated when the free list is empty.                             *)
(*                                                                         *)
(* A buffer is a name; buf says what is in it.  Of the bytes only the      *)
(* fragments they came from are kept, of a fragment its length and flags.  *)
(***************************************************************************)
EXTENDS Naturals, Sequences, FiniteSets

CONSTANTS Capacity,      \* buffers allocated by init
          BufferSize,    \* bytes in each
          Fragments,     \* what the encoder delivers: records [length, flags]
          Temporaries,   \* names for temporary buffers; bounds how many live at once
          MaxParts       \* bound: fragments in one buffer

Flags == {"EOS", "Start", "End", "KeyFrame", "Config"}
Pool  == 1..Capacity

ASSUME QueueAssumption == /\ Capacity \in Nat
                          /\ BufferSize \in Nat
                          /\ MaxParts \in Nat \ {0}
                          /\ Fragments \subseteq [length : Nat, flags : SUBSET Flags]
                          /\ Temporaries \cap Nat = {}

VARIABLES inited,     \* _inited
          free,       \* _free_list
          pending,    \* _pending
          encoded,    \* _encoded_frame_queue
          buf,        \* contents of each buffer
          live,       \* buffers that are allocated
          crashed     \* write_back popped an empty free list

vars == <<inited, free, pending, encoded, buf, live, crashed>>

Blank == [flags |-> {}, length |-> 0, parts |-> <<>>]

IsTemporary(b) == b \in Temporaries
IsConfig(b)    == "Config" \in buf[b].flags
IsFrameEnd(b)  == "End" \in buf[b].flags

\* FrameBuffer::copy and FrameBuffer::append: the flags are those of the last fragment
Copied(f)      == [flags |-> f.flags, length |-> f.length, parts |-> <<f>>]
Appended(b, f) == [flags  |-> f.flags,
                   length |-> buf[b].length + f.length,
                   parts  |-> Append(buf[b].parts, f)]

Init == /\ inited = FALSE
        /\ free = <<>> /\ pending = <<>> /\ encoded = <<>>
        /\ buf = [b \in Pool \union Temporaries |-> Blank]
        /\ live = {}
        /\ crashed = FALSE

Elements(s) == {s[i] : i \in 1..Len(s)}

-----------------------------------------------------------------------------
(* Guards of write_back                                                    *)

\* the early returns: not initialised, empty fragment, longer than a buffer
Ignored(f) == \/ ~inited
              \/ f.length = 0 /\ f.flags = {}
              \/ f.length > BufferSize

\* nothing is pending: the fragment starts a buffer; otherwise it extends the pending one
Starts(f)  == ~crashed /\ ~Ignored(f) /\ pending = <<>>
Extends(f) == ~crashed /\ ~Ignored(f) /\ pending # <<>>

-----------------------------------------------------------------------------
(* Faulty variants, not part of Next: operations with a plausible bug that *)
(* a property below notices.                                               *)

\* checks the fragment alone, not what is already in the buffer
OverflowsIgnoringHeld(f) == f.length > BufferSize

\* forgets _pending.clear()
GiveUpKeepsPending(f) == /\ Extends(f)
                         /\ buf[pending[1]].length + f.length > BufferSize
                         /\ free' = Append(free, pending[1])
                         /\ UNCHANGED <<inited, pending, encoded, buf, live, crashed>>

\* deletes whatever is ahead of the last buffer
LastOfFree(k) == k = Len(free)

\* takes a configuration that is also marked as a frame end for a frame
StoreByFrameEnd(b, f) == IF "Config" \in f.flags /\ "End" \notin f.flags
                           THEN pending' = <<b>> /\ UNCHANGED encoded
                           ELSE encoded' = Append(encoded, b) /\ UNCHANGED pending

\* front() without pop_front(); bounded, as the buffer is never used up
StartFreeWithoutPop(f) == /\ Starts(f) /\ free # <<>> /\ "Config" \notin f.flags
                          /\ Len(encoded) <= Capacity
                          /\ buf' = [buf EXCEPT ![free[1]] = Copied(f)]
                          /\ encoded' = Append(encoded, free[1])
                          /\ UNCHANGED <<inited, free, pending, live, crashed>>

-----------------------------------------------------------------------------
(* init, with the destroy it calls: whatever the lists hold is deleted     *)
InitQueue == /\ ~crashed
             /\ inited' = TRUE
             /\ live' = (live \ (Elements(free) \union Elements(pending) \union Elements(encoded)))
                          \union Pool
             /\ free' = [i \in Pool |-> i]
             /\ pending' = <<>> /\ encoded' = <<>>
             /\ buf' = [b \in Pool \union Temporaries |-> Blank]
             /\ UNCHANGED crashed

ReadFront == /\ ~crashed
             /\ encoded # <<>>
             /\ free' = Append(free, Head(encoded))
             /\ encoded' = Tail(encoded)
             /\ UNCHANGED <<inited, pending, buf, live, crashed>>

Clear == /\ ~crashed
         /\ free' = free \o encoded
         /\ encoded' = <<>>
         /\ UNCHANGED <<inited, pending, buf, live, crashed>>

-----------------------------------------------------------------------------
(* write_back, one action per way through it                               *)

Ignore(f) == ~crashed /\ Ignored(f) /\ UNCHANGED vars

Overflows(f) == buf[pending[1]].length + f.length > BufferSize

\* the frame under assembly does not fit: its buffer goes back, the fragment is lost
GiveUp(f) == /\ Extends(f)
             /\ Overflows(f)
             /\ free' = Append(free, pending[1])
             /\ pending' = <<>>
             /\ UNCHANGED <<inited, encoded, buf, live, crashed>>

AppendPart(f) == /\ Extends(f)
                 /\ ~Overflows(f)
                 /\ Len(buf[pending[1]].parts) < MaxParts
                 /\ buf' = [buf EXCEPT ![pending[1]] = Appended(pending[1], f)]
                 /\ IF "End" \in f.flags
                      THEN pending' = <<>> /\ encoded' = Append(encoded, pending[1])
                      ELSE UNCHANGED <<pending, encoded>>
                 /\ UNCHANGED <<inited, free, live, crashed>>

\* a configuration waits for its frame; anything else is a frame of its own
Store(b, f) == IF "Config" \in f.flags
                 THEN pending' = <<b>> /\ UNCHANGED encoded
                 ELSE encoded' = Append(encoded, b) /\ UNCHANGED pending

StartTemporary(f) == /\ Starts(f) /\ free = <<>>
                     /\ \E b \in Temporaries \ live :
                          /\ live' = live \union {b}
                          /\ buf' = [buf EXCEPT ![b] = Copied(f)]
                          /\ Store(b, f)
                     /\ UNCHANGED <<inited, free, crashed>>

\* position of the first buffer of the pool: the temporaries ahead of it are deleted
FirstOfPool(k) == /\ k \in 1..Len(free)
                  /\ ~IsTemporary(free[k])
                  /\ \A i \in 1..(k - 1) : IsTemporary(free[i])

StartFree(f) == /\ Starts(f)
                /\ \E k \in 1..Len(free) :
                     /\ FirstOfPool(k)
                     /\ live' = live \ {free[i] : i \in 1..(k - 1)}
                     /\ free' = SubSeq(free, k + 1, Len(free))
                     /\ buf' = [buf EXCEPT ![free[k]] = Copied(f)]
                     /\ Store(free[k], f)
                /\ UNCHANGED <<inited, crashed>>

\* the free list holds temporaries only: the loop deletes them all, pop_front
\* and reset then act on an empty list and a deleted buffer
Crash(f) == /\ Starts(f) /\ free # <<>>
            /\ \A i \in 1..Len(free) : IsTemporary(free[i])
            /\ crashed' = TRUE
            /\ UNCHANGED <<inited, free, pending, encoded, buf, live>>

WriteBack(f) == \/ Ignore(f)
                \/ GiveUp(f)
                \/ AppendPart(f)
                \/ StartTemporary(f)
                \/ StartFree(f)
                \/ Crash(f)

Next == \/ InitQueue
        \/ ReadFront
        \/ Clear
        \/ \E f \in Fragments : WriteBack(f)

Spec == Init /\ [][Next]_vars

-----------------------------------------------------------------------------
(* Properties                                                              *)

Names    == Pool \union Temporaries
Contents == [flags : SUBSET Flags, length : 0..BufferSize, parts : Seq(Fragments)]

(* The types; the range of length says that neither copy nor append ever   *)
(* writes past the end of a buffer.                                        *)
TypeOK == /\ inited \in BOOLEAN /\ crashed \in BOOLEAN
          /\ free \in Seq(Names) /\ pending \in Seq(Names) /\ encoded \in Seq(Names)
          /\ Len(pending) <= 1
          /\ buf \in [Names -> Contents]
          /\ live \subseteq Names

Places(b) == {<<"free", i>> : i \in {j \in 1..Len(free) : free[j] = b}}
               \union {<<"pending", i>> : i \in {j \in 1..Len(pending) : pending[j] = b}}
               \union {<<"encoded", i>> : i \in {j \in 1..Len(encoded) : encoded[j] = b}}

(* Every allocated buffer is in exactly one place and every list holds     *)
(* allocated buffers only: nothing leaks, nothing is deleted twice, and no *)
(* frame waiting to be read can be overwritten through the free list.      *)
OwnedOnce == \A b \in Names : Cardinality(Places(b)) = IF b \in live THEN 1 ELSE 0

(* The buffers init allocated are never deleted.                           *)
PoolSurvives == inited => Pool \subseteq live

(* Of all the parts of a frame that waits to be read: if any is a          *)
(* configuration (SPS/PPS), the frame begins with one, something follows   *)
(* it, and the frame was closed by the first End behind its head.  What    *)
(* closes it need not be a picture: a second configuration marked End does *)
(* as well (<<c, c>>), since write_back asks a pending buffer for its      *)
(* frame end only.                                                         *)
ConfigTravelsWithFrame ==
    \A i \in 1..Len(encoded) :
        LET parts == buf[encoded[i]].parts
            last  == Len(parts)
        IN  (\E k \in 1..last : "Config" \in parts[k].flags)
              => /\ "Config" \in parts[1].flags
                 /\ last > 1
                 /\ "End" \in parts[last].flags
                 /\ \A k \in 2..(last - 1) : "End" \notin parts[k].flags

(* The queue is a frame assembler: recycling buffers, temporaries and the  *)
(* overflow branch never mix, reorder or alter frames that wait to be read.*)
Assembler == INSTANCE FrameAssembler
               WITH open  <- IF pending = <<>> THEN <<>> ELSE buf[pending[1]].parts,
                    ready <- [i \in 1..Len(encoded) |-> buf[encoded[i]].parts]

ImplementsAssembler == Assembler!Spec
=============================================================================
