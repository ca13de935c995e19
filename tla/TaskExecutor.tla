---------------------------- MODULE TaskExecutor ----------------------------
(***************************************************************************)
(* What a user of DispatchQueue (src/src/dispatchqueue.hpp) may rely on:   *)
(* tasks start in the order they were submitted, each at most once, at     *)
(* most Width at a time, none after the executor was closed; and while it  *)
(* is open a task is never left pending beside an idle thread.  Threads,   *)
(* locks and wake-ups do not appear here.                                  *)
(***************************************************************************)
EXTENDS Naturals, Sequences, FiniteSets

CONSTANTS Tasks,   \* everything that may ever be submitted
          Width    \* number of tasks that may run at once

VARIABLES pending,   \* submitted, not started, oldest first
          running,   \* tasks being executed
          closed     \* no task starts any more

vars == <<pending, running, closed>>

Init == pending = <<>> /\ running = {} /\ closed = FALSE

Submit == /\ \E t \in Tasks : pending' = Append(pending, t)
          /\ UNCHANGED <<running, closed>>

Begin == /\ ~closed
         /\ pending # <<>>
         /\ Cardinality(running) < Width
         /\ Head(pending) \notin running
         /\ running' = running \union {Head(pending)}
         /\ pending' = Tail(pending)
         /\ UNCHANGED closed

Finish == /\ \E t \in running : running' = running \ {t}
          /\ UNCHANGED <<pending, closed>>

Discard == pending' = <<>> /\ UNCHANGED <<running, closed>>

Close == closed' = TRUE /\ UNCHANGED <<pending, running>>

Next == Submit \/ Begin \/ Finish \/ Discard \/ Close

Spec == Init /\ [][Next]_vars

(* No assumption that a task ever finishes: one that blocks for ever must  *)
(* not keep the others from starting on the remaining threads.             *)
FairSpec == Spec /\ WF_vars(Begin)
=============================================================================
