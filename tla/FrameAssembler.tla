--------------------------- MODULE FrameAssembler ---------------------------
(***************************************************************************)
(* What FrameQueue (src/src/frame_queue.h) promises, without buffers, free *)
(* list or temporaries: fragments are put together to frames; frames leave *)
(* in the order they were completed, unchanged; a configuration fragment   *)
(* is held back until it can leave with the frame it belongs to.           *)
(***************************************************************************)
EXTENDS Naturals, Sequences

CONSTANT Fragments

VARIABLES open,    \* the fragments of the frame being assembled, <<>> if none
          ready    \* complete frames not yet read, oldest first

vars == <<open, ready>>

IsConfig(f)   == "Config" \in f.flags
IsFrameEnd(f) == "End" \in f.flags

Init == open = <<>> /\ ready = <<>>

OpenFrame(f) == /\ open = <<>> /\ IsConfig(f)
                /\ open' = <<f>>
                /\ UNCHANGED ready

WholeFrame(f) == /\ open = <<>> /\ ~IsConfig(f)
                 /\ ready' = Append(ready, <<f>>)
                 /\ UNCHANGED open

Extend(f) == /\ open # <<>> /\ ~IsFrameEnd(f)
             /\ open' = Append(open, f)
             /\ UNCHANGED ready

Complete(f) == /\ open # <<>> /\ IsFrameEnd(f)
               /\ ready' = Append(ready, Append(open, f))
               /\ open' = <<>>

\* a frame that does not fit is given up, with the fragment that did not fit
GiveUp == open # <<>> /\ open' = <<>> /\ UNCHANGED ready

Read == ready # <<>> /\ ready' = Tail(ready) /\ UNCHANGED open

Clear == ready' = <<>> /\ UNCHANGED open

Reset == open' = <<>> /\ ready' = <<>>

Next == \/ \E f \in Fragments : OpenFrame(f) \/ WholeFrame(f) \/ Extend(f) \/ Complete(f)
        \/ GiveUp \/ Read \/ Clear \/ Reset

Spec == Init /\ [][Next]_vars
=============================================================================
