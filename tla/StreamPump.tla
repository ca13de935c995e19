----------------------------- MODULE StreamPump -----------------------------
(***************************************************************************)
(* The one user of the frame queue: the camera callback installed by       *)
(* startStream (src/src/server.cpp) writes the fragment it was given and   *)
(* reads at most one frame back, every time.  start_recorder initialises   *)
(* the queue before the first callback.                                    *)
(***************************************************************************)
EXTENDS FrameQueue

\* the encoder recommends at least one buffer
ASSUME PumpAssumption == Capacity >= 1

VARIABLE step    \* what the callback does next: "write" or "read"

pumpVars == <<vars, step>>

\* Faulty variant: reads only when the write finished a frame
ReadOnFrameEnd == /\ step = "read"
                  /\ IF encoded # <<>> /\ IsFrameEnd(Head(encoded)) THEN ReadFront ELSE UNCHANGED vars
                  /\ step' = "write"

PumpInit == Init /\ step = "write"

Setup == ~inited /\ InitQueue /\ UNCHANGED step

WriteFragment(f) == /\ inited
                    /\ step = "write"
                    /\ WriteBack(f)
                    /\ step' = "read"

ReadFrame == /\ step = "read"
             /\ \/ ReadFront
                \/ encoded = <<>> /\ UNCHANGED vars
             /\ step' = "write"

PumpNext == Setup \/ ReadFrame \/ \E f \in Fragments : WriteFragment(f)

PumpSpec == PumpInit /\ [][PumpNext]_pumpVars

-----------------------------------------------------------------------------
(* The callback never makes write_back allocate a temporary buffer, so the *)
(* path that empties a free list of temporaries and then uses it is never  *)
(* taken - provided the pool has at least one buffer.                      *)
PoolSuffices == ~crashed /\ live \cap Temporaries = {}

(* No frame is left behind between two callbacks: what is streamed is      *)
(* never older than the fragment just written.                             *)
NothingLeftBehind == step = "write" => encoded = <<>>
=============================================================================
