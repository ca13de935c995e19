---------------------------- MODULE MCFrameQueue ----------------------------
(* Instance of FrameQueue for TLC.  The queue's users may lag behind by at *)
(* most Capacity + |Temporaries| frames, the number of buffers there are.  *)
EXTENDS FrameQueue, TLC

CONSTANTS t1, t2

MCTemporaries == {t1, t2}
MCSymmetry    == Permutations(MCTemporaries)

Fragment(n, F) == [length |-> n, flags |-> F]

MCFragments == {Fragment(0, {}),                  \* ignored
                Fragment(0, {"EOS"}),             \* empty, but with a flag
                Fragment(1, {"Config", "End"}),   \* SPS/PPS as the encoder marks it
                Fragment(2, {}),                  \* middle of a frame
                Fragment(1, {"End"}),             \* last part of a frame
                Fragment(3, {"Start", "End"}),    \* fills a buffer
                Fragment(4, {"Start", "End"})}    \* larger than a buffer
=============================================================================
