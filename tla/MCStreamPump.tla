---------------------------- MODULE MCStreamPump ----------------------------
(* Instance of StreamPump for TLC.                                         *)
EXTENDS StreamPump, TLC

CONSTANTS t1, t2

MCTemporaries == {t1, t2}

Fragment(n, F) == [length |-> n, flags |-> F]

MCFragments == {Fragment(0, {}), Fragment(0, {"EOS"}), Fragment(1, {"Config", "End"}),
                Fragment(2, {}), Fragment(1, {"End"}), Fragment(3, {"Start", "End"}),
                Fragment(4, {"Start", "End"})}
=============================================================================
