----------------------------- MODULE MCRecorder -----------------------------
(* start_recorder with two buffers in each pool: enough for one to wait    *)
(* behind another everywhere.                                              *)
EXTENDS Recorder

CONSTANTS r1, r2, c1, c2

MCRaw   == {r1, r2}
MCCoded == {c1, c2}
=============================================================================
