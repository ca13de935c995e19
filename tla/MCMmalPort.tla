----------------------------- MODULE MCMmalPort -----------------------------
(* A port with two threads that call into it and one buffer.               *)
EXTENDS MmalPort, TLC

CONSTANTS t1, t2, b1

MCThreads == {t1, t2}
MCBuffers == {b1}
=============================================================================
