----------------------------- MODULE MCVcClient -----------------------------
(* An instance of VcClient for TLC: more threads than waiters.             *)
EXTENDS VcClient, TLC

CONSTANTS t1, t2, t3

MCThreads  == {t1, t2, t3}
MCSymmetry == Permutations(MCThreads)
=============================================================================
