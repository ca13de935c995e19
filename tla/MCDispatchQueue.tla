--------------------------- MODULE MCDispatchQueue ---------------------------
(* Instance of DispatchQueue for TLC.                                      *)
EXTENDS DispatchQueue, TLC

CONSTANTS c1, c2, op1, op2, op3

MCCallers == {c1, c2}
MCOps     == {op1, op2, op3}
=============================================================================
