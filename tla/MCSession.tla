----------------------------- MODULE MCSession -----------------------------
(* Instances of Session for TLC: two pages and two calls, or a single call.*)
EXTENDS Session, TLC

CONSTANTS p1, p2, s1, s2

MCPages      == {p1, p2}
MCSessions   == {s1, s2}
OnePage      == {p1}
OneSession   == {s1}
MCSymmetry   == Permutations(MCPages) \union Permutations(MCSessions)
=============================================================================
