------------------------------ MODULE MCSession -------------------------------
(* Session with its symmetry.                                              *)
EXTENDS Session, TLC

CONSTANTS p1, p2, t0, t1, t2, b1, b2

Symmetry == Permutations(Procs) \cup Permutations(Threads \ Outside)
              \cup Permutations(Branches)
=============================================================================
