------------------------------- MODULE MCPortal -------------------------------
(* Small instances of Portal for TLC. *)
EXTENDS Portal, TLC

CONSTANTS w1, w2, r1, r2, c1, c2, c3, t1, t2

WorkersTwo == {w1, w2}
ReqsTwo == {r1, r2}
IdsThree == {c1, c2, c3}
TargetsTwo == {t1, t2}

\* Requests and targets are interchangeable.
Symmetry == Permutations(ReqsTwo) \cup Permutations(TargetsTwo)
=============================================================================
