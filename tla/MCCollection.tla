----------------------------- MODULE MCCollection -----------------------------
(* Small instances of Collection for TLC. *)
EXTENDS Collection, TLC

CONSTANTS a1, a2, r1, r2, v1, v2, w1, w2, w3

ConnsOne == {a1}
ConnsTwo == {a1, a2}
ReqsTwo == {r1, r2}
VmsTwo == {v1, v2}
WorkersOne == {w1}
WorkersTwo == {w1, w2}
WorkersThree == {w1, w2, w3}
NoWorkers == {}
WorkersBad == {w3}

\* Requests and VM identities are interchangeable.
Symmetry == Permutations(ReqsTwo) \cup Permutations(VmsTwo)

NoFaults == {}
Exceptions == {"exception"}
OnlyCrashes == {"crash"}
AllFaults == FaultKinds
=============================================================================
