----------------------------- MODULE MCUserAdmin -----------------------------
(* Small instances of UserAdmin for TLC. *)
EXTENDS UserAdmin, TLC

CONSTANTS root, u1, u2, a1, a2, r1, r2

UsersTwo == {root, u1}
UsersThree == {root, u1, u2}
ConnsOne == {a1}
ConnsTwo == {a1, a2}
ReqsOne == {r1}
ReqsTwo == {r1, r2}
RolesTwo == {"viewer", "admin"}

\* Requests are interchangeable.
Symmetry == Permutations(ReqsTwo)
=============================================================================
