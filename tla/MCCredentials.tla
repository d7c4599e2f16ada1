---------------------------- MODULE MCCredentials ----------------------------
(* Small instances of Credentials for TLC. *)
EXTENDS Credentials

CONSTANTS root, u1, p1, p2, t1, r1, r2

UsersTwo == {root, u1}
AdminsOne == {root}
OwnTwo == {p1, p2}
TemporaryOne == {t1}
ReqsOne == {r1}
ReqsTwo == {r1, r2}
=============================================================================
