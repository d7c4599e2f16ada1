------------------------------ MODULE Passwords ------------------------------
(***************************************************************************)
(* What the handling of passwords promises: an account has one password,   *)
(* which its owner or an administrator replaces at once, and a password    *)
(* that an administrator issued has to be replaced by the owner.           *)
(* Credentials is the detailed specification: transactions, hashes, failed *)
(* logins.                                                                 *)
(***************************************************************************)
CONSTANTS
    Users,      \* user names, registered or not
    Root,       \* the administrator the first start of the portal creates
    Admins,     \* the users who are administrators
    Own,        \* passwords people choose
    Temporary,  \* passwords the portal generates
    NoPassword  \* of a name nobody has applied for

VARIABLES
    password,   \* the password of each user
    mustChange  \* the users who have to change it first

vars == <<password, mustChange>>

Init ==
    /\ \E p \in Own :
         password = [u \in Users |-> IF u = Root THEN p ELSE NoPassword]
    /\ mustChange = {}

Register(u, p) ==
    /\ password[u] = NoPassword
    /\ password' = [password EXCEPT ![u] = p]
    /\ UNCHANGED mustChange

Change(u, p) ==
    /\ password[u] # NoPassword
    /\ p # password[u]
    /\ password' = [password EXCEPT ![u] = p]
    /\ mustChange' = mustChange \ {u}

\* By an administrator who knows a password of their own.
Reset(a, u, p) ==
    /\ {password[a], password[u]} \cap {NoPassword} = {}
    /\ a \notin mustChange
    /\ password' = [password EXCEPT ![u] = p]
    /\ mustChange' = mustChange \cup {u}

Next ==
    \E u \in Users :
      \/ \E p \in Own : Register(u, p) \/ Change(u, p)
      \/ \E a \in Admins, p \in Temporary : Reset(a, u, p)

Spec == Init /\ [][Next]_vars
=============================================================================
