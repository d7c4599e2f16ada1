------------------------------- MODULE Accounts -------------------------------
(***************************************************************************)
(* What account administration promises: every operation of an             *)
(* administrator happens at once.  UserAdmin is the detailed specification *)
(* with the transactions, their reads and their waits.                     *)
(***************************************************************************)
EXTENDS AccountLifecycle

CONSTANTS
    Users,  \* user names, registered or not
    Conns,  \* connections an account can be given
    Root    \* the administrator the first start of the portal creates

VARIABLES
    user,     \* the account of each user
    granted   \* the connections each account may see

vars == <<user, granted>>

TypeOK ==
    /\ user \in [Users -> AccountRow]
    /\ granted \in [Users -> SUBSET Conns]

Init ==
    /\ user = [u \in Users |-> IF u = Root THEN BootstrapAdmin ELSE NoAccount]
    /\ granted = [u \in Users |-> {}]

-----------------------------------------------------------------------------
Register(u) ==
    /\ user[u].status = "none"
    /\ user' = [user EXCEPT ![u] = Application]
    /\ UNCHANGED granted

\* Administrator a gives the account of u the status s.
Moves(a, u, s) ==
    /\ ManagesUsers(user[a])
    /\ user[u].status \in UserStatus
    /\ s \in ALLOWED_TRANSITIONS[user[u].status]

\* The role and the scopes come with the approval; an administrator sees
\* everything and is given none.
Approve(a, u, role, ids) ==
    /\ Moves(a, u, "active")
    /\ user' = [user EXCEPT ![u] = [status |-> "active", role |-> role]]
    /\ granted' = [granted EXCEPT ![u] = IF role = "admin" THEN {} ELSE ids]

Reject(a, u) ==
    /\ Moves(a, u, "rejected")
    /\ user' = [user EXCEPT ![u].status = "rejected"]
    /\ UNCHANGED granted

Disable(a, u) ==
    /\ a # u
    /\ Moves(a, u, "disabled")
    /\ user' = [user EXCEPT ![u].status = "disabled"]
    /\ UNCHANGED granted

Enable(a, u) ==
    /\ Moves(a, u, "active")
    /\ user' = [user EXCEPT ![u].status = "active"]
    /\ UNCHANGED granted

ChangeRole(a, u, role) ==
    /\ a # u
    /\ ManagesUsers(user[a])
    /\ user[u].status # "none"
    /\ user' = [user EXCEPT ![u].role = role]
    /\ granted' = [granted EXCEPT ![u] = IF role = "admin" THEN {} ELSE @]

SetScopes(a, u, ids) ==
    /\ ManagesUsers(user[a])
    /\ user[u].status # "none"
    /\ user[u].role # "admin"
    /\ granted' = [granted EXCEPT ![u] = ids]
    /\ UNCHANGED user

Next ==
    \/ \E u \in Users : Register(u)
    \/ \E a, u \in Users :
         \/ Reject(a, u) \/ Disable(a, u) \/ Enable(a, u)
         \/ \E role \in Roles : ChangeRole(a, u, role)
         \/ \E ids \in SUBSET Conns :
              SetScopes(a, u, ids) \/ \E role \in Roles : Approve(a, u, role, ids)

Spec == Init /\ [][Next]_vars

-----------------------------------------------------------------------------
(* Properties                                                              *)

\* Somebody can always approve applications and manage connections: the portal
\* never locks everybody out (UserAdminService._guard_last_admin).
SomeAdmin == \E u \in Users : ManagesUsers(user[u])

\* An administrator sees everything through the role alone and has no scope
\* rows that would come back to life with a demotion (change_role, set_scopes).
AdminsUnscoped == \A u \in Users : user[u].role = "admin" => granted[u] = {}

\* A rejected application stays rejected (UserStatus.REJECTED).
RejectedIsFinal ==
    [][\A u \in Users :
         user[u].status = "rejected" => user'[u].status = "rejected"]_vars
=============================================================================
