------------------------------ MODULE UserAdmin ------------------------------
(***************************************************************************)
(* Account administration as the API runs it: every request of an          *)
(* administrator is a database transaction that authorises its actor,      *)
(* reads the account, decides on what it read, writes, and commits, while  *)
(* other requests do the same.                                             *)
(*                                                                         *)
(* PostgreSQL runs READ COMMITTED: each statement sees what is committed   *)
(* when it starts; an UPDATE or DELETE waits for the transaction that      *)
(* holds a row it found; nobody takes a lock by reading.  The ORM writes   *)
(* the columns whose value differs from the one it loaded.                 *)
(***************************************************************************)
EXTENDS AccountLifecycle

CONSTANTS
    Users,      \* user names, registered or not
    Conns,      \* connections an account can be given
    Root,       \* the administrator the first start of the portal creates
    Reqs,       \* administration requests that can be in flight at once
    RolesAsked  \* the roles requests ask for

ASSUME UserAdminAssumption == Root \in Users /\ RolesAsked \subseteq Roles

VARIABLES
    user,     \* committed accounts
    granted,  \* committed rows of user_connection_scopes
    req       \* the requests in flight

vars == <<user, granted, req>>

Operations == {"approve", "reject", "disable", "enable", "change_role",
               "set_scopes"}

Steps == {"idle", "load", "guard", "write", "scopes", "deleting", "insert",
          "commit"}

Request == [pc : Steps,
            op : Operations,
            actor : Users,
            target : Users,
            role : Roles,              \* the role asked for
            ids : SUBSET Conns,        \* the scopes asked for
            read : AccountRow,         \* the account as _require_user read it
            found : SUBSET Conns,      \* rows the DELETE found
            deleted : SUBSET Conns,    \* rows this transaction deleted
            inserted : SUBSET Conns]   \* rows this transaction inserted

Idle == [pc |-> "idle", op |-> "enable", actor |-> Root, target |-> Root,
         role |-> "viewer", ids |-> {}, read |-> NoAccount,
         found |-> {}, deleted |-> {}, inserted |-> {}]

TypeOK ==
    /\ user \in [Users -> AccountRow]
    /\ granted \in [Users -> SUBSET Conns]
    /\ req \in [Reqs -> Request]

Init ==
    /\ user = [u \in Users |-> IF u = Root THEN BootstrapAdmin ELSE NoAccount]
    /\ granted = [u \in Users |-> {}]
    /\ req = [r \in Reqs |-> Idle]

Live(r) == req[r].pc # "idle"

Becomes(r, t) == req' = [req EXCEPT ![r] = t]

-----------------------------------------------------------------------------
(* What a request decides and writes                                       *)

\* Mutant: an operation moves the account whatever its status.
AllowedAnyway(t, account) ==
    /\ t.op \in {"disable", "change_role"} => t.actor # t.target
    /\ t.op = "set_scopes" => account.role # "admin"

\* _check_transition, _guard_self and the refusal of set_scopes.
Allowed(t, account) ==
    /\ t.op \in DOMAIN NewStatus =>
         NewStatus[t.op] \in ALLOWED_TRANSITIONS[account.status]
    /\ t.op \in {"disable", "change_role"} => t.actor # t.target
    /\ t.op = "set_scopes" => account.role # "admin"

\* _guard_last_admin is asked for.
TakesAdminAway(t, account) ==
    /\ account.role = "admin"
    /\ \/ t.op = "disable"
       \/ t.op = "change_role" /\ t.role # "admin"

\* Mutant: a deactivation writes a status the table does not know.
WantedInactive(t) ==
    [status |-> IF t.op = "disable" THEN "inactive"
                ELSE IF t.op \in DOMAIN NewStatus THEN NewStatus[t.op]
                ELSE t.read.status,
     role |-> IF t.op \in {"approve", "change_role"} THEN t.role
              ELSE t.read.role]

\* What the ORM holds after the attributes are set.
Wanted(t) ==
    [status |-> IF t.op \in DOMAIN NewStatus THEN NewStatus[t.op]
                ELSE t.read.status,
     role |-> IF t.op \in {"approve", "change_role"} THEN t.role
              ELSE t.read.role]

\* Mutant: the UPDATE names every column.
UpdatedWhole(current, loaded, wanted) == wanted

Updated(current, loaded, wanted) ==
    [status |-> IF wanted.status = loaded.status
                THEN current.status ELSE wanted.status,
     role |-> IF wanted.role = loaded.role THEN current.role ELSE wanted.role]

WritesAccount(t) == t.op # "set_scopes"

\* Mutant: a promotion leaves the scope rows where they are.
ReplacesScopesUnlessPromoted(t) == t.op \in {"approve", "set_scopes"}

ReplacesScopes(t) ==
    \/ t.op \in {"approve", "set_scopes"}
    \/ t.op = "change_role" /\ t.role = "admin"

\* Mutant: an application approved as an administrator keeps the scopes asked for.
GrantsToAdmins(t) == IF t.op \in {"approve", "set_scopes"} THEN t.ids ELSE {}

\* The rows ScopeRepository.replace is given.
Grants(t) ==
    IF t.op = "set_scopes" \/ (t.op = "approve" /\ t.role # "admin")
    THEN t.ids ELSE {}

\* A transaction that has written the account of u holds its row.
AccountLocked(u) ==
    \E q \in Reqs : /\ req[q].target = u
                    /\ WritesAccount(req[q])
                    /\ req[q].pc \in {"scopes", "deleting", "insert", "commit"}

\* The scope rows of u that an open transaction has deleted or inserted.
RowsHeld(u, r) ==
    UNION {req[q].deleted \cup req[q].inserted :
             q \in {x \in Reqs \ {r} : req[x].target = u}}

-----------------------------------------------------------------------------
(* The steps of a request                                                  *)

\* RegistrationService.register; the name is unique.
Register(u) ==
    /\ user[u].status = "none"
    /\ user' = [user EXCEPT ![u] = Application]
    /\ UNCHANGED <<granted, req>>

\* get_current_user, get_access_scope and require: the actor is an active
\* administrator when the request comes in.  It is not looked at again.
Authorize(r, a, u, op, role, ids) ==
    /\ ~Live(r)
    /\ ManagesUsers(user[a])
    /\ user[u].status # "none"
    /\ role # "viewer" => op \in {"approve", "change_role"}
    /\ ids # {} => op \in {"approve", "set_scopes"}
    /\ Becomes(r, [Idle EXCEPT !.pc = "load", !.op = op, !.actor = a,
                               !.target = u, !.role = role, !.ids = ids])
    /\ UNCHANGED <<user, granted>>

\* _require_user and the checks on what it read; a refusal ends the request.
Load(r) ==
    LET t == req[r]
        account == user[t.target]
    IN /\ t.pc = "load"
       /\ Becomes(r, IF ~Allowed(t, account) THEN Idle
                     ELSE [t EXCEPT !.read = account,
                                    !.pc = IF TakesAdminAway(t, account)
                                           THEN "guard"
                                           ELSE IF WritesAccount(t)
                                           THEN "write" ELSE "scopes"])
       /\ UNCHANGED <<user, granted>>

\* count_active_admins(exclude=u), as committed when it is asked.
OtherAdmins(u) == {x \in Users \ {u} : ManagesUsers(user[x])}

Guard(r) ==
    /\ req[r].pc = "guard"
    /\ Becomes(r, IF OtherAdmins(req[r].target) = {} THEN Idle
                  ELSE [req[r] EXCEPT !.pc = "write"])
    /\ UNCHANGED <<user, granted>>

\* set_status and set_role: the UPDATE takes the row and keeps it.
Write(r) ==
    /\ req[r].pc = "write"
    /\ ~AccountLocked(req[r].target)
    /\ Becomes(r, [req[r] EXCEPT !.pc = IF ReplacesScopes(req[r])
                                        THEN "scopes" ELSE "commit"])
    /\ UNCHANGED <<user, granted>>

\* Mutant: the scopes are added to those that are there.
FindNothing(u) == {}

FindScopes(u) == granted[u]

\* ScopeRepository.replace: the DELETE finds the rows committed by now, ...
ScopesFind(r) ==
    /\ req[r].pc = "scopes"
    /\ Becomes(r, [req[r] EXCEPT !.pc = "deleting",
                                 !.found = FindScopes(req[r].target)])
    /\ UNCHANGED <<user, granted>>

\* ... and waits for the transactions that hold one of them.
ScopesDelete(r) ==
    LET t == req[r] IN
    /\ t.pc = "deleting"
    /\ t.found \cap RowsHeld(t.target, r) = {}
    /\ Becomes(r, [t EXCEPT !.pc = "insert", !.found = {},
                            !.deleted = t.found])
    /\ UNCHANGED <<user, granted>>

\* The INSERT waits for the transactions that hold one of its keys and fails
\* on a key that is there: the request ends and its transaction rolls back.
ScopesInsert(r) ==
    LET t == req[r] IN
    /\ t.pc = "insert"
    /\ Grants(t) \cap RowsHeld(t.target, r) = {}
    /\ Becomes(r, IF Grants(t) \cap (granted[t.target] \ t.deleted) # {}
                  THEN Idle
                  ELSE [t EXCEPT !.pc = "commit", !.inserted = Grants(t)])
    /\ UNCHANGED <<user, granted>>

\* The requests once r is over and what it deleted is gone: a DELETE that waits
\* skips those rows, even if r has inserted their keys again.
ReqsAfter(r) ==
    [q \in Reqs |->
       IF q = r THEN Idle
       ELSE IF req[q].target = req[r].target
       THEN [req[q] EXCEPT !.found = @ \ req[r].deleted]
       ELSE req[q]]

\* The commit of the route.
Commit(r) ==
    LET t == req[r]
        u == t.target
    IN /\ t.pc = "commit"
       /\ user' = IF WritesAccount(t)
                  THEN [user EXCEPT ![u] = Updated(@, t.read, Wanted(t))]
                  ELSE user
       /\ granted' = [granted EXCEPT ![u] = (@ \ t.deleted) \cup t.inserted]
       /\ req' = ReqsAfter(r)

\* A database error at any statement, the one that writes the audit event
\* included: the request fails and get_db rolls back.
Fails(r) ==
    /\ Live(r)
    /\ Becomes(r, Idle)
    /\ UNCHANGED <<user, granted>>

Advance(r) ==
    \/ Load(r) \/ Guard(r) \/ Write(r)
    \/ ScopesFind(r) \/ ScopesDelete(r) \/ ScopesInsert(r) \/ Commit(r)

Next ==
    \/ \E u \in Users : Register(u)
    \/ \E r \in Reqs, a, u \in Users, op \in Operations,
          role \in RolesAsked \cup {"viewer"}, ids \in SUBSET Conns :
            Authorize(r, a, u, op, role, ids)
    \/ \E r \in Reqs : Advance(r) \/ Fails(r)

Spec == Init /\ [][Next]_vars

\* The database answers every statement, and serves those that wait for a row in
\* the order they came, so nobody waits for ever while others take the row in
\* turn.  Nobody has to click or to fail.
FairSpec == Spec /\ \A r \in Reqs : SF_vars(Advance(r))

-----------------------------------------------------------------------------
(* Properties                                                              *)

\* With one request at a time, administration is what Accounts promises.
Promise == INSTANCE Accounts

ImplementsAccounts == Promise!Spec

\* There is always an active administrator: a demotion or a deactivation that
\* would leave none is refused (UserAdminService._guard_last_admin).
SomeAdmin == \E u \in Users : ManagesUsers(user[u])

\* A rejected application stays rejected (UserStatus.REJECTED).
RejectedIsFinal ==
    [][\A u \in Users :
         user[u].status = "rejected" => user'[u].status = "rejected"]_vars

\* A request that replaces the scopes of an account leaves those it was given,
\* and no other (ScopeRepository.replace).
ScopesAreReplaced ==
    [][\A r \in Reqs :
         Commit(r) /\ ReplacesScopes(req[r]) =>
           granted'[req[r].target] = Grants(req[r])]_vars

\* An administrator has no scope rows that a demotion would bring back.
AdminsUnscoped == \A u \in Users : user[u].role = "admin" => granted[u] = {}

\* A request changes only the columns it is about, although it writes an
\* account that it read earlier: a deactivation never takes back a role that
\* somebody else has given meanwhile, a change of role never takes back a
\* status (UserRepository.set_status, set_role).
ColumnsAreTheRequests ==
    [][\A u \in Users :
         /\ user'[u].role # user[u].role =>
              \E r \in Reqs : /\ req[r].pc = "commit" /\ req[r].target = u
                              /\ req[r].op \in {"approve", "change_role"}
                              /\ req[r].role = user'[u].role
         /\ user'[u].status # user[u].status /\ user[u].status # "none" =>
              \E r \in Reqs : /\ req[r].pc = "commit" /\ req[r].target = u
                              /\ req[r].op \in DOMAIN NewStatus
                              /\ NewStatus[req[r].op] = user'[u].status]_vars
=============================================================================
