--------------------------- MODULE UserAdminProofs ---------------------------
(* Theorems about UserAdmin: type correctness for any number of requests at
   once, and what administration keeps when requests come one at a time. *)
EXTENDS UserAdmin, TLAPS

-----------------------------------------------------------------------------
(* Type correctness                                                        *)

LEMMA IdleType == Idle \in Request
BY UserAdminAssumption
DEF Idle, Request, Steps, Operations, Roles, NoAccount, AccountRow, UserStatus

\* An UPDATE of well-formed accounts writes a well-formed account.
LEMMA WrittenType ==
  ASSUME NEW t \in Request, NEW current \in AccountRow
  PROVE  Updated(current, t.read, Wanted(t)) \in AccountRow
<1>1. t.read \in AccountRow /\ t.role \in Roles /\ t.op \in Operations
  BY DEF Request
<1>2. DOMAIN NewStatus = {"approve", "reject", "disable", "enable"}
  BY DEF NewStatus
<1>3. t.op \in DOMAIN NewStatus => NewStatus[t.op] \in UserStatus
  BY <1>2 DEF NewStatus, UserStatus
<1>4. Wanted(t) \in AccountRow
  BY <1>1, <1>3 DEF Wanted, AccountRow
<1>5. QED
  BY <1>1, <1>4 DEF Updated, AccountRow

LEMMA BecomesType ==
  ASSUME TypeOK, NEW r \in Reqs, NEW t \in Request, Becomes(r, t),
         UNCHANGED <<user, granted>>
  PROVE  TypeOK'
BY DEF TypeOK, Becomes

LEMMA AdvanceType ==
  ASSUME TypeOK, NEW r \in Reqs, Advance(r)
  PROVE  TypeOK'
<1> DEFINE t == req[r]
<1>t. t \in Request
  BY DEF TypeOK
<1>user. user[t.target] \in AccountRow /\ granted[t.target] \in SUBSET Conns
  BY <1>t DEF TypeOK, Request
<1>1. CASE Load(r)
  <2> DEFINE next == IF TakesAdminAway(t, user[t.target]) THEN "guard"
                     ELSE IF WritesAccount(t) THEN "write" ELSE "scopes"
  <2>1. next \in Steps
    BY DEF Steps
  <2> HIDE DEF next
  <2>2. [t EXCEPT !.read = user[t.target], !.pc = next] \in Request
    BY <1>t, <1>user, <2>1 DEF Request
  <2>3. QED
    BY <1>1, <2>2, IdleType, BecomesType DEF Load, next
<1>2. CASE Guard(r)
  <2>1. [t EXCEPT !.pc = "write"] \in Request
    BY <1>t DEF Request, Steps
  <2>2. QED
    BY <1>2, <2>1, IdleType, BecomesType DEF Guard
<1>3. CASE Write(r)
  <2>1. /\ [t EXCEPT !.pc = "scopes"] \in Request
        /\ [t EXCEPT !.pc = "commit"] \in Request
    BY <1>t DEF Request, Steps
  <2>2. QED
    BY <1>3, <2>1, BecomesType DEF Write
<1>4. CASE ScopesFind(r)
  <2>1. [t EXCEPT !.pc = "deleting", !.found = FindScopes(t.target)] \in Request
    BY <1>t, <1>user DEF Request, Steps, FindScopes
  <2>2. QED
    BY <1>4, <2>1, BecomesType DEF ScopesFind
<1>5. CASE ScopesDelete(r)
  <2>1. [t EXCEPT !.pc = "insert", !.found = {}, !.deleted = t.found]
          \in Request
    BY <1>t DEF Request, Steps
  <2>2. QED
    BY <1>5, <2>1, BecomesType DEF ScopesDelete
<1>6. CASE ScopesInsert(r)
  <2>1. Grants(t) \in SUBSET Conns
    BY <1>t DEF Request, Grants
  <2>2. [t EXCEPT !.pc = "commit", !.inserted = Grants(t)] \in Request
    BY <1>t, <2>1 DEF Request, Steps
  <2>3. QED
    BY <1>6, <2>2, IdleType, BecomesType DEF ScopesInsert
<1>7. CASE Commit(r)
  <2>1. Updated(user[t.target], t.read, Wanted(t)) \in AccountRow
    BY <1>t, <1>user, WrittenType
  <2>2. user' \in [Users -> AccountRow]
    BY <1>7, <1>t, <2>1 DEF Commit, TypeOK
  <2>3. granted' \in [Users -> SUBSET Conns]
    BY <1>7, <1>t, <1>user DEF Commit, TypeOK, Request
  <2>4. ASSUME NEW q \in Reqs
        PROVE  [req[q] EXCEPT !.found = @ \ t.deleted] \in Request
    BY <1>t DEF TypeOK, Request
  <2>5. req' \in [Reqs -> Request]
    BY <1>7, <2>4, IdleType DEF Commit, ReqsAfter, TypeOK
  <2>6. QED
    BY <2>2, <2>3, <2>5 DEF TypeOK
<1>8. QED
  BY <1>1, <1>2, <1>3, <1>4, <1>5, <1>6, <1>7 DEF Advance

LEMMA AuthorizeType ==
  ASSUME TypeOK, NEW r \in Reqs, NEW a \in Users, NEW u \in Users,
         NEW op \in Operations, NEW role \in RolesAsked \cup {"viewer"},
         NEW ids \in SUBSET Conns, Authorize(r, a, u, op, role, ids)
  PROVE  TypeOK'
<1>1. role \in Roles
  BY UserAdminAssumption DEF Roles
<1>2. [Idle EXCEPT !.pc = "load", !.op = op, !.actor = a, !.target = u,
                   !.role = role, !.ids = ids] \in Request
  BY <1>1, IdleType DEF Request, Steps
<1>3. QED
  BY <1>2, BecomesType DEF Authorize

LEMMA RegisterType ==
  ASSUME TypeOK, NEW u \in Users, Register(u)
  PROVE  TypeOK'
<1>1. Application \in AccountRow
  BY DEF Application, AccountRow, UserStatus, Roles
<1>2. QED
  BY <1>1 DEF Register, TypeOK

LEMMA TypeStep ==
  ASSUME TypeOK, [Next]_vars
  PROVE  TypeOK'
<1>1. CASE UNCHANGED vars
  BY <1>1 DEF TypeOK, vars
<1>2. ASSUME NEW r \in Reqs, Advance(r) \/ Fails(r) PROVE TypeOK'
  BY <1>2, AdvanceType, IdleType, BecomesType DEF Fails
<1>3. QED
  BY <1>1, <1>2, RegisterType, AuthorizeType DEF Next

LEMMA InitType == Init => TypeOK
<1>1. BootstrapAdmin \in AccountRow /\ NoAccount \in AccountRow
  BY DEF BootstrapAdmin, NoAccount, AccountRow, UserStatus, Roles
<1>2. QED
  BY <1>1, IdleType DEF Init, TypeOK

\* Every behaviour is well typed, however many requests run at once.
THEOREM TypeCorrect == Spec => []TypeOK
BY InitType, TypeStep, PTL DEF Spec

-----------------------------------------------------------------------------
(* One request at a time                                                   *)

\* What a request that runs alone relies on: its actor is still an
\* administrator, the account is still as it was read, and the scope rows it
\* found are all there are.
Current(t) ==
    /\ t.pc # "idle" =>
         ManagesUsers(user[t.actor]) /\ user[t.target].status # "none"
    /\ t.pc \notin {"idle", "load"} =>
         t.read = user[t.target] /\ Allowed(t, t.read)
    /\ t.pc \in {"scopes", "deleting", "insert"} => ReplacesScopes(t)
    /\ t.pc = "deleting" => t.found = granted[t.target]
    /\ t.pc \notin {"insert", "commit"} => t.deleted = {}
    /\ t.pc # "commit" => t.inserted = {}
    /\ t.pc = "insert" => t.deleted = granted[t.target]
    /\ t.pc = "commit" /\ ReplacesScopes(t) =>
         t.deleted = granted[t.target] /\ t.inserted = Grants(t)
    /\ t.pc = "commit" /\ ~ReplacesScopes(t) =>
         t.deleted = {} /\ t.inserted = {}

LEMMA IdleCurrent == Current(Idle) /\ Current(Idle)'
BY DEF Current, Idle

LEMMA CurrentStep ==
  ASSUME TypeOK, NEW r, Reqs = {r}, Current(req[r]), [Next]_vars
  PROVE  Current(req[r])'
<1> DEFINE t == req[r]
<1>t. t \in Request
  BY DEF TypeOK
<1>now. ASSUME NEW u, Becomes(r, u) PROVE req'[r] = u
  BY <1>now DEF Becomes, TypeOK
<1>1. CASE UNCHANGED vars
  BY <1>1 DEF vars, Current, ManagesUsers
<1>2. ASSUME NEW u \in Users, Register(u) PROVE Current(req[r])'
  <2>1. \A x \in Users : user[x].status # "none" => user'[x] = user[x]
    BY <1>2 DEF Register, TypeOK
  <2>2. t.actor \in Users /\ t.target \in Users
    BY <1>t DEF Request
  <2>3. ManagesUsers(user[t.actor]) =>
          user[t.actor].status # "none" /\ ManagesUsers(user'[t.actor])
    BY <2>1, <2>2 DEF ManagesUsers
  <2>4. QED
    BY <1>2, <2>1, <2>2, <2>3 DEF Register, Current
<1>3. ASSUME NEW a \in Users, NEW u \in Users, NEW op \in Operations,
             NEW role, NEW ids, Authorize(r, a, u, op, role, ids)
      PROVE  Current(req[r])'
  <2>1. req'[r] = [Idle EXCEPT !.pc = "load", !.op = op, !.actor = a,
                               !.target = u, !.role = role, !.ids = ids]
    BY <1>3, <1>now DEF Authorize
  <2>2. /\ req'[r].pc = "load" /\ req'[r].actor = a /\ req'[r].target = u
        /\ req'[r].deleted = {} /\ req'[r].inserted = {}
    BY <2>1 DEF Idle
  <2>3. QED
    BY <1>3, <2>2 DEF Authorize, Current
<1>4. ASSUME Becomes(r, Idle) PROVE Current(req[r])'
  BY <1>4, <1>now, IdleCurrent DEF Current
<1>5. CASE Load(r)
  <2>1. CASE ~Allowed(t, user[t.target])
    BY <1>5, <2>1, <1>4 DEF Load
  <2>2. CASE Allowed(t, user[t.target])
    <3> DEFINE next == IF TakesAdminAway(t, user[t.target]) THEN "guard"
                       ELSE IF WritesAccount(t) THEN "write" ELSE "scopes"
               u == [t EXCEPT !.read = user[t.target], !.pc = next]
    <3>1. req'[r] = u
      BY <1>5, <2>2, <1>now DEF Load
    <3>2. /\ next \in {"guard", "write", "scopes"}
          /\ next = "scopes" => ~WritesAccount(t)
      OBVIOUS
    <3> HIDE DEF next
    <3>3. /\ u.pc = next /\ u.read = user[t.target]
          /\ u.actor = t.actor /\ u.target = t.target /\ u.op = t.op
          /\ u.role = t.role /\ u.ids = t.ids
          /\ u.deleted = t.deleted /\ u.inserted = t.inserted
      BY <1>t DEF Request
    <3> HIDE DEF u
    <3>4. QED
      BY <1>5, <2>2, <3>1, <3>2, <3>3
      DEF Load, Current, Allowed, ReplacesScopes, WritesAccount
  <2>3. QED
    BY <2>1, <2>2
<1>6. CASE Guard(r)
  <2>1. CASE OtherAdmins(t.target) = {}
    BY <1>6, <2>1, <1>4 DEF Guard
  <2>2. CASE OtherAdmins(t.target) # {}
    <3>1. req'[r] = [t EXCEPT !.pc = "write"]
      BY <1>6, <2>2, <1>now DEF Guard
    <3>2. QED
      BY <1>6, <1>t, <3>1 DEF Guard, Current, Request, Allowed
  <2>3. QED
    BY <2>1, <2>2
<1>7. CASE Write(r)
  <2>1. req'[r] = [t EXCEPT !.pc = IF ReplacesScopes(t)
                                   THEN "scopes" ELSE "commit"]
    BY <1>7, <1>now DEF Write
  <2>2. QED
    BY <1>7, <1>t, <2>1
    DEF Write, Current, Request, Allowed, ReplacesScopes
<1>8. CASE ScopesFind(r)
  <2>1. req'[r] = [t EXCEPT !.pc = "deleting", !.found = granted[t.target]]
    BY <1>8, <1>now DEF ScopesFind, FindScopes
  <2>2. QED
    BY <1>8, <1>t, <2>1
    DEF ScopesFind, Current, Request, Allowed, ReplacesScopes
<1>9. CASE ScopesDelete(r)
  <2>1. req'[r] = [t EXCEPT !.pc = "insert", !.found = {},
                            !.deleted = t.found]
    BY <1>9, <1>now DEF ScopesDelete
  <2>2. QED
    BY <1>9, <1>t, <2>1
    DEF ScopesDelete, Current, Request, Allowed, ReplacesScopes
<1>10. CASE ScopesInsert(r)
  <2>1. CASE Grants(t) \cap (granted[t.target] \ t.deleted) # {}
    BY <1>10, <2>1, <1>4 DEF ScopesInsert
  <2>2. CASE Grants(t) \cap (granted[t.target] \ t.deleted) = {}
    <3>1. req'[r] = [t EXCEPT !.pc = "commit", !.inserted = Grants(t)]
      BY <1>10, <2>2, <1>now DEF ScopesInsert
    <3>2. QED
      BY <1>10, <1>t, <3>1
      DEF ScopesInsert, Current, Request, Allowed, ReplacesScopes, Grants
  <2>3. QED
    BY <2>1, <2>2
<1>11. CASE Commit(r)
  <2>1. req'[r] = Idle
    BY <1>11 DEF Commit, ReqsAfter
  <2>2. QED
    BY <2>1, IdleCurrent DEF Current
<1>12. CASE Fails(r)
  BY <1>12, <1>4 DEF Fails
<1>13. QED
  BY <1>1, <1>2, <1>3, <1>5, <1>6, <1>7, <1>8, <1>9, <1>10, <1>11, <1>12
  DEF Next, Advance

\* The commit of a request that ran alone is one step of Accounts.
LEMMA CommitKeepsPromise ==
  ASSUME TypeOK, NEW r \in Reqs, Current(req[r]), Commit(r)
  PROVE  Promise!Next
<1> DEFINE t == req[r]
           a == t.actor
           u == t.target
<1>t. /\ t \in Request /\ a \in Users /\ u \in Users
      /\ t.role \in Roles /\ t.ids \in SUBSET Conns /\ t.op \in Operations
  BY DEF TypeOK, Request
<1>now. /\ t.pc = "commit" /\ t.read = user[u] /\ Allowed(t, user[u])
        /\ ManagesUsers(user[a]) /\ user[u].status # "none"
  BY DEF Commit, Current
<1>row. user[u] \in AccountRow /\ user[u].status \in UserStatus
  BY <1>t, <1>now DEF TypeOK, AccountRow
<1>user. WritesAccount(t) => user' = [user EXCEPT ![u] = Wanted(t)]
  <2>1. Updated(user[u], user[u], Wanted(t)) = Wanted(t)
    BY DEF Updated, Wanted
  <2>2. QED
    BY <1>now, <2>1 DEF Commit
<1>kept. ~WritesAccount(t) => UNCHANGED user
  BY DEF Commit
<1>granted. granted' = IF ReplacesScopes(t)
                       THEN [granted EXCEPT ![u] = Grants(t)] ELSE granted
  <2>1. granted' = [granted EXCEPT ![u] = (granted[u] \ t.deleted)
                                            \cup t.inserted]
    BY DEF Commit
  <2>2. CASE ReplacesScopes(t)
    <3>1. (granted[u] \ t.deleted) \cup t.inserted = Grants(t)
      BY <2>2, <1>now DEF Current
    <3>2. QED
      BY <2>1, <2>2, <3>1
  <2>3. CASE ~ReplacesScopes(t)
    <3>1. (granted[u] \ t.deleted) \cup t.inserted = granted[u]
      BY <2>3, <1>now DEF Current
    <3>2. QED
      BY <2>1, <2>3, <3>1 DEF TypeOK
  <2>4. QED
    BY <2>2, <2>3
<1>moves. ASSUME NEW s, t.op \in DOMAIN NewStatus, s = NewStatus[t.op]
          PROVE  Promise!Moves(a, u, s)
  BY <1>moves, <1>now, <1>row
  DEF Allowed, Promise!Moves, ManagesUsers, Promise!ManagesUsers,
      ALLOWED_TRANSITIONS, Promise!ALLOWED_TRANSITIONS, UserStatus,
      Promise!UserStatus
<1>status. ASSUME t.op \in {"reject", "disable", "enable"}
           PROVE  /\ user' = [user EXCEPT ![u].status = NewStatus[t.op]]
                  /\ UNCHANGED granted
  <2>1. t.op \in DOMAIN NewStatus /\ t.op \notin {"approve", "change_role"}
    BY <1>status DEF NewStatus
  <2>2. Wanted(t) = [user[u] EXCEPT !.status = NewStatus[t.op]]
    BY <2>1, <1>now, <1>row DEF Wanted, AccountRow
  <2>3. QED
    BY <1>status, <1>user, <1>granted, <2>2
    DEF WritesAccount, ReplacesScopes
<1>1. CASE t.op = "approve"
  <2>1. Wanted(t) = [status |-> "active", role |-> t.role]
    BY <1>1 DEF Wanted, NewStatus
  <2>2. Promise!Moves(a, u, "active")
    BY <1>1, <1>moves DEF NewStatus
  <2>3. granted' = [granted EXCEPT ![u] = IF t.role = "admin"
                                          THEN {} ELSE t.ids]
    BY <1>1, <1>granted DEF ReplacesScopes, Grants
  <2>4. Promise!Approve(a, u, t.role, t.ids)
    BY <1>1, <1>user, <2>1, <2>2, <2>3 DEF WritesAccount, Promise!Approve
  <2>5. QED
    BY <1>t, <2>4 DEF Promise!Next, Roles, Promise!Roles
<1>2. CASE t.op = "reject"
  <2>1. Promise!Reject(a, u)
    BY <1>2, <1>moves, <1>status DEF NewStatus, Promise!Reject
  <2>2. QED
    BY <1>t, <2>1 DEF Promise!Next
<1>3. CASE t.op = "disable"
  <2>1. Promise!Disable(a, u)
    BY <1>3, <1>now, <1>moves, <1>status
    DEF NewStatus, Allowed, Promise!Disable
  <2>2. QED
    BY <1>t, <2>1 DEF Promise!Next
<1>4. CASE t.op = "enable"
  <2>1. Promise!Enable(a, u)
    BY <1>4, <1>moves, <1>status DEF NewStatus, Promise!Enable
  <2>2. QED
    BY <1>t, <2>1 DEF Promise!Next
<1>5. CASE t.op = "change_role"
  <2>1. t.op \notin DOMAIN NewStatus
    BY <1>5 DEF NewStatus
  <2>2. Wanted(t) = [user[u] EXCEPT !.role = t.role]
    BY <1>5, <2>1, <1>now, <1>row DEF Wanted, AccountRow
  <2>3. granted' = [granted EXCEPT ![u] = IF t.role = "admin"
                                          THEN {} ELSE @]
    BY <1>5, <1>granted DEF ReplacesScopes, Grants, TypeOK
  <2>4. user' = [user EXCEPT ![u].role = t.role]
    BY <1>5, <1>user, <2>2 DEF WritesAccount
  <2>5. Promise!ChangeRole(a, u, t.role)
    BY <1>5, <1>now, <2>3, <2>4
    DEF Allowed, ManagesUsers, Promise!ManagesUsers, Promise!ChangeRole
  <2>6. QED
    BY <1>t, <2>5 DEF Promise!Next, Roles, Promise!Roles
<1>6. CASE t.op = "set_scopes"
  <2>1. granted' = [granted EXCEPT ![u] = t.ids]
    BY <1>6, <1>granted DEF ReplacesScopes, Grants
  <2>2. Promise!SetScopes(a, u, t.ids)
    BY <1>6, <1>now, <1>kept, <2>1
    DEF Allowed, WritesAccount, ManagesUsers, Promise!ManagesUsers,
        Promise!SetScopes
  <2>3. QED
    BY <1>t, <2>2 DEF Promise!Next
<1>7. QED
  BY <1>t, <1>1, <1>2, <1>3, <1>4, <1>5, <1>6 DEF Operations

\* A step of a request that runs alone is a step of Accounts, or none.
LEMMA StepKeepsPromise ==
  ASSUME TypeOK, NEW r, Reqs = {r}, Current(req[r]), [Next]_vars
  PROVE  [Promise!Next]_(Promise!vars)
<1>1. CASE UNCHANGED <<user, granted>>
  BY <1>1 DEF Promise!vars
<1>2. ASSUME NEW u \in Users, Register(u) PROVE Promise!Next
  BY <1>2 DEF Register, Application, Promise!Register, Promise!Application,
              Promise!Next
<1>3. CASE Commit(r)
  BY <1>3, CommitKeepsPromise
<1>4. QED
  BY <1>1, <1>2, <1>3
  DEF Next, Advance, Authorize, Load, Guard, Write, ScopesFind, ScopesDelete,
      ScopesInsert, Fails, vars

\* The invariant of requests that run alone.
LEMMA AloneInvariant ==
  ASSUME NEW r, Reqs = {r}
  PROVE  Spec => [](TypeOK /\ Current(req[r]))
<1>1. Init => Current(req[r])
  BY IdleCurrent DEF Init
<1>2. TypeOK /\ Current(req[r]) /\ [Next]_vars
        => (TypeOK /\ Current(req[r]))'
  BY TypeStep, CurrentStep
<1>3. QED
  BY <1>1, <1>2, InitType, PTL DEF Spec

\* Requests that come one at a time do what Accounts promises: every operation
\* takes effect at once and on the account it was decided on.
THEOREM OneRequestKeepsPromise ==
  ASSUME NEW r, Reqs = {r}
  PROVE  Spec => ImplementsAccounts
<1>1. Init => Promise!Init
  BY DEF Init, BootstrapAdmin, NoAccount, Promise!Init,
         Promise!BootstrapAdmin, Promise!NoAccount
<1>2. TypeOK /\ Current(req[r]) /\ [Next]_vars
        => [Promise!Next]_(Promise!vars)
  BY StepKeepsPromise
<1>3. QED
  BY <1>1, <1>2, AloneInvariant, PTL
  DEF Spec, ImplementsAccounts, Promise!Spec

-----------------------------------------------------------------------------
(* What Accounts promises                                                  *)

\* Nobody takes the last administrator away: it takes another one to do it.
LEMMA PromisedAdmin ==
  ASSUME TypeOK, SomeAdmin, [Promise!Next]_(Promise!vars)
  PROVE  SomeAdmin'
<1>1. CASE UNCHANGED Promise!vars
  BY <1>1 DEF Promise!vars, SomeAdmin, ManagesUsers
<1>2. ASSUME NEW x \in Users, ManagesUsers(user[x]), user'[x] = user[x]
      PROVE  SomeAdmin'
  BY <1>2 DEF SomeAdmin, ManagesUsers
<1>3. PICK x \in Users : ManagesUsers(user[x])
  BY DEF SomeAdmin
<1>4. ASSUME NEW u \in Users, Promise!Register(u) PROVE SomeAdmin'
  <2>1. x # u
    BY <1>3, <1>4 DEF Promise!Register, ManagesUsers
  <2>2. QED
    BY <1>2, <1>3, <1>4, <2>1 DEF Promise!Register, TypeOK
<1>5. ASSUME NEW a \in Users, NEW u \in Users, NEW role, NEW ids,
             \/ Promise!Approve(a, u, role, ids) \/ Promise!Reject(a, u)
             \/ Promise!Enable(a, u)
      PROVE  SomeAdmin'
  <2>1. user[u].status # "active"
    BY <1>5 DEF Promise!Approve, Promise!Reject, Promise!Enable,
                Promise!Moves, Promise!ALLOWED_TRANSITIONS
  <2>2. x # u
    BY <1>3, <2>1 DEF ManagesUsers
  <2>3. user'[x] = user[x]
    BY <1>5, <2>2 DEF Promise!Approve, Promise!Reject, Promise!Enable, TypeOK
  <2>4. QED
    BY <1>2, <1>3, <2>3
<1>6. ASSUME NEW a \in Users, NEW u \in Users, NEW role,
             Promise!Disable(a, u) \/ Promise!ChangeRole(a, u, role)
      PROVE  SomeAdmin'
  <2>1. a # u /\ ManagesUsers(user[a])
    BY <1>6 DEF Promise!Disable, Promise!ChangeRole, Promise!Moves,
                Promise!ManagesUsers, ManagesUsers
  <2>2. user'[a] = user[a]
    BY <1>6, <2>1 DEF Promise!Disable, Promise!ChangeRole, TypeOK
  <2>3. QED
    BY <1>2, <2>1, <2>2
<1>7. ASSUME NEW a \in Users, NEW u \in Users, NEW ids,
             Promise!SetScopes(a, u, ids)
      PROVE  SomeAdmin'
  BY <1>2, <1>3, <1>7 DEF Promise!SetScopes
<1>8. QED
  BY <1>1, <1>4, <1>5, <1>6, <1>7 DEF Promise!Next

\* A rejected application is moved nowhere.
LEMMA PromisedRejection ==
  ASSUME TypeOK, [Promise!Next]_(Promise!vars), NEW x \in Users,
         user[x].status = "rejected"
  PROVE  user'[x].status = "rejected"
<1>1. CASE UNCHANGED Promise!vars
  BY <1>1 DEF Promise!vars
<1>x. user[x] \in AccountRow
  BY DEF TypeOK
<1>2. ASSUME NEW u \in Users, Promise!Register(u)
      PROVE  user'[x].status = "rejected"
  BY <1>2 DEF Promise!Register, TypeOK
<1>3. ASSUME NEW a \in Users, NEW u \in Users, NEW role, NEW ids,
             \/ Promise!Approve(a, u, role, ids) \/ Promise!Reject(a, u)
             \/ Promise!Disable(a, u) \/ Promise!Enable(a, u)
      PROVE  user'[x].status = "rejected"
  <2>1. user[u].status # "rejected"
    BY <1>3 DEF Promise!Approve, Promise!Reject, Promise!Disable,
                Promise!Enable, Promise!Moves, Promise!ALLOWED_TRANSITIONS
  <2>2. user'[x] = user[x]
    BY <1>3, <2>1 DEF Promise!Approve, Promise!Reject, Promise!Disable,
                      Promise!Enable, TypeOK
  <2>3. QED
    BY <2>2
<1>4. ASSUME NEW a \in Users, NEW u \in Users, NEW role,
             Promise!ChangeRole(a, u, role)
      PROVE  user'[x].status = "rejected"
  BY <1>4, <1>x DEF Promise!ChangeRole, TypeOK, AccountRow
<1>5. ASSUME NEW a \in Users, NEW u \in Users, NEW ids,
             Promise!SetScopes(a, u, ids)
      PROVE  user'[x].status = "rejected"
  BY <1>5 DEF Promise!SetScopes
<1>6. QED
  BY <1>1, <1>2, <1>3, <1>4, <1>5 DEF Promise!Next

\* Whoever becomes an administrator loses the scope rows in the same step.
LEMMA PromisedUnscoped ==
  ASSUME TypeOK, AdminsUnscoped, [Promise!Next]_(Promise!vars)
  PROVE  AdminsUnscoped'
<1>1. CASE UNCHANGED Promise!vars
  BY <1>1 DEF Promise!vars, AdminsUnscoped
<1>2. ASSUME NEW u \in Users, Promise!Register(u) PROVE AdminsUnscoped'
  BY <1>2 DEF Promise!Register, Promise!Application, AdminsUnscoped, TypeOK
<1>3. ASSUME NEW a \in Users, NEW u \in Users, NEW role, NEW ids,
             Promise!Approve(a, u, role, ids)
      PROVE  AdminsUnscoped'
  BY <1>3 DEF Promise!Approve, AdminsUnscoped, TypeOK
<1>4. ASSUME NEW a \in Users, NEW u \in Users,
             \/ Promise!Reject(a, u) \/ Promise!Disable(a, u)
             \/ Promise!Enable(a, u)
      PROVE  AdminsUnscoped'
  <2>1. \A x \in Users : user'[x].role = user[x].role
    BY <1>4 DEF Promise!Reject, Promise!Disable, Promise!Enable, TypeOK,
                AccountRow
  <2>2. QED
    BY <1>4, <2>1 DEF Promise!Reject, Promise!Disable, Promise!Enable,
                      AdminsUnscoped
<1>5. ASSUME NEW a \in Users, NEW u \in Users, NEW role,
             Promise!ChangeRole(a, u, role)
      PROVE  AdminsUnscoped'
  <2>1. \A x \in Users : user'[x].role = IF x = u THEN role ELSE user[x].role
    BY <1>5 DEF Promise!ChangeRole, TypeOK, AccountRow
  <2>2. \A x \in Users : granted'[x] = IF x = u /\ role = "admin"
                                       THEN {} ELSE granted[x]
    BY <1>5 DEF Promise!ChangeRole, TypeOK
  <2>3. QED
    BY <2>1, <2>2 DEF AdminsUnscoped
<1>6. ASSUME NEW a \in Users, NEW u \in Users, NEW ids,
             Promise!SetScopes(a, u, ids)
      PROVE  AdminsUnscoped'
  BY <1>6 DEF Promise!SetScopes, AdminsUnscoped, TypeOK
<1>7. QED
  BY <1>1, <1>2, <1>3, <1>4, <1>5, <1>6 DEF Promise!Next

\* As long as requests come one at a time, somebody administers the portal.
THEOREM AdminSurvives ==
  ASSUME NEW r, Reqs = {r}
  PROVE  Spec => []SomeAdmin
<1>1. Init => SomeAdmin
  BY UserAdminAssumption DEF Init, SomeAdmin, ManagesUsers, BootstrapAdmin
<1>2. TypeOK /\ Current(req[r]) /\ SomeAdmin /\ [Next]_vars => SomeAdmin'
  BY StepKeepsPromise, PromisedAdmin
<1>3. QED
  BY <1>1, <1>2, AloneInvariant, PTL DEF Spec

\* As long as requests come one at a time, an administrator has no scope rows.
THEOREM AdminsStayUnscoped ==
  ASSUME NEW r, Reqs = {r}
  PROVE  Spec => []AdminsUnscoped
<1>1. Init => AdminsUnscoped
  BY DEF Init, AdminsUnscoped
<1>2. TypeOK /\ Current(req[r]) /\ AdminsUnscoped /\ [Next]_vars
        => AdminsUnscoped'
  BY StepKeepsPromise, PromisedUnscoped
<1>3. QED
  BY <1>1, <1>2, AloneInvariant, PTL DEF Spec

\* As long as requests come one at a time, a rejection is final.
THEOREM RejectionIsFinal ==
  ASSUME NEW r, Reqs = {r}
  PROVE  Spec => RejectedIsFinal
<1> DEFINE Final == \A u \in Users :
                      user[u].status = "rejected" =>
                        user'[u].status = "rejected"
<1>1. TypeOK /\ Current(req[r]) /\ [Next]_vars => [Final]_vars
  BY StepKeepsPromise, PromisedRejection
<1>2. QED
  BY <1>1, AloneInvariant, PTL DEF Spec, RejectedIsFinal

\* As long as requests come one at a time, a request that replaces the scopes
\* of an account leaves exactly those it was given (ScopeRepository.replace).
THEOREM OneRequestReplacesScopes ==
  ASSUME NEW alone, Reqs = {alone}
  PROVE  Spec => ScopesAreReplaced
<1> DEFINE Replaced == \A r \in Reqs :
                         Commit(r) /\ ReplacesScopes(req[r]) =>
                           granted'[req[r].target] = Grants(req[r])
           t == req[alone]
<1>1. TypeOK /\ Current(req[alone]) /\ [Next]_vars => [Replaced]_vars
  <2> SUFFICES ASSUME TypeOK, Current(t), Commit(alone), ReplacesScopes(t)
               PROVE  granted'[t.target] = Grants(t)
    OBVIOUS
  <2>1. t.target \in Users
    BY DEF TypeOK, Request
  <2>2. granted'[t.target] = (granted[t.target] \ t.deleted) \cup t.inserted
    BY <2>1 DEF Commit, TypeOK
  <2>3. t.deleted = granted[t.target] /\ t.inserted = Grants(t)
    BY DEF Commit, Current
  <2>4. QED
    BY <2>2, <2>3
<1>2. Init => Current(req[alone])
  BY IdleCurrent DEF Init
<1>3. TypeOK /\ Current(req[alone]) /\ [Next]_vars => Current(req[alone])'
  BY CurrentStep
<1>4. QED
  BY <1>1, <1>2, <1>3, TypeCorrect, PTL DEF Spec, ScopesAreReplaced

-----------------------------------------------------------------------------
(* Any number of requests at once                                          *)

\* What a commit makes of the account it writes: a column the request is not
\* about keeps the committed value, whatever the request read of it.
LEMMA CommitColumns ==
  ASSUME TypeOK, NEW r \in Reqs, Commit(r), NEW u \in Users
  PROVE  /\ \/ user'[u].role = user[u].role
            \/ /\ req[r].target = u /\ user'[u].role = req[r].role
               /\ req[r].op \in {"approve", "change_role"}
         /\ \/ user'[u].status = user[u].status
            \/ /\ req[r].target = u /\ req[r].op \in DOMAIN NewStatus
               /\ user'[u].status = NewStatus[req[r].op]
<1> DEFINE t == req[r]
<1>1. t.target \in Users
  BY DEF TypeOK, Request
<1>2. CASE t.target # u \/ ~WritesAccount(t)
  BY <1>1, <1>2 DEF Commit, TypeOK
<1>3. CASE t.target = u /\ WritesAccount(t)
  <2>1. user'[u] = Updated(user[u], t.read, Wanted(t))
    BY <1>3, <1>1 DEF Commit, TypeOK
  <2>2. \/ user'[u].role = user[u].role
        \/ user'[u].role = t.role /\ t.op \in {"approve", "change_role"}
    BY <2>1 DEF Updated, Wanted
  <2>3. \/ user'[u].status = user[u].status
        \/ t.op \in DOMAIN NewStatus /\ user'[u].status = NewStatus[t.op]
    BY <2>1 DEF Updated, Wanted
  <2>4. QED
    BY <1>3, <2>2, <2>3
<1>4. QED
  BY <1>2, <1>3

\* Only registrations and commits write accounts.
LEMMA AccountsWritten ==
  ASSUME [Next]_vars
  PROVE  \/ UNCHANGED user
         \/ \E u \in Users : Register(u)
         \/ \E r \in Reqs : Commit(r)
BY DEF Next, Advance, Authorize, Load, Guard, Write, ScopesFind,
       ScopesDelete, ScopesInsert, Fails, vars

\* A name nobody has applied for has no account to change: requests are about
\* accounts that exist.
Registered ==
    /\ \A u \in Users : user[u].status = "none" => user[u] = NoAccount
    /\ \A r \in Reqs : Live(r) => user[req[r].target].status # "none"

\* A request keeps its target until it ends.
LEMMA TargetStays ==
  ASSUME TypeOK, NEW r \in Reqs, Advance(r) \/ Fails(r), NEW q \in Reqs
  PROVE  Live(q)' => Live(q) /\ req'[q].target = req[q].target
<1> DEFINE t == req[q]
<1>t. t \in Request
  BY DEF TypeOK
<1>idle. Idle.pc = "idle"
  BY DEF Idle
<1>1. CASE Commit(r)
  <2>1. req'[q] = IF q = r THEN Idle
                  ELSE IF t.target = req[r].target
                  THEN [t EXCEPT !.found = @ \ req[r].deleted]
                  ELSE t
    BY <1>1 DEF Commit, ReqsAfter
  <2>2. \A x : /\ [t EXCEPT !.found = x].pc = t.pc
               /\ [t EXCEPT !.found = x].target = t.target
    BY <1>t DEF Request
  <2>3. QED
    BY <2>1, <2>2, <1>idle DEF Live
<1>2. CASE ~Commit(r) /\ q # r
  BY <1>2 DEF Advance, Load, Guard, Write, ScopesFind, ScopesDelete,
     ScopesInsert, Fails, Becomes, Live, TypeOK
<1>3. CASE ~Commit(r) /\ q = r
  <2>1. ASSUME NEW u, Becomes(r, u), u = Idle \/ u.target = t.target, Live(r)
        PROVE  Live(q)' => Live(q) /\ req'[q].target = req[q].target
    <3>1. req'[q] = u
      BY <1>3, <2>1 DEF Becomes, TypeOK
    <3>2. QED
      BY <1>3, <2>1, <3>1, <1>idle DEF Live
  <2>2. CASE Load(r) \/ Guard(r)
    BY <1>3, <2>1, <2>2, <1>t DEF Load, Guard, Live, Request
  <2>3. CASE Write(r) \/ ScopesFind(r) \/ ScopesDelete(r)
    BY <1>3, <2>1, <2>3, <1>t
    DEF Write, ScopesFind, ScopesDelete, Live, Request
  <2>4. CASE ScopesInsert(r) \/ Fails(r)
    BY <1>3, <2>1, <2>4, <1>t DEF ScopesInsert, Fails, Live, Request
  <2>5. QED
    BY <1>3, <2>2, <2>3, <2>4 DEF Advance
<1>4. QED
  BY <1>1, <1>2, <1>3

LEMMA RegisteredStep ==
  ASSUME TypeOK, Registered, [Next]_vars
  PROVE  Registered'
<1>decided. \A op \in DOMAIN NewStatus : NewStatus[op] # "none"
  BY DEF NewStatus
<1>1. ASSUME UNCHANGED user,
             \A q \in Reqs : Live(q)' =>
               \/ Live(q) /\ req'[q].target = req[q].target
               \/ user[req'[q].target].status # "none"
      PROVE  Registered'
  BY <1>1 DEF Registered
<1>2. CASE UNCHANGED vars
  BY <1>1, <1>2 DEF vars, Live
<1>3. ASSUME NEW u \in Users, Register(u) PROVE Registered'
  <2>1. \A x \in Users : user'[x] = IF x = u THEN Application ELSE user[x]
    BY <1>3 DEF Register, TypeOK
  <2>2. Application.status # "none"
    BY DEF Application
  <2>3. UNCHANGED req /\ \A q \in Reqs : req[q].target \in Users
    BY <1>3 DEF Register, TypeOK, Request
  <2>4. QED
    BY <2>1, <2>2, <2>3 DEF Registered, Live
<1>4. ASSUME NEW r \in Reqs, NEW a \in Users, NEW u \in Users,
             NEW op \in Operations, NEW role, NEW ids,
             Authorize(r, a, u, op, role, ids)
      PROVE  Registered'
  <2> DEFINE t == [Idle EXCEPT !.pc = "load", !.op = op, !.actor = a,
                               !.target = u, !.role = role, !.ids = ids]
  <2>1. t.target = u
    BY DEF Idle
  <2>2. req' = [req EXCEPT ![r] = t]
    BY <1>4 DEF Authorize, Becomes
  <2> HIDE DEF t
  <2>3. /\ req'[r].target = u
        /\ \A q \in Reqs \ {r} : req'[q] = req[q]
    BY <2>1, <2>2 DEF TypeOK
  <2>4. user[u].status # "none" /\ UNCHANGED user
    BY <1>4 DEF Authorize
  <2>5. QED
    BY <1>1, <2>3, <2>4 DEF Live
<1>5. ASSUME NEW r \in Reqs, Advance(r) \/ Fails(r) PROVE Registered'
  <2>1. CASE Commit(r)
    <3>1. user[req[r].target].status # "none"
      BY <2>1 DEF Registered, Live, Commit
    <3>2. \A u \in Users : user'[u].status = "none" =>
                             user[u].status = "none"
      BY <2>1, <1>decided, CommitColumns
    <3>3. \A u \in Users : u # req[r].target => user'[u] = user[u]
      BY <2>1 DEF Commit, TypeOK
    <3>4. \A q \in Reqs : req[q].target \in Users
      BY DEF TypeOK, Request
    <3>5. \A q \in Reqs : Live(q)' => user'[req'[q].target].status # "none"
      BY <1>5, <3>2, <3>4, TargetStays DEF Registered
    <3>6. QED
      BY <3>1, <3>2, <3>3, <3>5 DEF Registered
  <2>2. CASE ~Commit(r)
    <3>1. UNCHANGED user
      BY <1>5, <2>2 DEF Advance, Load, Guard, Write, ScopesFind,
         ScopesDelete, ScopesInsert, Fails
    <3>2. QED
      BY <1>1, <1>5, <3>1, TargetStays
  <2>3. QED
    BY <2>1, <2>2
<1>6. QED
  BY <1>2, <1>3, <1>4, <1>5 DEF Next

LEMMA AccountsExist == Spec => []Registered
<1>1. Init => Registered
  BY DEF Init, Registered, Live, Idle, BootstrapAdmin
<1>2. TypeOK /\ Registered /\ [Next]_vars => Registered'
  BY RegisteredStep
<1>3. QED
  BY <1>1, <1>2, TypeCorrect, PTL DEF Spec

\* However many requests read, decide and write at once, an account changes
\* only in a column that a request commits, to the value that request asked for
\* (set_status and set_role write what differs from what was loaded).
THEOREM RequestsKeepToTheirColumns == Spec => ColumnsAreTheRequests
<1> DEFINE Asked ==
      \A u \in Users :
         /\ user'[u].role # user[u].role =>
              \E r \in Reqs : /\ req[r].pc = "commit" /\ req[r].target = u
                              /\ req[r].op \in {"approve", "change_role"}
                              /\ req[r].role = user'[u].role
         /\ user'[u].status # user[u].status /\ user[u].status # "none" =>
              \E r \in Reqs : /\ req[r].pc = "commit" /\ req[r].target = u
                              /\ req[r].op \in DOMAIN NewStatus
                              /\ NewStatus[req[r].op] = user'[u].status
<1>1. ASSUME TypeOK, Registered, NEW u \in Users, Register(u) PROVE Asked
  <2>1. user[u].status = "none" /\ user'[u].role = user[u].role
    BY <1>1 DEF Register, Registered, TypeOK, NoAccount, Application
  <2>2. \A x \in Users \ {u} : user'[x] = user[x]
    BY <1>1 DEF Register, TypeOK
  <2>3. QED
    BY <2>1, <2>2
<1>2. ASSUME TypeOK, NEW r \in Reqs, Commit(r) PROVE Asked
  <2>1. req[r].pc = "commit"
    BY <1>2 DEF Commit
  <2>2. QED
    BY <1>2, <2>1, CommitColumns
<1>3. TypeOK /\ Registered /\ [Next]_vars => [Asked]_vars
  BY <1>1, <1>2, AccountsWritten
<1>4. QED
  BY <1>3, TypeCorrect, AccountsExist, PTL DEF Spec, ColumnsAreTheRequests
==============================================================================
