----------------------------- MODULE Credentials -----------------------------
(***************************************************************************)
(* Passwords as the API handles them: login with its failure count and its *)
(* lock, change by the owner, reset by an administrator.  Each is a        *)
(* request with one database transaction: authorise, read the account,     *)
(* verify a hash, write, commit or roll back.                              *)
(*                                                                         *)
(* READ COMMITTED, row locks and the ORM's UPDATE of the columns that      *)
(* differ from the ones loaded are as in UserAdmin.  A password stands for *)
(* its hash; a salted hash differs from every other hash.                  *)
(***************************************************************************)
EXTENDS Naturals

CONSTANTS
    Users,        \* user names, registered or not
    Root,         \* the administrator the first start of the portal creates
    Admins,       \* the users who are administrators once they are active
    Own,          \* passwords people choose, all within the policy
    Temporary,    \* passwords the portal generates
    NoPassword,   \* of a name nobody has applied for
    Reqs,         \* requests that can be in flight at once
    MaxAttempts   \* max_failed_login_attempts

ASSUME CredentialsAssumption ==
    /\ Root \in Admins /\ Admins \subseteq Users
    /\ Own \cap Temporary = {}
    /\ NoPassword \notin Own \cup Temporary
    /\ MaxAttempts \in Nat \ {0}

VARIABLES
    account,  \* committed accounts
    session,  \* users whose browser holds a token that has not expired
    req,      \* the requests in flight
    refused   \* wrong passwords each user was answered since the last login

vars == <<account, session, req, refused>>

Passwords == Own \cup Temporary

Account == [status : {"none", "inactive", "active"},
            pw : Passwords \cup {NoPassword},
            weak : BOOLEAN,           \* hashed with fewer rounds than now
            must : BOOLEAN,           \* must_change_password
            count : 0..(MaxAttempts - 1),  \* failed_login_count
            locked : BOOLEAN]         \* locked_until is set

Unknown == [status |-> "none", pw |-> NoPassword, weak |-> FALSE,
            must |-> FALSE, count |-> 0, locked |-> FALSE]

Request == [pc : {"idle", "load", "write", "commit", "raise"},
            op : {"login", "change", "reset"},
            user : Users,                       \* whose account it is about
            given : Passwords \cup {NoPassword},  \* the password typed in
            new : Passwords \cup {NoPassword},    \* the one to store
            later : BOOLEAN,                    \* after locked_until
            read : Account]                     \* the account as read

Idle == [pc |-> "idle", op |-> "login", user |-> Root, given |-> NoPassword,
         new |-> NoPassword, later |-> FALSE, read |-> Unknown]

TypeOK ==
    /\ account \in [Users -> Account]
    /\ session \subseteq Users
    /\ req \in [Reqs -> Request]
    /\ refused \in [Users -> 0..MaxAttempts]

\* hash_password hashes with the rounds of now.
Created(status, p) == [Unknown EXCEPT !.status = status, !.pw = p]

Init ==
    /\ \E p \in Own :
         account = [u \in Users |-> IF u = Root THEN Created("active", p)
                                    ELSE Unknown]
    /\ session = {}
    /\ req = [r \in Reqs |-> Idle]
    /\ refused = [u \in Users |-> 0]

Live(r) == req[r].pc # "idle"

Becomes(r, t) == req' = [req EXCEPT ![r] = t]

-----------------------------------------------------------------------------
(* What a request decides and writes                                       *)

Verified(t, row) == t.given = row.pw

\* The request ends before it writes.  The status is looked at only after the
\* password has been verified.
Refused(t, row) ==
    \/ row.status = "none"
    \/ t.op = "login" /\ row.locked /\ ~t.later
    \/ t.op = "login" /\ Verified(t, row) /\ row.status # "active"
    \/ t.op = "change" /\ (~Verified(t, row) \/ t.new = t.given)

WrongPassword(t) == t.op = "login" /\ ~Verified(t, t.read)

\* register_failure
Counted(row) ==
    IF row.count + 1 >= MaxAttempts
    THEN [row EXCEPT !.count = 0, !.locked = TRUE]
    ELSE [row EXCEPT !.count = @ + 1]

\* Mutant: a login that hashes anew lifts the duty to change the password.
LoggedInFreed(row) ==
    [row EXCEPT !.weak = FALSE, !.must = IF row.weak THEN FALSE ELSE @,
                !.count = 0, !.locked = FALSE]

\* update_hash when the hash is weak, reset_failures
LoggedIn(row) ==
    [row EXCEPT !.weak = FALSE, !.count = 0, !.locked = FALSE]

\* Mutant: a reset leaves must_change_password as it is.
StoredQuietly(t) ==
    [t.read EXCEPT !.pw = t.new, !.weak = FALSE,
                   !.must = IF t.op = "change" THEN FALSE ELSE @]

\* update_hash for a new password
Stored(t) ==
    [t.read EXCEPT !.pw = t.new, !.weak = FALSE, !.must = t.op = "reset"]

\* What the ORM holds after the attributes are set.
Wanted(t) ==
    IF WrongPassword(t) THEN Counted(t.read)
    ELSE IF t.op = "login" THEN LoggedIn(t.read)
    ELSE Stored(t)

\* Every new hash differs from the one loaded.
SetsHash(t) == t.op # "login" \/ (t.read.weak /\ ~WrongPassword(t))

Dirty(loaded, wanted, current) == IF wanted = loaded THEN current ELSE wanted

Updated(current, t) ==
    LET w == Wanted(t) IN
    [status |-> current.status,
     pw     |-> IF SetsHash(t) THEN w.pw ELSE current.pw,
     weak   |-> IF SetsHash(t) THEN w.weak ELSE current.weak,
     must   |-> Dirty(t.read.must, w.must, current.must),
     count  |-> Dirty(t.read.count, w.count, current.count),
     locked |-> Dirty(t.read.locked, w.locked, current.locked)]

\* A transaction that has written the account of u holds its row.
AccountLocked(u) ==
    \E q \in Reqs : req[q].user = u /\ req[q].pc \in {"commit", "raise"}

-----------------------------------------------------------------------------
(* The steps of a request                                                  *)

Begin(r, t) ==
    /\ ~Live(r)
    /\ Becomes(r, t)
    /\ UNCHANGED <<account, session, refused>>

\* Anybody may try, before locked_until or after it.
Login(r, u, p, later) ==
    Begin(r, [Idle EXCEPT !.pc = "load", !.user = u, !.given = p,
                          !.later = later])

\* get_current_user: a token, and an account that is active when the request
\* comes in.
SignedIn(u) == u \in session /\ account[u].status = "active"

\* get_active_user lets everybody who is signed in change the password.
ChangePassword(r, u, p, q) ==
    /\ SignedIn(u)
    /\ Begin(r, [Idle EXCEPT !.pc = "load", !.op = "change", !.user = u,
                             !.given = p, !.new = q])

\* Mutant: an administrator with a temporary password may issue others.
MayResetAnyway(a) == a \in Admins /\ SignedIn(a)

\* get_active_user and user.manage
MayReset(a) == a \in Admins /\ SignedIn(a) /\ ~account[a].must

ResetPassword(r, a, u, q) ==
    /\ MayReset(a)
    /\ Begin(r, [Idle EXCEPT !.pc = "load", !.op = "reset", !.user = u,
                             !.new = q])

\* The SELECT of the account and what is decided on it; a refusal ends the
\* request.
Load(r) ==
    LET t == req[r]
        row == account[t.user]
    IN /\ t.pc = "load"
       /\ Becomes(r, IF Refused(t, row) THEN Idle
                     ELSE [t EXCEPT !.pc = "write", !.read = row])
       /\ UNCHANGED <<account, session, refused>>

\* The flush: the UPDATE takes the row and keeps it.  After a wrong password the
\* service then raises AuthenticationError.
Write(r) ==
    /\ req[r].pc = "write"
    /\ ~AccountLocked(req[r].user)
    /\ Becomes(r, [req[r] EXCEPT !.pc = IF WrongPassword(req[r])
                                        THEN "raise" ELSE "commit"])
    /\ UNCHANGED <<account, session, refused>>

\* The commit of the route; the answer to a login carries the token.
Commit(r) ==
    LET t == req[r] IN
    /\ t.pc = "commit"
    /\ account' = [account EXCEPT ![t.user] = Updated(@, t)]
    /\ session' = IF t.op = "login" THEN session \cup {t.user} ELSE session
    /\ refused' = IF t.op = "login" THEN [refused EXCEPT ![t.user] = 0]
                  ELSE refused
    /\ Becomes(r, Idle)

\* The exception leaves the route: get_db rolls back, the client is answered.
Raise(r) ==
    LET u == req[r].user IN
    /\ req[r].pc = "raise"
    /\ refused' = [refused EXCEPT ![u] = IF @ < MaxAttempts THEN @ + 1 ELSE @]
    /\ Becomes(r, Idle)
    /\ UNCHANGED <<account, session>>

\* A database error at any statement, the one that writes the audit event
\* included, or at the commit: get_db rolls back.
Fails(r) ==
    /\ Live(r)
    /\ Becomes(r, Idle)
    /\ UNCHANGED <<account, session, refused>>

-----------------------------------------------------------------------------
(* What happens around the requests                                        *)

\* RegistrationService.register; the name is unique.
Register(u, p) ==
    /\ account[u].status = "none"
    /\ account' = [account EXCEPT ![u] = Created("inactive", p)]
    /\ UNCHANGED <<session, req, refused>>

\* An administrator approves, enables, rejects or disables the account.
\* The UPDATE names the status only and waits for the row.
SetStatus(u, status) ==
    /\ u # Root
    /\ account[u].status # "none"
    /\ ~AccountLocked(u)
    /\ account' = [account EXCEPT ![u].status = status]
    /\ UNCHANGED <<session, req, refused>>

\* The token expires or the browser logs out.
EndSession(u) ==
    /\ session' = session \ {u}
    /\ UNCHANGED <<account, req, refused>>

\* The portal restarts with more BCRYPT_ROUNDS.
RaiseRounds ==
    /\ \A r \in Reqs : ~Live(r)
    /\ account' = [u \in Users |->
                     [account[u] EXCEPT !.weak = account[u].status # "none"]]
    /\ UNCHANGED <<session, req, refused>>

-----------------------------------------------------------------------------
Submit(r) ==
    \/ \E u \in Users, p \in Passwords, later \in BOOLEAN :
         Login(r, u, p, later)
    \/ \E u \in Users, p \in Passwords, q \in Own : ChangePassword(r, u, p, q)
    \/ \E a, u \in Users, q \in Temporary : ResetPassword(r, a, u, q)

Advance(r) == Load(r) \/ Write(r) \/ Commit(r) \/ Raise(r)

Next ==
    \/ \E r \in Reqs : Submit(r) \/ Advance(r) \/ Fails(r)
    \/ \E u \in Users :
         \/ \E p \in Own : Register(u, p)
         \/ \E status \in {"inactive", "active"} : SetStatus(u, status)
         \/ EndSession(u)
    \/ RaiseRounds

Spec == Init /\ [][Next]_vars

-----------------------------------------------------------------------------
(* Properties                                                              *)

\* With one request at a time, passwords are handled as Passwords promises:
\* failed logins, hashes and sessions never touch them.
Promise ==
    INSTANCE Passwords
    WITH password <- [u \in Users |-> account[u].pw],
         mustChange <- {u \in Users : account[u].must}

ImplementsPasswords == Promise!Spec

\* Whoever has a temporary password has to change it before anything else
\* (UserAdminService.reset_password, get_active_user).
TemporaryMustChange ==
    \A u \in Users : account[u].pw \in Temporary => account[u].must

\* The duty to change the password ends only with a change of password whose
\* owner has shown the one the request read (AuthService.change_password; the
\* re-hash of a login passes must_change on).  The run has one request at a
\* time; OwnerLiftsTheDuty is about any number of them.
OnlyTheOwnerIsFree ==
    [][\A u \in Users :
         account[u].must /\ ~account'[u].must =>
           \E r \in Reqs : /\ req[r].pc = "commit" /\ req[r].user = u
                           /\ req[r].op = "change"
                           /\ req[r].given = req[r].read.pw]_vars

\* After MaxAttempts wrong passwords in a row the account is locked
\* (plans/09-auth-rbac.md).
FailuresLock ==
    \A u \in Users : refused[u] = MaxAttempts => account[u].locked
=============================================================================
