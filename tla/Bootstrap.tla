------------------------------ MODULE Bootstrap ------------------------------
(***************************************************************************)
(* A worker process starts: its lifespan runs ensure_bootstrap_admin and   *)
(* only then the process serves requests.  Several workers start at once,  *)
(* die and start again, on a database without an account or on one that    *)
(* has accounts already; whoever reaches a worker may register.            *)
(***************************************************************************)
CONSTANTS
    Workers,        \* uvicorn worker processes
    AdminNamed      \* PORTAL_BOOTSTRAP_ADMIN_USERNAME and _PASSWORD are set

VARIABLES
    worker,         \* where each worker process is
    users           \* where the committed accounts come from

WorkerStates == {"down", "counting", "adding", "committing", "serving"}

\* The account of ensure_bootstrap_admin; applications, which have the role
\* viewer; accounts of any role that were there before.
Origins == {"bootstrap", "registered", "inherited"}

BootTypeOK ==
    /\ worker \in [Workers -> WorkerStates]
    /\ users \in SUBSET Origins

BootInit ==
    /\ worker = [w \in Workers |-> "down"]
    /\ users \in SUBSET {"inherited"}

Turn(w, state) == worker' = [worker EXCEPT ![w] = state]

StartWorker(w) ==
    /\ worker[w] = "down"
    /\ Turn(w, "counting")
    /\ UNCHANGED users

\* users.count: an account of any role and status is there, or none is and
\* nobody is named, which leaves a warning, or the account has to be added.
CountUsers(w) ==
    /\ worker[w] = "counting"
    /\ Turn(w, IF users # {} \/ ~AdminNamed THEN "serving" ELSE "adding")
    /\ UNCHANGED users

\* The INSERT waits for another worker that has inserted the same name and
\* has not committed.  A committed one is an IntegrityError: that worker won.
AddAdmin(w) ==
    /\ worker[w] = "adding"
    /\ \A other \in Workers : worker[other] # "committing"
    /\ Turn(w, IF "bootstrap" \in users THEN "serving" ELSE "committing")
    /\ UNCHANGED users

\* Mutant: the session is closed without a commit.
CommitForgotten(w) == Turn(w, "serving") /\ UNCHANGED users

AdminCommitted(w) ==
    /\ Turn(w, "serving")
    /\ users' = users \cup {"bootstrap"}

CommitAdmin(w) ==
    /\ worker[w] = "committing"
    /\ AdminCommitted(w)

\* A registration that a serving worker commits: an application, whoever it
\* is from, is an account that the next worker counts.
Register(w) ==
    /\ worker[w] = "serving"
    /\ users' = users \cup {"registered"}
    /\ UNCHANGED worker

\* Any other exception ends the start; a process may also die when it serves.
StopWorker(w) ==
    /\ worker[w] # "down"
    /\ Turn(w, "down")
    /\ UNCHANGED users

BootNext(w) ==
    \/ StartWorker(w) \/ CountUsers(w) \/ AddAdmin(w) \/ CommitAdmin(w)
    \/ Register(w)

-----------------------------------------------------------------------------

\* The portal of a database that had no account is never open without its
\* administrator: a worker that lost the race for the account must not serve
\* before the winner committed, or an application would be the only account
\* and no later start would add the administrator.  Where accounts were there
\* before, one is served without an administrator if none of them is one.
ServedWithAdmin ==
    AdminNamed /\ "inherited" \notin users =>
        /\ \A w \in Workers : worker[w] = "serving" => "bootstrap" \in users
        /\ "registered" \in users => "bootstrap" \in users
=============================================================================
