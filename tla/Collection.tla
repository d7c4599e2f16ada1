------------------------------ MODULE Collection ------------------------------
(***************************************************************************)
(* One inventory collection from the click to the committed result:        *)
(* POST /connections/{id}/collect registers the connection in the worker   *)
(* process's in-memory guard, records the attempt, answers 202, and a      *)
(* background task reads the hypervisor and writes the result in one       *)
(* database transaction.  Administrators delete connections meanwhile,     *)
(* exceptions escape anywhere, and a worker process may die.               *)
(*                                                                         *)
(* One step stands for the code between two awaits that matter to somebody *)
(* else.  PostgreSQL runs READ COMMITTED: a query sees what is committed   *)
(* when it runs (and its own transaction's writes), an UPDATE waits for    *)
(* the transaction that holds the row, and a unique or foreign key         *)
(* violation raises.  The ORM writes the columns whose value differs from  *)
(* the row it loaded, and no others.                                       *)
(***************************************************************************)
EXTENDS Naturals, FiniteSets

CONSTANTS
    Workers,    \* uvicorn worker processes, each with its own guard
    BadKey,     \* those whose settings hold a key that cannot be decoded
    Conns,      \* registered hypervisor connections
    Vms,        \* identities of the virtual machines a hypervisor may list
    Reqs,       \* collect requests that can be in flight at once
    BatchSize,  \* settings.collection_batch_size
    MaxClock,   \* bound: no collection starts once the clock has reached it
    Faults      \* the faults of the environment, a subset of FaultKinds

FaultKinds == {"exception", "record", "crash"}

ASSUME CollectionAssumption ==
    /\ Workers # {} /\ Conns # {}
    /\ BadKey \subseteq Workers
    /\ BatchSize \in Nat \ {0}
    /\ MaxClock \in Nat
    /\ Faults \subseteq FaultKinds

VARIABLES
    exists,     \* connections whose row is in the database
    row,        \* committed columns of each connection
    seen,       \* committed last_seen_at of each VM row, 0: there is no row
    running,    \* _running_collections of each worker
    task,       \* the collect requests and the background tasks they become
    counting,   \* connections a delete request found to have no VM
    clock       \* datetime.now(UTC)

vars == <<exists, row, seen, running, task, counting, clock>>

-----------------------------------------------------------------------------
(* Columns and tasks                                                       *)

\* The error statuses; the text in last_error is abstracted to the same kind.
Failures == {"credential_error", "permission_error", "unreachable",
             "collection_error"}

ConnRow == [error : Failures \cup {"none"},
            status : Failures \cup {"active"},
            success : Nat,
            attempt : Nat]

NewRow == [error |-> "none", status |-> "active", success |-> 0, attempt |-> 0]

Steps == {"idle", "attempt", "found", "attempting", "queued", "connect",
          "listing", "flush", "mark", "marking", "commit", "done"}

Task == [pc : Steps,
         home : Workers,               \* the process that serves the request
         target : Conns,
         at : Nat,                     \* the attempt's, then observed_at
         listing : SUBSET Vms,         \* what the reader has yet to yield
         batch : SUBSET Vms,           \* the batch being written
         fresh : SUBSET Vms,           \* of it, the VMs no identity was found for
         wrote : SUBSET Vms,           \* flushed in the open transaction
         open : BOOLEAN,               \* the hypervisor session is open
         loaded : ConnRow,             \* the connection row as the ORM read it
         result : Failures \cup {"active"}]

Idle == [pc |-> "idle",
         home |-> CHOOSE w \in Workers : TRUE,
         target |-> CHOOSE c \in Conns : TRUE,
         at |-> 0, listing |-> {}, batch |-> {}, fresh |-> {}, wrote |-> {},
         open |-> FALSE, loaded |-> NewRow, result |-> "active"]

Live(r) == task[r].pc # "idle"

Becomes(r, t) == task' = [task EXCEPT ![r] = t]

TypeOK ==
    /\ exists \in SUBSET Conns
    /\ row \in [Conns -> ConnRow]
    /\ seen \in [Conns -> [Vms -> Nat]]
    /\ running \in [Workers -> SUBSET Conns]
    /\ task \in [Reqs -> Task]
    /\ counting \in SUBSET Conns
    /\ clock \in Nat

Init ==
    /\ exists = Conns
    /\ row = [c \in Conns |-> NewRow]
    /\ seen = [c \in Conns |-> [v \in Vms |-> 0]]
    /\ running = [w \in Workers |-> {}]
    /\ task = [r \in Reqs |-> Idle]
    /\ counting = {}
    /\ clock = 0

-----------------------------------------------------------------------------
(* Writing a connection row                                                *)

\* The row after an UPDATE by a session that loaded `loaded' and set `wanted':
\* only the columns that differ are in the statement.
Updated(current, loaded, wanted) ==
    [error |-> IF wanted.error = loaded.error
               THEN current.error ELSE wanted.error,
     status |-> IF wanted.status = loaded.status
                THEN current.status ELSE wanted.status,
     success |-> IF wanted.success = loaded.success
                 THEN current.success ELSE wanted.success,
     attempt |-> IF wanted.attempt = loaded.attempt
                 THEN current.attempt ELSE wanted.attempt]

\* Mutant: the last failure stays on record until the next result.
AttemptedKeepingError(loaded, now) == [loaded EXCEPT !.attempt = now]

\* mark_attempt
Attempted(loaded, now) == [loaded EXCEPT !.attempt = now, !.error = "none"]

\* Mutant: a failure that fills last_error and leaves the status.
MarkedErrorOnly(loaded, result, at) ==
    IF result = "active"
    THEN [loaded EXCEPT !.success = at, !.error = "none", !.status = "active"]
    ELSE [loaded EXCEPT !.error = result]

\* mark_success and mark_failure
Marked(loaded, result, at) ==
    IF result = "active"
    THEN [loaded EXCEPT !.success = at, !.error = "none", !.status = "active"]
    ELSE [loaded EXCEPT !.error = result, !.status = result]

\* A transaction that has flushed its mark holds the row until it commits.
RowLocked(c) == \E q \in Reqs : task[q].pc = "commit" /\ task[q].target = c

-----------------------------------------------------------------------------
(* The request                                                             *)

\* Mutant: the guard is not consulted.
MayStartAlways(w, c) == TRUE

MayStart(w, c) == c \notin running[w]

\* The check of the guard and the registration, with no await between them.
\* A request for a connection that is registered answers already_running and
\* changes nothing.
Start(r, w, c) ==
    /\ ~Live(r)
    /\ w \notin BadKey
    /\ clock < MaxClock
    /\ MayStart(w, c)
    /\ running' = [running EXCEPT ![w] = @ \cup {c}]
    /\ Becomes(r, [Idle EXCEPT !.pc = "attempt", !.home = w, !.target = c])
    /\ UNCHANGED <<exists, row, seen, counting, clock>>

\* Where the key cannot be decoded the request raises: after the registration,
\* with no await between them, and before the try that would take it back.
\* Nothing has checked the key when the process started.
StartRaises(w, c) ==
    /\ w \in BadKey
    /\ MayStart(w, c)
    /\ running' = [running EXCEPT ![w] = @ \cup {c}]
    /\ UNCHANGED <<exists, row, seen, task, counting, clock>>

\* Mutant: the task ends and its connection stays registered.
ReleaseNothing(r) ==
    /\ Becomes(r, Idle)
    /\ UNCHANGED running

\* _running_collections.discard, and the request or the task is over.
Release(r) ==
    /\ running' = [running EXCEPT ![task[r].home] = @ \ {task[r].target}]
    /\ Becomes(r, Idle)

\* connections.get in the request: 404 without a row, and the guard is released.
Find(r) ==
    /\ task[r].pc = "attempt"
    /\ IF task[r].target \in exists
       THEN Becomes(r, [task[r] EXCEPT !.pc = "found"]) /\ UNCHANGED running
       ELSE Release(r)
    /\ UNCHANGED <<exists, row, seen, counting, clock>>

\* mark_attempt gets the row again, later.  When it has gone meanwhile, nothing
\* is written, and the background task is queued all the same.
AttemptRead(r) ==
    /\ task[r].pc = "found"
    /\ clock' = clock + 1
    /\ IF task[r].target \in exists
       THEN Becomes(r, [task[r] EXCEPT !.pc = "attempting", !.at = clock + 1,
                                       !.loaded = row[task[r].target]])
       ELSE Becomes(r, [task[r] EXCEPT !.pc = "queued", !.at = clock + 1])
    /\ UNCHANGED <<exists, row, seen, running, counting>>

\* The UPDATE of mark_attempt and its commit; then the background task is
\* queued.  The UPDATE of a row deleted meanwhile raises.
AttemptWrite(r) ==
    LET c == task[r].target IN
    /\ task[r].pc = "attempting"
    /\ IF c \in exists
       THEN /\ ~RowLocked(c)
            /\ row' = [row EXCEPT ![c] =
                         Updated(@, task[r].loaded,
                                 Attempted(task[r].loaded, task[r].at))]
            /\ Becomes(r, [task[r] EXCEPT !.pc = "queued"])
            /\ UNCHANGED running
       ELSE Release(r) /\ UNCHANGED row
    /\ UNCHANGED <<exists, seen, counting, clock>>

\* An exception in the try, before the task is queued: discard and re-raise.
AttemptFails(r) ==
    /\ "exception" \in Faults
    /\ task[r].pc \in {"attempt", "found", "attempting"}
    /\ Release(r)
    /\ UNCHANGED <<exists, row, seen, counting, clock>>

-----------------------------------------------------------------------------
(* The background task                                                     *)

\* Mutant: the exception is not recorded on the connection.
AbandonSilently(r) ==
    Becomes(r, [task[r] EXCEPT !.pc = "done", !.open = FALSE, !.listing = {},
                               !.batch = {}, !.fresh = {}, !.wrote = {}])

\* Mutant: the session is closed only when the collection ends normally.
AbandonLeavingSession(r) ==
    Becomes(r, [task[r] EXCEPT !.pc = "mark", !.result = "collection_error",
                               !.listing = {}, !.batch = {}, !.fresh = {},
                               !.wrote = {}])

\* Mutant: the failure is recorded in the transaction that has flushed machines.
AbandonKeepingWrites(r) ==
    Becomes(r, [task[r] EXCEPT !.pc = IF task[r].result = "collection_error"
                                      THEN "done" ELSE "mark",
                               !.result = "collection_error", !.open = FALSE,
                               !.listing = {}, !.batch = {}, !.fresh = {}])

\* An exception leaves CollectService.collect: the finally closes the session,
\* the transaction rolls back, and _mark_unexpected_failure opens another one.
\* An exception of _mark_unexpected_failure itself is swallowed.
Abandon(r) ==
    Becomes(r, [task[r] EXCEPT !.pc = IF task[r].result = "collection_error"
                                      THEN "done" ELSE "mark",
                               !.result = "collection_error", !.open = FALSE,
                               !.listing = {}, !.batch = {}, !.fresh = {},
                               !.wrote = {}])

\* load_with_password; a connection deleted meanwhile ends the task.
Load(r) ==
    /\ task[r].pc = "queued"
    /\ IF task[r].target \in exists
       THEN /\ clock' = clock + 1
            /\ Becomes(r, [task[r] EXCEPT !.pc = "connect", !.at = clock + 1])
       ELSE /\ Becomes(r, [task[r] EXCEPT !.pc = "done"])
            /\ UNCHANGED clock
    /\ UNCHANGED <<exists, row, seen, running, counting>>

\* start_session: a session and whatever the hypervisor will list, ...
Connect(r) ==
    /\ task[r].pc = "connect"
    /\ \E listing \in SUBSET Vms :
         Becomes(r, [task[r] EXCEPT !.pc = "listing", !.open = TRUE,
                                    !.listing = listing])
    /\ UNCHANGED <<exists, row, seen, running, counting, clock>>

\* ... or one of the failures the service knows.
ConnectFails(r) ==
    /\ task[r].pc = "connect"
    /\ \E f \in {"credential_error", "permission_error", "unreachable"} :
         Becomes(r, [task[r] EXCEPT !.pc = "mark", !.result = f])
    /\ UNCHANGED <<exists, row, seen, running, counting, clock>>

\* _find_by_identity: the VMs of a batch that are neither committed nor written
\* by the transaction that looks.
Unidentified(t, batch) ==
    {v \in batch : seen[t.target][v] = 0 /\ v \notin t.wrote}

\* The reader has yielded a full batch, or the last one; its VMs are looked up
\* by identity, in what is committed and in what this transaction wrote.
FillBatch(r) ==
    LET t == task[r] IN
    /\ t.pc = "listing"
    /\ t.listing # {}
    /\ \E batch \in SUBSET t.listing :
         /\ \/ Cardinality(batch) = BatchSize
            \/ Cardinality(batch) < BatchSize /\ batch = t.listing
         /\ Becomes(r, [t EXCEPT !.pc = "flush",
                                 !.listing = @ \ batch,
                                 !.batch = batch,
                                 !.fresh = Unidentified(t, batch)])
    /\ UNCHANGED <<exists, row, seen, running, counting, clock>>

\* The transactions whose uncommitted rows this flush has to wait for.
Blockers(r) == {q \in Reqs \ {r} : /\ task[q].target = task[r].target
                                   /\ task[q].wrote \cap task[r].batch # {}}

\* An INSERT that meets a row committed since the lookup breaks uq_vm_native,
\* one that meets no connection breaks the foreign key.
Violates(r) ==
    \E v \in task[r].fresh : \/ seen[task[r].target][v] # 0
                             \/ task[r].target \notin exists

\* upsert_virtual_machines: inserts and updates, flushed, not committed.
Flush(r) ==
    /\ task[r].pc = "flush"
    /\ Blockers(r) = {}
    /\ ~Violates(r)
    /\ Becomes(r, [task[r] EXCEPT !.pc = "listing", !.batch = {}, !.fresh = {},
                                  !.wrote = @ \cup task[r].batch])
    /\ UNCHANGED <<exists, row, seen, running, counting, clock>>

FlushViolates(r) ==
    /\ task[r].pc = "flush"
    /\ Blockers(r) = {}
    /\ Violates(r)
    /\ Abandon(r)
    /\ UNCHANGED <<exists, row, seen, running, counting, clock>>

\* Transactions that wait for each other, this one among them.
InRing(r) ==
    \E ring \in SUBSET Reqs :
       /\ r \in ring
       /\ \A x \in ring : /\ task[x].pc = "flush"
                          /\ \E y \in ring : y \in Blockers(x)
                          /\ \E y \in ring : x \in Blockers(y)

\* Mutant: nobody breaks the ring.
FlushNeverDeadlocked(r) == FALSE

\* PostgreSQL aborts one of a ring.
FlushDeadlocked(r) ==
    /\ InRing(r)
    /\ Abandon(r)
    /\ UNCHANGED <<exists, row, seen, running, counting, clock>>

\* The stream ends: the session is closed, and the outcome of the reader says
\* whether it ended because everything was listed or because something failed.
EndListing(r) ==
    /\ task[r].pc = "listing"
    /\ task[r].listing = {}
    /\ \E outcome \in {"active", "unreachable"} :
         Becomes(r, [task[r] EXCEPT !.pc = "mark", !.open = FALSE,
                                    !.result = outcome])
    /\ UNCHANGED <<exists, row, seen, running, counting, clock>>

\* AuthenticationError in the stream.  What was flushed stays in the open
\* transaction, the batch being collected is dropped, and the session is
\* closed after the failure is marked.
AuthLost(r) ==
    /\ task[r].pc = "listing"
    /\ Becomes(r, [task[r] EXCEPT !.pc = "mark", !.listing = {},
                                  !.result = "credential_error"])
    /\ UNCHANGED <<exists, row, seen, running, counting, clock>>

\* The get of mark_success and mark_failure; without a row there is nothing to
\* mark.
MarkRead(r) ==
    /\ task[r].pc = "mark"
    /\ IF task[r].target \in exists
       THEN Becomes(r, [task[r] EXCEPT !.pc = "marking",
                                       !.loaded = row[task[r].target]])
       ELSE Becomes(r, [task[r] EXCEPT !.pc = "commit", !.open = FALSE])
    /\ UNCHANGED <<exists, row, seen, running, counting, clock>>

\* The UPDATE, which takes the row; collect returns and closes the session.
MarkFlush(r) ==
    /\ task[r].pc = "marking"
    /\ IF task[r].target \in exists
       THEN /\ ~RowLocked(task[r].target)
            /\ Becomes(r, [task[r] EXCEPT !.pc = "commit", !.open = FALSE])
       ELSE Abandon(r)
    /\ UNCHANGED <<exists, row, seen, running, counting, clock>>

\* The VMs of the transaction and the mark become visible together.
Commit(r) ==
    LET t == task[r] IN
    /\ t.pc = "commit"
    /\ row' = IF t.target \in exists
              THEN [row EXCEPT ![t.target] =
                      Updated(@, t.loaded, Marked(t.loaded, t.result, t.at))]
              ELSE row
    /\ seen' = [seen EXCEPT ![t.target] =
                  [v \in Vms |-> IF v \in t.wrote THEN t.at ELSE @[v]]]
    /\ Becomes(r, [t EXCEPT !.pc = "done", !.wrote = {}])
    /\ UNCHANGED <<exists, running, counting, clock>>

\* The finally of _run_collection.
Finish(r) ==
    /\ task[r].pc = "done"
    /\ Release(r)
    /\ UNCHANGED <<exists, row, seen, counting, clock>>

\* An exception the service does not know: a database error, a mapping bug, a
\* password that cannot be decrypted.
Exception(r) ==
    /\ "exception" \in Faults
    /\ task[r].pc \in {"queued", "connect", "listing", "flush", "mark",
                       "marking", "commit"}
    /\ task[r].result # "collection_error"
    /\ Abandon(r)
    /\ UNCHANGED <<exists, row, seen, running, counting, clock>>

\* _mark_unexpected_failure fails: logged, and nothing is recorded.
RecordFails(r) ==
    /\ "record" \in Faults
    /\ task[r].pc \in {"mark", "marking", "commit"}
    /\ task[r].result = "collection_error"
    /\ Abandon(r)
    /\ UNCHANGED <<exists, row, seen, running, counting, clock>>

-----------------------------------------------------------------------------
(* Deleting a connection, and a worker that dies                           *)

\* DELETE /connections/{id}: count_active_vms.  A connection with VMs is
\* refused with 422.  A worker without the key cannot serve it.
DeleteCount(c) ==
    /\ BadKey # Workers
    /\ c \in exists
    /\ \A v \in Vms : seen[c][v] = 0
    /\ counting' = counting \cup {c}
    /\ UNCHANGED <<exists, row, seen, running, task, clock>>

\* An uncommitted INSERT of a VM holds the connection row it refers to.
HeldByInsert(c) ==
    \E q \in Reqs : /\ task[q].target = c
                    /\ \E v \in task[q].wrote : seen[c][v] = 0

\* Mutant: without the foreign key.
DeletableUnchecked(c) == TRUE

\* ON DELETE RESTRICT
Deletable(c) == \A v \in Vms : seen[c][v] = 0

\* connections.remove and its commit; with VMs committed since the count the
\* foreign key refuses and the request ends in an error.
DeleteRow(c) ==
    /\ c \in counting
    /\ ~RowLocked(c)
    /\ ~HeldByInsert(c)
    /\ exists' = IF Deletable(c) THEN exists \ {c} ELSE exists
    /\ counting' = counting \ {c}
    /\ UNCHANGED <<row, seen, running, task, clock>>

\* The process ends: its guard, its tasks and their transactions are gone, and
\* what it had committed stays.  The service manager starts it again.
Crash(w) ==
    /\ "crash" \in Faults
    /\ \E r \in Reqs : Live(r) /\ task[r].home = w
    /\ running' = [running EXCEPT ![w] = {}]
    /\ task' = [r \in Reqs |-> IF task[r].home = w THEN Idle ELSE task[r]]
    /\ UNCHANGED <<exists, row, seen, counting, clock>>

-----------------------------------------------------------------------------
\* The steps the code takes by itself once a collection has started.
Advance(r) ==
    \/ Find(r) \/ AttemptRead(r) \/ AttemptWrite(r) \/ Load(r)
    \/ Connect(r) \/ ConnectFails(r)
    \/ FillBatch(r) \/ Flush(r) \/ FlushViolates(r) \/ FlushDeadlocked(r)
    \/ EndListing(r) \/ AuthLost(r)
    \/ MarkRead(r) \/ MarkFlush(r) \/ Commit(r) \/ Finish(r)

Fault(r) == AttemptFails(r) \/ Exception(r) \/ RecordFails(r)

Next ==
    \/ \E r \in Reqs, w \in Workers, c \in Conns : Start(r, w, c)
    \/ \E w \in Workers, c \in Conns : StartRaises(w, c)
    \/ \E r \in Reqs : Advance(r) \/ Fault(r)
    \/ \E c \in Conns : DeleteCount(c) \/ DeleteRow(c)
    \/ \E w \in Workers : Crash(w)

Spec == Init /\ [][Next]_vars

\* Waiting for the hypervisor.  WinRM operations have a timeout; the vCenter
\* calls have none and may never return.
AtHypervisor(r) == task[r].pc \in {"connect", "listing"}

\* The event loop resumes a task whose await has completed, and the database
\* answers.  The hypervisor need not, and nobody has to click, to delete or to
\* fail.
FairSpec ==
    Spec /\ \A r \in Reqs : WF_vars(~AtHypervisor(r) /\ Advance(r))

-----------------------------------------------------------------------------
(* Properties                                                              *)

\* The guard of a worker holds the connections its requests and tasks are
\* working on, one task each: nothing is registered twice, and no failure of
\* the request or of the task leaves a connection registered that nobody works
\* on (connections.py, start_collection and _run_collection).  Except where
\* the key cannot be decoded: such a worker registers and works on nothing
\* (StartRaises).
GuardIsExact ==
    /\ \A w \in Workers \ BadKey, c \in Conns :
         c \in running[w] <=> \E r \in Reqs : /\ Live(r)
                                              /\ task[r].home = w
                                              /\ task[r].target = c
    /\ \A r \in Reqs : Live(r) => task[r].home \notin BadKey
    /\ \A q, r \in Reqs :
         /\ Live(q) /\ Live(r)
         /\ task[q].home = task[r].home
         /\ task[q].target = task[r].target
         => q = r

\* A connection is collected by one task at a time.
OneCollectionPerConnection ==
    \A q, r \in Reqs :
        Live(q) /\ Live(r) /\ task[q].target = task[r].target => q = r

\* The hypervisor session is open only while the collection that opened it is
\* still to end: success, authentication lost in the middle, a deleted
\* connection and an unknown exception all close it (CollectService.collect).
ReaderSessionReleased ==
    \A r \in Reqs :
        task[r].open =>
            \/ task[r].pc \in {"listing", "flush"}
            \/ /\ task[r].pc \in {"mark", "marking"}
               /\ task[r].result = "credential_error"

\* What makes a collection wait for another one: a lock on the connection's
\* row, or rows of machines that another transaction has not committed.
Waits(r) ==
    \/ /\ task[r].pc \in {"attempting", "marking"}
       /\ task[r].target \in exists
       /\ RowLocked(task[r].target)
    \/ /\ task[r].pc = "flush"
       /\ Blockers(r) # {}
       /\ ~InRing(r)

NotAllWait ==
    (\E r \in Reqs : Live(r)) => \E r \in Reqs : Live(r) /\ ~Waits(r)

\* The row locks, the unique index and the foreign key make transactions wait
\* for one another, and never all of them at once: nothing else holds a
\* collection up, so as long as one is under way, one can take its next step.
SomeoneCanAdvance ==
    /\ \A r \in Reqs : Live(r) /\ ~Waits(r) => ENABLED Advance(r)
    /\ NotAllWait

\* No VM row, committed or about to be, refers to a connection that is gone,
\* however a delete and a collection interleave (ConnectionService.delete).
NoOrphanVms ==
    \A c \in Conns \ exists :
        /\ \A v \in Vms : seen[c][v] = 0
        /\ \A r \in Reqs : task[r].target = c => task[r].wrote = {}

\* A connection whose attempt has neither succeeded nor failed yet: the screen
\* shows it as being collected.
Pending(c) ==
    /\ c \in exists
    /\ row[c].error = "none"
    /\ row[c].success < row[c].attempt

\* Somebody is working on every connection that reads as being collected
\* (_mark_unexpected_failure: otherwise the screen never leaves that state).
PendingHasTask ==
    \A c \in Conns : Pending(c) =>
        \E r \in Reqs : Live(r) /\ task[r].target = c

\* Reading an active connection, last_success_at is as old as its freshest VM:
\* a collection that ended badly and kept part of its data does not read as a
\* success, and neither does one that was rolled back.  The error and the
\* status tell the same failure, although they are columns the ORM writes
\* independently of each other (mark_attempt clears one of them only).
ColumnsTellTheTruth ==
    \A c \in exists :
        /\ row[c].status = "active" => \A v \in Vms : seen[c][v] <= row[c].success
        /\ row[c].error # "none" => row[c].status = row[c].error

\* The times a reader takes for the age of the data never go back, and a row
\* once collected never goes away (NFR-302).
AgeNeverGoesBack ==
    [][\A c \in Conns : /\ row'[c].success >= row[c].success
                        /\ \A v \in Vms : seen'[c][v] >= seen[c][v]]_vars

Asking(c) == \E r \in Reqs : task[r].target = c /\ AtHypervisor(r)

\* Every recorded attempt is answered, by a success, by an error or by the
\* deletion of the connection, unless its collection waits for ever for a
\* hypervisor that does not answer: nothing of the portal's own loses an
\* attempt (_run_collection, _mark_unexpected_failure).
AttemptIsAnswered ==
    \A c \in Conns : []<>~Asking(c) => (Pending(c) ~> ~Pending(c))

-----------------------------------------------------------------------------
(* What a collection promises                                              *)

\* The steps of a collection whose attempt is recorded and not answered.
Working == {"queued", "connect", "listing", "flush", "mark", "marking",
            "commit"}

StageOf(pc) == IF pc \in {"attempt", "found", "attempting"} THEN "starting"
               ELSE IF pc \in Working THEN "running" ELSE "none"

\* What is going on for a connection; a task that has committed does not count.
Stage(c) ==
    IF \E r \in Reqs : /\ task[r].target = c
                       /\ StageOf(task[r].pc) = "starting" THEN "starting"
    ELSE IF \E r \in Reqs : /\ task[r].target = c
                            /\ StageOf(task[r].pc) = "running" THEN "running"
    ELSE "none"

Stages == [c \in Conns |-> Stage(c)]

Promise == INSTANCE Collecting
    WITH stage <- Stages,
         Failing <- "exception" \in Faults,
         Unreliable <- Faults \cap {"record", "crash"} # {}

\* To those who read a connection and its machines a collection happens at
\* once: however it is cut into awaits, batches and transactions, and wherever
\* it fails, it ends once, tells how, and what it stored is as of one moment
\* and not older than what it replaces; a failure that the service does not
\* know stores nothing, and a deleted connection gets nothing
\* (_run_collection, _collect_once, _mark_unexpected_failure).
ImplementsPromise == Promise!Spec

\* What GET /connections tells of each connection, and its machines.
Reported ==
    [c \in Conns |-> [there |-> IF c \in exists THEN "there" ELSE "gone",
                     success |-> row[c].success,
                     error |-> IF row[c].error = "none" THEN "none" ELSE "told",
                     job |-> Stages[c],
                     machines |-> {v \in Vms : seen[c][v] # 0}]]

Report == INSTANCE CollectionReport
    WITH Ids <- Conns, report <- Reported,
         Failing <- "exception" \in Faults,
         Unreliable <- Faults \cap {"record", "crash"} # {}

\* Whoever polls GET /connections learns of each end from last_success_at and
\* last_error: the attempt has cleared the error, and one of them changes when
\* the collection ends, and not before (start_collection, mark_attempt).
ImplementsReport == Report!Spec
=============================================================================
