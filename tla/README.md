# Formal model of the virtual resource inventory portal

TLA+ modules that model the portal's own logic, TLC configurations that check
them on small instances, and theorems proved with TLAPS. The portal collects
inventories of virtual machines from vCenter, Hyper-V and SCVMM into
PostgreSQL and shows them to users whose accounts an administrator manages.
Definitions follow the source under `src/`; `PROJECT.json` maps every
definition to the lines it stands for.

## 1. Inventory of the system

| Component | State | Operations | Model |
|---|---|---|---|
| Inventory collection (`api/routes/connections.py`, `application/collect_service.py`) | `_running_collections` per process, the attempt/success/error columns of a connection, the open transaction and the hypervisor session of a task | start, run in the background, record success, failure, unexpected failure | `Collection`, `Pipeline` |
| vCenter adapter (`infrastructure/vcenter`) | session, container view, page token | list, check | `VCenterReader` |
| Hyper-V and SCVMM adapters (`infrastructure/hyperv`) | a session per node | walk the nodes, list, check | `WinRmReader` |
| Connection test (`infrastructure/checks.py`) | the stages so far | four stages, the first failure ends them | `Pipeline` |
| VM repository (`vm_repo.py`) | rows of `virtual_machines` and `resource_identities` | upsert by identity, guest fallback, search, count | `VmUpsert`, `InventoryPage` |
| Connection administration (`application/connection_service.py`, `connection_repo.py`) | rows of `connections` | create, delete, test, list | `ConnectionAdmin`, `ConnectionRegistry` |
| First start (`main.py`) | the first administrator | create once | `Bootstrap` |
| Account administration (`application/user_service.py`, `user_repo.py`) | rows of `users` and `user_connection_scopes` | register, approve, reject, disable, enable, change role, set scopes, reset password | `Accounts`, `UserAdmin`; reset password in `Credentials` |
| Authentication (`application/auth_service.py`) | failed count, lock time, hash, must-change flag | login, logout, change password | `Passwords`, `Credentials` |
| Request pipeline (`api/deps.py`) | one database session per request | authorise, commit or roll back | in each module whose requests it carries |
| Inventory query (`inventory_query.py`, `vm_repo.search_vms`) | none | search, page, restrict to scope | `InventoryPage` |
| Page of connections (`static/js/connections.js`) | the list as drawn, the connections waited for, a timer | start, poll, reload, add, delete | `ConnectionsPage` |
| Page of the inventory (`static/js/resources.js`) | filter, page, rows as drawn | choose, page | `InventoryPage` |
| Audit log (`audit_repo.py`) | rows of `audit_events` | record | `ConnectionAdmin` |
| Page of users, encryption, masking, schemas, health, retry helper, scripts, deployment | none that the modelled parts read | | not modelled |

How they interact: an API request authorises its user and reads and writes
through repositories within one PostgreSQL transaction. A collect request
writes the attempt in a transaction of its own, answers 202 and leaves a
background task in the same process. The task drives a reader (the adapter),
writes batches through the VM repository and commits once. The browser learns
about the end only by polling the connection list. Several worker processes
share the database and nothing else.

What is hard: requests and tasks interleave at every `await`; worker processes
do not see each other's guard; READ COMMITTED lets a decision rest on a row
that has changed since; the ORM writes only columns that differ from what it
loaded; exceptions leave in the middle of a sequence and generators are left
suspended; machines move and passwords change while a listing runs; answers
reach a page in another order than it asked; a process can die with work in
flight. `PROJECT.json` lists these hazards with their lines and properties.

What makes each part correct. *Collection*: one at a time per connection, the
guard released, the columns truthful, every attempt answered whose hypervisor
answers. *Readers*: what
can be listed is listed once, failures are told apart, sessions closed, one
wrong logon at most. *Repository*: a key leads to one row, a guest shows one
reading. *Administration*: a target is registered once, a connection with
machines stays, audit and table agree. *Accounts and passwords*: operations
behave as if atomic; somebody can always administer. *Pages*: what is waited
for is polled, reported ends have happened, nothing outside the scopes is
shown, pages tile.

## 2. Modules

| Module | Contents |
|---|---|
| `Collecting` | abstract: a collection starts, is recorded and ends in one step |
| `CollectionReport` | abstract: what the list of connections tells somebody who polls it about a collection |
| `Collection` | what collections of inventories do to each other and to deletions; crashes; implements `Collecting` and `CollectionReport` with one worker |
| `MCCollection`, `CollectionProofs` | small instances, theorems |
| `InventoryReader` | abstract: the port `HypervisorInventoryReader` |
| `ReaderState` | the hypervisor that changes, the reader object, its generator |
| `WinRmReader` | the readers of a Hyper-V host, a cluster and SCVMM |
| `VCenterReader` | the reader of vCenter |
| `VmUpsert` | the rows and identity keys a batch writes, the guest fallback |
| `Pipeline` | one collection or connection test, from the reader to the rows; implements `InventoryReader` |
| `MCPipeline`, `PipelineProofs` | small instances, theorems about types, keys, sessions and nodes, the refinement included |
| `ListingProofs` | theorems about what a job tells and stores, on the invariants of `PipelineProofs` |
| `ConnectionRegistry` | abstract: creation and deletion of connections are atomic |
| `Bootstrap` | workers that start, make the first administrator and take registrations |
| `ConnectionAdmin` | creation and deletion as transactions that interleave |
| `Portal` | composes the two: workers that start, serve requests and die; implements `ConnectionRegistry` |
| `MCPortal`, `PortalProofs` | small instances, theorems, the refinement included |
| `CollectionServer` | the server as a browser sees it; implements `CollectionReport` |
| `ConnectionsPage` | `connections.js` and its polling |
| `InventoryPage` | `resources.js` and `GET /virtual-machines` |
| `Browser` | composes the three: a tab that shows one page at a time |
| `MCBrowser`, `BrowserProofs` | small instances, theorems |
| `AccountLifecycle` | statuses, roles, allowed transitions |
| `Accounts` | abstract: every operation of an administrator is atomic |
| `UserAdmin` | the same operations as transactions that interleave; implements `Accounts` one request at a time |
| `MCUserAdmin`, `UserAdminProofs` | small instances, theorems, the refinement included |
| `Passwords` | abstract: every change and reset of a password is atomic |
| `Credentials` | login, change and reset as transactions; implements `Passwords` one request at a time |
| `MCCredentials`, `CredentialsProofs` | small instances, theorems, the refinement included |

`Collection` and `Pipeline` are two views of one code: `Collection` has many
tasks, workers, locks and deletions, and a reader that may do anything;
`Pipeline` has one job at a time and every await of the reader and of the
repository. `CollectionServer` is the third view, in which a collection begins,
is recorded and ends. `CollectionReport` ties it to the first: both implement it.

### Collection

`task[r]` is a collect request and then the background task it becomes. Its
`pc` names the await the code has reached:

| `pc` | the code is | actions that leave it |
|---|---|---|
| `attempt` | before `connections.get` in `start_collection` | `Find`, `AttemptFails` |
| `found` | before the `get` of `mark_attempt` | `AttemptRead`, `AttemptFails` |
| `attempting` | before the UPDATE and commit of `mark_attempt` | `AttemptWrite`, `AttemptFails` |
| `queued` | before `load_with_password` | `Load`, `Exception` |
| `connect` | in `reader.start_session` | `Connect`, `ConnectFails`, `Exception` |
| `listing` | in the `async for` | `FillBatch`, `EndListing`, `AuthLost`, `Exception` |
| `flush` | in `upsert_virtual_machines` | `Flush`, `FlushViolates`, `FlushDeadlocked`, `Exception` |
| `mark` | before the SELECT of `mark_success`/`mark_failure` | `MarkRead`, `Exception`, `RecordFails` |
| `marking` | before their UPDATE | `MarkFlush`, `Exception`, `RecordFails` |
| `commit` | before `session.commit` | `Commit`, `Exception`, `RecordFails` |
| `done` | before the `finally` of `_run_collection` | `Finish` |

`BadKey` are the workers whose settings hold an encryption key that cannot be
decoded. In them `start_collection` registers the connection and raises before
its `try` (`StartRaises`); nothing else of a collection happens there.

`result = "collection_error"` at `mark`, `marking` and `commit` means that
`_mark_unexpected_failure` is running, in a session of its own. `row` and
`seen` are what is committed; `wrote` is what an open transaction has flushed.
The clock is a counter that advances when the code reads it for an attempt and
for `observed_at`; no two readings are equal. `last_error` carries the kind of
the failure instead of its text. The listing of a hypervisor is any set of
VMs, in any order and batching. The guest columns and the identity
rows are in `Pipeline`; the audit event and the password are not represented.

PostgreSQL is modelled from what the code relies on: `RowLocked` (an UPDATE
holds its row until the end), `Blockers` (writing the same VM waits),
`Violates` (`uq_vm_native`, the foreign key), `HeldByInsert` (an uncommitted
child row holds its parent), `FlushDeadlocked` (the deadlock detector aborts
one of a ring).

`Collecting` has no tasks: a connection is idle, starting or running
(`stage`), and the end of a run is one step that writes the outcome and the
machines together, with a time that lies before nothing the connection shows
(`Moments`); a success is later than the one it replaces. A known failure may come with machines, `Break` with none, and
nothing at all is written for a connection that is gone (`Vanish`). `Unreliable`
allows an end without an answer (`Lose`), and `Failing` a request that takes its
registration back because the database failed. A row that goes between the two
reads of a request is missed and its task runs into nothing (`Miss`, then
`Vanish`). `Collection` contains
`Promise == INSTANCE Collecting`: the stage of a connection is read off the `pc` of
the task that works on it (`Stages`; `done` counts as idle), and `Unreliable` is
"record" or "crash" in `Faults`. Every step but the two readings of the clock, the
recorded attempt, the commit and the ways to end is a stutter.

`CollectionReport` is what is left of that for somebody who polls
`GET /connections`: per connection whether its row is there, `last_success_at`,
whether `last_error` is set, the stage of its collection and the machines stored.
An attempt clears the error; the end that follows sets it or moves the success
on, and nothing else touches either. That is what the docstring of
`start_collection` (`connections.py:148`) tells the page to go by. `Report` in
`Collection` and in `CollectionServer` instantiates it with `Reported`, read off
the detailed state of each.

### Pipeline and the readers

`svc.pc` names where `CollectService.collect` or `ConnectionService.test` is,
`reader.at` where the generator of `list_virtual_machines` is. The service
waits for the next item at `listing`; only then does the generator run.

| `svc.pc` | the code is | actions that leave it |
|---|---|---|
| `connect` | in `start_session` | `Connect`, `ConnectRefused`, `ConnectFails` |
| `listing` | in the `async for` | `Deliver` of the item that fills a batch, `EndOfStream`, `StreamRefused` |
| `flush` | in `upsert_virtual_machines`, one machine per step | `BatchWritten`, `WriteFails` |
| `closing` | in the `finally` | `Close` |
| `mark` | in `mark_success` or `mark_failure` and the commit | `Commit`, `CommitFails` |
| `rollback` | in `_mark_unexpected_failure` | `Rollback` |
| `reach`, `tls`, `auth`, `authz` | in a stage of the connection test | `CheckReachable`, `CheckTls`, `CheckAuth`, `CheckAuthorized` |
| `answer` | after the stages | `AnswerCheck`, `AnswerRaises` |

| `reader.at` | the generator is | left by |
|---|---|---|
| `begin` | before its first answer | `ResolveNodes`, `ListHost`, `ListScvmm`, `CreateView` and their failures |
| `walk` | at the head of the loop over the nodes | `OpenNode`, `OpenNodeRefused`, `OpenNodeFails`, `EndWalk` |
| `script` | waiting for the script of a node | `ListNode`, `ListNodeFails`, `ListNodeRefused` |
| `page` | waiting for `RetrievePropertiesEx` or its continuation | `RetrievePage`, `RetrieveFails`, `RetrieveRefused` |
| `rows` | at a `yield` | `Deliver`, then `NextNode`, `NextPage`, `EndList` |
| `release` | in the `finally` that destroys the view | `ReleaseView` |
| `ended`, `refused`, `dropped` | finished, left by an `AuthenticationError`, or suspended for good | `FinaliseGenerator`, if it has a view |

While a job runs machines move, appear and disappear (`Move`) and the directory
stops or starts accepting the password (`Rotate`). A generator that its
consumer left (`WriteFails`, or the `break` of the probe of a connection test)
is closed by the event loop at some later time (`FinaliseGenerator`), possibly
after the session; the view then goes with the session, as the code expects.

Of a row `VmUpsert` keeps the native id, the time it was seen and the guest
values, each value named by the collection that read it, so that `WithFallback`
can be told from a mixture. vCenter's configured guest system stands in for a
reported one and is taken to be present. A machine whose `instanceUuid` cannot be
read is known by its MoRef that time (`NoUuid`), and becomes a second row.

### Portal

`worker[w]` is the start of a process (`counting`, `adding`, `committing` are
the awaits of `ensure_bootstrap_admin`), `users` where the committed accounts
come from: `bootstrap`, `registered` (an application, which a serving worker
commits) or `inherited`, accounts of any role that were there before. `CountUsers`
counts them all, as `users.count()` does. `req[r]` is a request to create or
delete a connection, `find` to `commit` being the awaits of its service, its audit
event and its commit. `held` says that the transaction is alive with what it
wrote: `AuditFails` is the failed flush that `AuditRepository.record` swallows,
after which only `CommitRaises` is left. An INSERT waits for an uncommitted one
of the same target (`TargetHeld`), a DELETE for the transaction that holds the
row (`RowHeld`). `Die` ends a process with its requests. `log` is the set of
committed events; an event is written once per connection and action, so
two deletions that both answer 204 leave one member.

`ConnectionAdmin` contains `Registry == INSTANCE ConnectionRegistry`; the
refinement mapping is the identity, commits are its `Create` and `Delete`.

### Browser

`table[c]` is the row of a connection and its collection. `call[k]` is a
`GET /connections` in flight, of a poll or of another `reload()`; `PollFires`
is the interval, `PollArrives` the rest of its callback. `click[c]` counts the
`POST .../collect` of one connection that are in flight, as the button stays as
it is drawn until an answer comes: `sent`, at work with the registration they
made (`began`), or answered 202 (`accepted`). `Click` and `ClickArrives` are the two halves
of the handler of [collect now], `ServeClick` and `ClickCommitted` those of
`start_collection`, `ClickFails` its `catch`, whether the call was refused or its
answer lost. A handler runs to its next await without interruption; calls are
served and answered in any order, and one of the list may fail (`Returns`).
`query[q]` is a `GET /virtual-machines`, served in three steps because the
scopes, the count and the rows are three statements; `Arrives` draws whichever
answer comes last, as the page does. `Open` replaces the document, and everything
in flight with it; the new one asks for its session first (`tab = "asking"`).
`ended`, `recorded`, `may` and `walk` are history for the properties.

### Accounts and UserAdmin

`req[r]` is a request of an administrator. `Authorize` is the check of
`get_current_user` and `require`; `Load` is `_require_user` together with the
checks made on the row before the next await; `Guard` is `_guard_last_admin`;
`Write` is the flushed UPDATE, which takes the row; `ScopesFind`,
`ScopesDelete` and `ScopesInsert` are the DELETE and the INSERT of
`ScopeRepository.replace`; `Commit` is the commit of the route. `Fails` is any
database error, including that of the audit event, and rolls everything back.
`Allowed` collects the refusals: `_check_transition`, `_guard_self` and the
refusal of `set_scopes` for administrators.

A DELETE finds the rows committed when it starts, waits for the transactions
that hold one of them and skips those that are gone afterwards (`ReqsAfter`),
even if their keys have been inserted again. The INSERT of several rows is one
step: overlapping inserts wait for each other, and the one that comes second
fails, as it also would as the victim of a deadlock.

`Accounts` has no requests: approval, rejection and so on happen at once.
`UserAdmin` contains `Promise == INSTANCE Accounts`, and the refinement mapping
is the identity on `user` and `granted`; every step but `Commit` and `Register`
is a stutter.

### Passwords and Credentials

`req[r]` is a login, a change of password or a reset. `Login`, `ChangePassword`
and `ResetPassword` are its arrival with the checks of `deps.py`; `Load` is the
SELECT of the account and every refusal decided on it; `Write` the flush, which
takes the row; `Commit` the commit of the route. A login with a wrong password
goes on from `Write` to `Raise`: `register_failure` has flushed its count, then
`AuthenticationError` leaves the route and `get_db` rolls back, so `Raise`
leaves `account` alone. `Updated` is the UPDATE of the columns that differ from
the ones read; a hash is salted and always differs.

A password stands for its hash, with `weak` for one made with fewer rounds than
the portal uses now; `RaiseRounds` is the restart that makes all of them weak.
`locked` says that `locked_until` is set; whether it has passed is an input of
each login (`later`). `session` holds the users whose browser has a token, one
browser per user; a change or a reset of the password does not end a session.
Statuses other than `active` are one value, `inactive`, and roles are fixed
(`Admins`): `UserAdmin` is about those. `refused` is not in the code: it counts
what a user was answered. People never choose a password that the portal
generated.

`Credentials` contains `Promise == INSTANCE Passwords`; the refinement mapping
projects `account` on the password and on the users who have to change it. Failed
logins, re-hashing, sessions and statuses are stutters.

## 3. Runs

| Run | Instance | What it shows |
|---|---|---|
| `collection_one_worker` | 1 process, 1 connection, 2 requests, 2 VMs, batches of 1, exceptions, no crash, clock to 5; fair | the guard keeps collections apart; a connection never reads as collecting without a task; the columns tell the truth about the data; times never go back; every attempt is answered unless its hypervisor never answers; collections implement `Collecting` and `CollectionReport` |
| `collection_two_workers` | 2 processes and a third without a key, all faults, clock to 2; symmetric | the guard is exact but for the third, the session is released, no VM refers to a deleted connection, nothing but another transaction holds a collection up, and never all of them at once |
| `pipeline` | all four kinds, 2 machines on 2 nodes, 2 jobs, 1 move, pages of 1, batches of 2, 3 resource ids; symmetric | every reader implements the port; a machine that stayed is listed once and stored; nodes are accounted for; sessions are closed; one logon at most is refused; keys lead to their rows; guests keep their readings; a connection test names the stage |
| `pipeline_failed_nodes` | one collection of a cluster | **violated**: nodes failed and nobody is told |
| `portal` | 2 workers, with accounts at the start or without, 2 requests, 3 connections, 2 targets; symmetric; deadlock checked | a portal that began without accounts serves only with its administrator; audit and table agree; answers are true; overlapping requests implement `ConnectionRegistry` |
| `browser` | 2 connections, 2 machines of one name, 2 list calls, 2 clicks, 1 query, pages of 1, 2 events; fair; deadlock checked | one timer polls while something is waited for; a failure ends the waiting; an end reported once the attempt was recorded has happened; answers stay within the scopes; pages tile |
| `browser_unnoticed` | the same | **violated**: a collection that is over and that the page waits for |
| `user_admin_serial` | 3 users, 1 connection, all roles, 1 request at a time | the transactions implement `Accounts`; there is always an administrator; administrators have no scope rows; rejection is final; replacement replaces |
| `user_admin_concurrent` | 2 users, 1 connection, 2 requests, two roles; symmetric | a request changes only its own columns whatever it read |
| `user_admin_last_admin` | as above | **violated**: no administrator is left |
| `credentials_serial` | 2 users, 2 own passwords, 1 temporary one, lock after 2 failures, 1 request at a time | the transactions implement `Passwords`; a temporary password has to be changed; only its owner lifts that duty |
| `credentials_lockout` | the same | **violated**: wrong passwords never lock the account |

Bounds, and why they suffice. The properties of `Collection` relate one
connection to the tasks that work on it; tasks of different connections share
nothing but the guard set, which keeps one entry per connection, so one
connection, with two tasks on it, shows every interaction of two. Two VMs and
batches of one give a transaction with several flushes and rings of two
transactions. `MaxClock` bounds how many collections start: 5 with one worker
allows three collections one after the other, so a success can follow a
failure and a failure a success; 2 with two workers allows two collections
that overlap completely.

In `Pipeline` two nodes let one answer and one fail, in either order, and let
a machine move past the walk; two machines with batches of two and pages of one
give a full batch, a last batch of one and a token; two jobs give a row that
is found again and a guest that falls back; three resource ids are as many rows
as two jobs with one doubtful machine can make. `Reports` has the reports the
mappers treat differently: nothing, an address only, everything.

The third worker of `collection_two_workers` only registers; it takes no task, so
two workers with the key suffice for the rest.

In `Portal` every race is between two requests on one target or one
connection; two targets and three ids allow a target to be deleted and
registered again while another request is on its way. An id is never reused,
so requests run out of new ones; the rest goes on.

In `Browser` `MaxEvents` bounds what other people and a bad network do, which
are the events that make a list stale: two allow a collection that overlaps
something else. Two calls let answers overtake each other, and `MaxPosts` two
clicks on one connection or on two. Of the connections that must be there some
begin with a failure on record; a success stores all the machines of its
connection, a failure all or none. Two machines of one
name on pages of one need the tie-breaker.

In `UserAdmin` every race is between two transactions on the same account or on
each other's actors, so two users, one of whom is the first administrator, and
two requests suffice; three users in the serial run give a third party. The
roles `viewer` and `admin` stand for all roles where `operator` is treated
as `viewer` is. In `Credentials` accounts do not interact but for the
administrator who resets, so one administrator and one other user suffice; two
own passwords allow a right and a wrong one and a change of one to the other;
two failures tell the last one from the one before.

`CHECK_DEADLOCK FALSE`: once `MaxClock` or `MaxJobs` is reached, or while nobody
asks for anything, the system may rest. Whether `Collection` can block is asked by
`SomeoneCanAdvance` instead. `Portal` and `Browser` never rest, and are checked.

Races that the serial runs leave out on purpose. Changing the constants of a
run shows each of them, so the restriction in the table is needed:

- `OneCollectionPerConnection` with `Workers <- WorkersTwo` and no faults: the
  guard is a set in the memory of a process (`connections.py:59`, whose comment
  names the limit), and the deployment guide starts two (`docs/05_deployment.md:357`).
- `ColumnsTellTheTruth` and `AgeNeverGoesBack` with `Workers <- WorkersTwo` and no
  faults: two collections of one connection commit in the other order than they
  loaded, and the later commit writes the older `last_success_at`.
- `ImplementsPromise` with `Workers <- WorkersTwo` and no faults: two collections of
  one connection are under way, which is not one collection that happens at once.
- `ImplementsReport` with `Workers <- WorkersTwo` and no faults: a collection
  begins while another one is under way, and who polls cannot tell their ends apart.
- `PendingHasTask` with `Workers <- WorkersTwo`, where the collection that began first
  records an older success over the failure of the other; with `"record"` in
  `Faults`, where nothing is recorded at all; and with `"crash"` in `Faults`: `last_error` is cleared before
  the task starts and nothing looks for open attempts at start-up; the screen
  shows the connection as being collected until somebody starts another collection.
- `RejectedIsFinal` with two requests: the UPDATE of one decision has no condition
  on the status that was checked.
- `ScopesAreReplaced` with two requests and two connections: the DELETE of one
  replacement does not see the rows the other has not committed.
- `AdminsUnscoped` with two requests: `set_scopes` has read the role before the
  promotion commits.
- `TemporaryMustChange` with two requests: a reset that has read
  `must_change_password = True` does not write the column, and the owner's change
  that commits in between has cleared it.
- `ImplementsPasswords` with two requests: after the rounds were raised, a login
  that has verified the old password writes its hash back over a change or a
  reset that commits in between.

## 4. Fairness

`Collection!FairSpec`: weak fairness, for each task, of `Advance(r)` at every step
that does not wait for the hypervisor (`AtHypervisor`). The event loop resumes a
task whose await is complete and the database answers. Nothing is assumed of the
hypervisor: the WinRM calls have timeouts, those to vCenter have none
(`asyncio.to_thread` in `vcenter/session.py` and `collector.py`) and may never
return. `AttemptIsAnswered` therefore asks for an answer only where no collection of
the connection waits for the hypervisor for ever; a collection that does keeps its
connection registered. Nothing is assumed about requests, deletions, faults or
crashes. Weak fairness is enough because with one worker nothing takes a row
away again and again.

`Browser!Spec`: weak fairness of what the event loop of an open page does by
itself: the interval fires, a list call is served or fails and its answer is
handled. Nothing is assumed about collections, which may run for ever, about
clicks and their answers, people, other tabs or queries. A document may be
replaced at any time, which also ends the waiting. How often list calls fail is
bounded by `MaxEvents`.

`UserAdmin!FairSpec`: strong fairness of `Advance(r)`, because a request that
waits for a row is enabled on and off while others take the row in turn;
PostgreSQL queues those that wait for a row.

`Pipeline`, `Portal` and `Credentials` state no liveness and assume no fairness.

## 5. Findings

Four runs show disagreements between the code and what the repository says of it.

1. *The last administrator* (`user_admin_last_admin`). `_guard_last_admin`
   counts without a lock. Two administrators who demote or disable each other
   at once are both let through.
2. *No lock after wrong passwords* (`credentials_lockout`, a bug of the code).
   The count of failures, the lock and the audit event of a failed login are
   rolled back with the request that raised. If the count were committed before
   the exception, the property would hold in this run.
3. *Failed nodes are not told* (`pipeline_failed_nodes`). A cluster of which some
   nodes failed ends with `failed=False` and an error that names them, which
   `collect` never reads; `mark_success` writes `last_error = NULL`.
4. *An end that nobody notices* (`browser_unnoticed`). A poll looks for a change
   against the list drawn last; a `reload()` after a save or a deletion draws it
   first (`connections.js:128`, `419`), so `before` (159) equals what the poll gets.
   The comment of `startPolling` (`connections.js:155`) and the docstring of
   `start_collection` (`routes/connections.py:148-149`) say that polling tells the
   end. Two more ways lead to the same state: a connection that is deleted while it is waited
   for is not in any list again (`connections.js:162`), and a click that is
   answered after the end was drawn waits for nothing.

Further disagreements, in the models and described here:

- *A registration that stays.* `start_collection` registers the connection (line
  160) and builds the cipher (163) before its `try` (165). `EnvKeyProvider` raises
  when the key cannot be decoded, which nothing has checked before, so the
  entry is never discarded, although the comment at 175 takes it back "if the task
  could not be queued" and the docstring at 186-188 says why it must be. From
  then on the process answers `already_running` and 202 and collects
  nothing. `StartRaises` is that path, `GuardIsExact` excepts such workers
  (`BadKey`), and `BadKeyKeepsTheGuard` proves that the entry stays. `_run_collection`
  builds the same cipher outside its `try` (190), from the same settings, so it
  cannot fail where 163 did not.
- *An old error as the end of a new collection.* A click that is answered
  `already_running` while the request that registered the collection has not committed
  its attempt makes the page wait; a poll that is served before that commit
  shows the `last_error` of the collection before, and the page reports it as the end
  (`connections.js:165`). The docstring of `mark_attempt`
  (`connection_repo.py:87-92`) says that clearing it prevents this. Without the
  filter on `job` in `ServeList` TLC finds it in eleven states;
  `RecordedReportsAreTrue` is about the polls answered after the commit.
- *A portal without an administrator.* `ensure_bootstrap_admin` counts the accounts
  of any role and status (`main.py:56`). Where accounts were there before and none
  of them administers, which the first finding can lead to, it adds none and the worker serves;
  `test_bootstrap.py:49-60` asks for just that. `ServedWithAdmin` is about databases
  that begin without accounts.

Smaller observations, met while modelling and part of the models:

- A cluster with a healthy node without machines and a failed node ends with
  `failed=True`: "nothing was listed" stands for "no node answered" (`EndWalk`).
- On Hyper-V and SCVMM a guest that reports only an address counts as available, and
  the stored guest system is replaced by nothing (`HostGuest`, `ScvmmGuest`).
- Two rows for a machine whose `instanceUuid` is readable only sometimes.
- `server_version` of vCenter is asked after the stages and may raise, although
  the port says that a test answers with a result and not with an exception
  (`AnswerRaises`).
- Of two requests that create one target at once the second gets 500, not 409;
  two that delete one connection at once both get 204 (`InsertOrViolate`, `RemoveRow`).
- `AuditRepository.record` says that its failure does not stop the operation; the
  failed flush leaves the session unusable, so the commit raises and the answer
  is 500 (`AuditFails`, `CommitRaises`). Table and log agree because of it.
- A poll whose list call failed compares the old list, and reports an old
  `last_error` as the end of a new collection; so does a poll that was sent before
  the click was answered. A success that the list had not drawn yet is reported as
  that of the collection that runs. The premises of `RecordedReportsAreTrue`
  leave these out.
- An inventory answer is drawn whatever the filter is by then, and may count
  as the total of all (`Arrives`); the count and the rows of one answer may be of
  two states of the table.

## 6. Proofs

All theorems hold for every value of the constants that the named assumptions
of the modules allow:

- `CollectionAssumption`: workers and connections exist, those without a key are
  workers, the batch size is positive.
- `PipelineAssumption`: there are nodes, machines and resource ids are finite,
  sizes are positive, native ids are those of the machines.
- `PortalAssumption`: there are workers and connection ids, requests are served by
  those workers, "no row" is not a target.
- `BrowserAssumption`: there are connections, machines are finite, each is of one
  connection and has a name, and no two have the same `resource_id` (it is the
  primary key, names repeat); the markers for "everything" and "undefined" are
  not values, the page size is positive, the bounds are numbers.
- `UserAdminAssumption`: the first administrator is a user.
- `CredentialsAssumption`: the first administrator is one, passwords people
  choose and generated ones differ, at least one failure locks.

`CollectionProofs`
- `TypeCorrect`: `TypeOK` is inductive.
- `GuardExact`: `GuardIsExact` is inductive together with `TypeOK`. Lemma
  `AdvanceShape` carries the argument: a step of a live task either goes on with the
  same process and the same connection, or ends the task and leaves the guard;
  `GuardRelease`, `GuardGoesOn`, `GuardStart` and `GuardCrash` are the four ways the
  guard can change.
- `BadKeyKeepsTheGuard`: the guard of a worker without its key only grows, and no
  live task is its own, so nothing that is registered there is ever collected. Only the
  worker's own tasks release an entry (`AdvanceShape`), and by `GuardExact` it has none.
- `OneWorkerCollectsOnce`: with `Workers = {w}`, a consequence of `GuardExact`.
- `SessionReleased`: by induction over the steps of one task (`SessionStep`),
  as no step touches another task (`AdvanceAlone`).
- `NoOrphans`: for any number of workers, requests and machines. `NoOrphanVms`
  is inductive once it is known that what a batch found by identity is
  committed or written by the same transaction (`Identified`): a transaction
  that has written rows of a connection either inserted one, which holds the
  connection's row, or updated one that is committed, which keeps it from being
  deleted.
- `OneWorkerTellsTheTruth` and `OneWorkerNeverGoesBack`, with `Workers = {w}` and
  every fault, the death of the process included. Neither is inductive: the ORM
  leaves out columns that look unchanged, so what an UPDATE writes depends on
  what was loaded. `AloneInv` adds that a task that writes has loaded the row
  as it is (`Accurate`), that nothing of its connection is newer than the task
  (`Newest`: nor as new, before it commits) and nothing at all newer than the clock
  (`Past`). It needs the guard:
  with two workers both properties fail (section 3).
- `OneWorkerAnswers`: `PendingHasTask` with `Workers = {w}` when failures can be
  recorded and the process does not die, which is what the comment of
  `_mark_unexpected_failure` asks for. `Owed` strengthens it: the task is in a step
  from which it still records a result. TLC shows a counterexample without
  any one of the hypotheses (section 3).

- `OneWorkerKeepsPromise`: with `Workers = {w}` and every fault,
  `Spec => ImplementsPromise`. The invariant is `AtOnceInv`: the guard is exact, one
  task works on a connection, `AloneInv`, `OrphanInv`, and a task that records an
  unexpected failure has written nothing (`RolledBack`). `StageAlone` and
  `StageMoves` say that the stage of a connection is where its one task stands, and
  that a step moves that stage and no other. Then each step is mapped:
  `StartKeepsPromise`, `RequestKeepsPromise`, `CommitKeepsPromise` (one case per
  outcome), and `RunningShape` for all the steps between.
- `NeverAllWait`: `NotAllWait` for any number of workers, finitely many requests and
  every fault. A task that waits for the connection's row waits for one at its
  commit, which waits for nobody. Otherwise all of them wait at a flush, each for
  another of them; `SomeWaitInARing` takes a smallest set of them that is closed under
  this and finds a ring, which PostgreSQL breaks, so that its members do not
  wait (`InRing`). The invariant it takes is `OpenWrites`: only a task at a step of
  `Writing`, its transaction open, has written anything, so that a flush waits for a
  task that is itself under way. `WaitingTakesNoStep` shows that `Waits` is no
  weaker than the guards of `Advance`.
- `OneWorkerReports`: with `Workers = {w}` and every fault, `Spec => ImplementsReport`.
  It is proved of `Collecting` (`PromiseReports`: each of its steps is one of
  `CollectionReport` or leaves the report as it is) and carried over by
  `OneWorkerKeepsPromise`; `MachinesGrow` says that what is stored later than all
  there is takes no machine away.

`PipelineProofs`
- `KeysLead`: `RowsHaveTheirKey` is inductive with the types of the rows. An update
  rewrites the key it was found by; an insertion is only made where no row has
  the native id, which `uq_vm_native` enforces.
- `TypeCorrect`, `OneLogonRefused` and `NothingLeftOpen` follow from `IInv`, the
  conjunction of `DataOK` (the service and the rows) and `ReaderOK`: the reader is
  `Good` at `svc.pc`, that is `Sound` in itself (what is open, what was refused
  and where the generator is go together) and `InPhase` with the service (no
  generator runs before the session or after it). One refusal is inductive
  only with both: a session that was refused at its start never lists, and a
  refusal in the stream ends the generator.
- `ReadersKeepThePort`: the same invariant; `PortInit` and one lemma per group of
  steps show that each is a step of `InventoryReader` or a stutter.
- `NodesAccountedFor`: `AccountOK` adds that the nodes are divided into those that
  answered, failed, are being visited and are still to visit, and that nothing is
  given from a node that did not answer.

`ListingProofs`
- `TestTellsTheStage`: `CheckOK` says at each stage that all before it passed, and
  at the answer which stage failed, if one did (`Judged`): what is open, what was
  read and what was refused go with it.
- `SettledListedOnce`: `GivenOK` follows each machine that does not move through
  a listing: it is given once when its node answered and it is not left on a page
  or in the rows that were fetched, and left only when its node answered
  (`OnceEach`); `InStep` says when nothing is left. It rests on `AccountOK`, as a
  node that is listed twice would give its machines twice.
- `GuestsKeepTheirReading`: `TimesOK` says that a job's time is later than every
  committed row, that what it reads is of that time (`Readings`) and that each row of
  the transaction is the committed one or of a later reading (`Fits`).
- `ListedAreStored`: as long as a collection can still succeed, the machines given
  are those in the rows that carry its time and those in the batch (`Kept`). A
  machine that is written goes from the batch to a row under its own identifier
  only because an update finds the row of the same key: `RowsHaveTheirKey` is
  used, and `TimesOK`, so that no older row carries the time of the collection.

`PortalProofs`
- `TypeCorrect`: inductive. `AdminBeforeService`: `ServedWithAdmin` is inductive only
  with its second part, that no application comes before the administrator: a
  worker that counts an application serves without looking for its role.
- `AuditTold`: `AuditTellsTheTable` needs to know that a request owns what it
  holds (`OwnAll`: an id that is being created is not in the log, a row that is
  being deleted was created), that two requests never hold the same thing
  (`ApartAll`) and that only what was created is deleted (`OnlyCreatedGo`).
- `AnswersTold` and `OverlapKeepsPromise` follow from the same invariant:
  only a commit with `held` changes the tables, and then it is the step of
  `ConnectionRegistry`.

`BrowserProofs`
- `OneTimer`: `PollsWhileWaiting` is inductive; each handler leaves timer and
  `collecting` together.
- `AnswersInScope`: each query has read scopes that the user was granted meanwhile
  (`ScopesOK`), and counts and lists within them; the machines known only grow.
- `PagesTileTheTable`: `Precedes` orders the machines totally because `resource_id`
  differs (`OneOrder`), so each has a place of its own (`Placed`), a slice of the
  order is a page (`SliceIsPage`), pages are apart (`PagesApart`) and each place is on
  one (`PlaceHasPage`). `WalkOK` says that each page of a walk is such a slice of the
  unchanged table, or was not asked for.
- `RecordedReportsTold`: `EndsOK` relates the row, the clicks and the polls: while the
  page waits for a collection that has not ended, it goes on (`Awaited`); a row
  whose collection runs has no error (`RowKept`); a poll in `recorded` that was
  read meanwhile shows no error and the success of the row (`PollTrue`). `Moved` lists
  what may become of a row without the page.
- `ServerReports`: `Spec => ImplementsReport` with nothing lost. `RowMoves` and `EndTold`
  map the steps of the server, `ClickTold` those that a click makes; all the rest of
  the page leaves the report as it is. Together with `OneWorkerReports` it says that
  the server of `Browser` tells nothing that collections do not tell.

`UserAdminProofs`
- `TypeCorrect`: for any number of concurrent requests.
- `OneRequestKeepsPromise`: with `Reqs = {r}`, `Spec => ImplementsAccounts`. `SomeAdmin`
  and the refinement are not inductive: a commit is right only because what the
  request read is still so. The strengthening is `Current`: the actor is
  still an administrator, the account is still the one that was read and
  allowed, the rows the DELETE found are all there are. `CurrentStep` shows that
  it is inductive, `CommitKeepsPromise` that the commit is a step of `Accounts`,
  one case per operation.
- `AdminSurvives`, `AdminsStayUnscoped`, `RejectionIsFinal`: each is kept by every
  step of `Accounts` (`PromisedAdmin`, `PromisedUnscoped`, `PromisedRejection`) and so,
  through the refinement, by requests that come one at a time. With two
  requests they do not hold (section 3).
- `OneRequestReplacesScopes`: one request at a time, from `Current`: the rows that
  the DELETE found are all there are.
- `RequestsKeepToTheirColumns`: for any number of concurrent requests. Each request may only differ from what it loaded in the column it is
  about; `Registered` adds that the account it works on exists, so that no row
  comes back.

`AdminSurvives` also shows that, one request at a time, it takes no
`_guard_last_admin`: the proof uses only that the actor is another active
administrator. The guard matters only under concurrency, where it does not
hold.

`CredentialsProofs`
- `TypeCorrect`: for any number of concurrent requests.
- `OwnerLiftsTheDuty`: `OnlyTheOwnerIsFree` for any number of concurrent requests,
  although what a request read may be stale. It rests on the invariant `Sound`:
  a free name has no password and owes nothing, a request past its read has
  verified what it read (`Established`). `WrittenColumns` says what an UPDATE can
  do to the columns of passwords.
- `OneRequestKeepsPromise`: with `Reqs = {r}`, `Spec => ImplementsPasswords`. The
  strengthening is `AsRead`: the columns are still as the request read them and
  an administrator who may reset has asked for it. `CommitKeepsPromise` shows
  that a commit is a stutter, a change or a reset of `Passwords`.
- `TemporaryIsTemporary`: kept by every step of `Passwords`, so through the
  refinement with one request at a time; two requests break it (section 3).

## 7. Only model-checked, and not modelled

Out of the prover's reach: liveness (`AttemptIsAnswered`, `FailureIsTold`) and the part
of `SomeoneCanAdvance` that is about `ENABLED`: that nothing but what `Waits` names
holds a task up. Its other part, `NotAllWait`, is proved for every instance
(`NeverAllWait`).

Every other property of a passing run is the property of a theorem, with these
differences between what is checked and what is proved: `PendingHasTask` is proved
with `Workers = {w}` and without the faults "record" and "crash", as its run checks
it; `TypeOK` of `Collection`, `Pipeline`, `Portal` and `Credentials`, the types of
`Browser` that its proofs need and its `ImplementsReport` are proved and not run; the properties of `CollectionOneWorker` and of the serial runs of accounts and
passwords are proved with one worker or one request, because they fail with two.

Not modelled:

- hardware columns, disks and addresses, which the program copies from the
  adapter to the table; encryption, masking, HTTP formats, schemas;
- exceptions of the mapping within a generator. On Hyper-V and SCVMM they leave a
  finished generator and become an unexpected failure, as `WriteFails` does; on
  vCenter they become a failed outcome and leave the inner generator suspended, as
  `WriteFails` leaves the outer one;
- in `Browser`, an attempt that fails to be recorded although the connection is there,
  and a collection that is lost: `CollectionReport` allows both in `Collection`
  (`Failing`, `Unreliable`) and not in `CollectionServer`. After the first the page is
  told of the refusal and does not wait; after the second it waits for ever, as
  section 3 says of `PendingHasTask`;
- the connection pool: a request and its background task hold a session each,
  and it takes as many collections as the pool has places for them to wait for
  each other, which a smaller instance would only restate;
- the delay between the flush of a DELETE and its commit in `Collection`, and
  statements of one batch that interleave with those of another one (there a
  batch is one step; in `Pipeline` it is one step per machine, with one writer);
  two writers that mix the guest columns of one row are therefore in neither;
- the page of users, the dialogs, the text filter; migrations, scripts, build
  agents, deployment.

## 8. Plan

Done: all the modules of section 2, with their runs and the theorems of section 6.
What is left:

- The page of users, whose dialogs keep an account that another administrator may
  have decided meanwhile.
