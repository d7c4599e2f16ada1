--------------------------- MODULE CollectionServer ---------------------------
(***************************************************************************)
(* The server as the pages of one browser see it: which connections there  *)
(* are, what their rows say of the last collection, which machines have    *)
(* been stored and which connections the user of the tab may see.  Module  *)
(* Collection has the detail of a collection; here it is registered,       *)
(* recorded as an attempt and answered.                                    *)
(***************************************************************************)
EXTENDS Naturals, FiniteSets

CONSTANTS
    Ids,        \* connection_id
    First,      \* connections registered from the first
    Vms,        \* resource_id of the machines the hypervisors may list
    HomeOf,     \* the connection each machine is collected by
    MaxEvents   \* bound: collections begun, calls of the list that fail,
                \* connections made and deleted, scopes replaced, in all

VARIABLES
    table,      \* per connection: its row and its collection
    vms,        \* stored machines
    grants,     \* user_connection_scopes of the user of the tab
    events      \* see MaxEvents

serverVars == <<table, vms, grants, events>>

Entry == [there : {"unborn", "there", "gone"},
          success : Nat,        \* last_success_at
          error : BOOLEAN,      \* last_error is not null
          job : {"none", "starting", "running"},    \* _running_collections
          ended : BOOLEAN]      \* history: an end since the tab asked for one,
                                \* or it has not asked

NewEntry(there) == [there |-> there, success |-> 0, error |-> FALSE,
                    job |-> "none", ended |-> TRUE]

ServerTypeOK ==
    /\ table \in [Ids -> Entry]
    /\ vms \in SUBSET Vms
    /\ grants \in SUBSET Ids
    /\ events \in 0..MaxEvents

\* Some connections are registered; of those that must be, some have failed.
ServerInit ==
    /\ \E old, failed \in SUBSET Ids :
         /\ First \subseteq old /\ failed \subseteq First
         /\ table = [c \in Ids |->
                       [NewEntry(IF c \in old THEN "there" ELSE "unborn")
                          EXCEPT !.error = c \in failed]]
    /\ vms = {}
    /\ grants \in SUBSET Ids
    /\ events = 0

Event == events < MaxEvents /\ events' = events + 1

There(c) == table[c].there = "there"

VmsOf(c) == {v \in Vms : HomeOf[v] = c}

-----------------------------------------------------------------------------
(* POST /connections/{id}/collect                                          *)

\* The guard is free: the connection is registered in it.
Begin(c, asked) ==
    /\ There(c) /\ table[c].job = "none"
    /\ Event
    /\ table' = [table EXCEPT ![c].job = "starting",
                              ![c].ended = IF asked THEN FALSE ELSE @]
    /\ UNCHANGED <<vms, grants>>

\* For the tab, or for another tab or administrator.
BeginHere(c) == Begin(c, TRUE)
BeginElsewhere(c) == Begin(c, FALSE)

\* Mutant: the last failure stays on record until the next result.
AttemptedKeepingError(entry) == [entry EXCEPT !.job = "running"]

\* mark_attempt
Attempted(entry) == [entry EXCEPT !.job = "running", !.error = FALSE]

\* The attempt is committed and the task queued.  When the row is gone the
\* registration is taken back, or only mark_attempt has missed the row and the
\* task is queued all the same.
MarkAttempt(c) ==
    /\ table[c].job = "starting"
    /\ IF There(c)
       THEN table' = [table EXCEPT ![c] = Attempted(@)]
       ELSE \E job \in {"none", "running"} :
              table' = [table EXCEPT ![c].job = job]
    /\ UNCHANGED <<vms, grants, events>>

\* mark_success and mark_failure
Results(entry) ==
    {[entry EXCEPT !.job = "none", !.ended = TRUE,
                   !.success = @ + 1, !.error = FALSE],
     [entry EXCEPT !.job = "none", !.ended = TRUE, !.error = TRUE]}

\* The collection is over; what it had stored is committed with the result.
\* Bound: that is all the machines of the connection, or nothing on a failure.
End(c) ==
    /\ table[c].job = "running"
    /\ IF There(c)
       THEN \E entry \in Results(table[c]) :
              /\ table' = [table EXCEPT ![c] = entry]
              /\ vms' \in {vms, vms \cup VmsOf(c)}
              /\ entry.error \/ VmsOf(c) \subseteq vms'
       ELSE /\ table' = [table EXCEPT ![c].job = "none"]
            /\ UNCHANGED vms
    /\ UNCHANGED <<grants, events>>

-----------------------------------------------------------------------------
(* POST and DELETE /connections, PUT /users/{id}/scopes                    *)

CreateRow(c) ==
    /\ table[c].there = "unborn"
    /\ table' = [table EXCEPT ![c].there = "there"]
    /\ Event
    /\ UNCHANGED <<vms, grants>>

\* A connection with machines is not deleted.
Deletable(c) == There(c) /\ vms \cap VmsOf(c) = {}

RemoveRow(c) ==
    /\ Deletable(c)
    /\ table' = [table EXCEPT ![c].there = "gone"]
    /\ Event
    /\ UNCHANGED <<vms, grants>>

\* replace_for_user; the scopes of a deleted connection go with its row, and
\* are read as nothing from then on.
Regrant(to) ==
    /\ grants' = to
    /\ Event
    /\ UNCHANGED <<table, vms>>

-----------------------------------------------------------------------------
\* What GET /connections tells of each connection, and its machines.
Reported ==
    [c \in Ids |-> [there |-> table[c].there,
                   success |-> table[c].success,
                   error |-> IF table[c].error THEN "told" ELSE "none",
                   job |-> table[c].job,
                   machines |-> vms \cap VmsOf(c)]]

Report == INSTANCE CollectionReport
    WITH report <- Reported, Failing <- FALSE, Unreliable <- FALSE

\* The server of the browser is one that collections implement, when no attempt
\* fails to be recorded and no collection is lost: see Collection.
ImplementsReport == Report!Spec
=============================================================================
