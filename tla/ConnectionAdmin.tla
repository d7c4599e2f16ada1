--------------------------- MODULE ConnectionAdmin ---------------------------
(***************************************************************************)
(* ConnectionService.create and delete and the routes that call them: what *)
(* they find, write, audit and commit in the one transaction of a request. *)
(* Requests overlap at every await.  PostgreSQL makes an INSERT wait for   *)
(* an uncommitted one with the same unique key and a DELETE for the        *)
(* transaction that holds the row.                                         *)
(***************************************************************************)
CONSTANTS
    Ids,        \* connection_id, made by uuid4
    Targets,    \* pairs of an address and a user name
    NoRow,
    Reqs,       \* requests that may be in flight at once
    Homes       \* the worker processes that serve them

VARIABLES
    rows,       \* committed: the target of each connection
    vms,        \* connections with committed virtual machines
    log,        \* committed audit events: the action and its connection
    req         \* the requests

-----------------------------------------------------------------------------
(* Requests                                                                *)

Answers == {"201", "204", "404", "409", "422", "500"}

Request == [pc : {"idle", "find", "insert", "load", "count", "remove",
                  "audit", "commit", "answered"},
            home : Homes,
            op : {"create", "delete"},
            id : Ids,
            target : Targets \cup {NoRow},
            held : BOOLEAN,         \* the transaction holds what it wrote
            answer : Answers \cup {"none"}]

Idle == [pc |-> "idle", home |-> CHOOSE h \in Homes : TRUE, op |-> "create",
         id |-> CHOOSE i \in Ids : TRUE, target |-> NoRow, held |-> FALSE,
         answer |-> "none"]

Live(r) == req[r].pc \notin {"idle", "answered"}

AdminTypeOK ==
    /\ rows \in [Ids -> Targets \cup {NoRow}]
    /\ vms \in SUBSET Ids
    /\ log \in SUBSET ({"create", "delete"} \X Ids)
    /\ req \in [Reqs -> Request]

AdminInit ==
    /\ rows = [i \in Ids |-> NoRow]
    /\ vms = {}
    /\ log = {}
    /\ req = [r \in Reqs |-> Idle]

Becomes(r, q) == req' = [req EXCEPT ![r] = q]

Goes(r, pc) == Becomes(r, [req[r] EXCEPT !.pc = pc])

\* The request is answered; what it wrote and did not commit is rolled back.
Answered(r, answer) ==
    Becomes(r, [req[r] EXCEPT !.pc = "answered", !.held = FALSE,
                              !.answer = answer])

\* uuid4: neither the id of a connection that ever was nor of one to be.
FreshIds == {i \in Ids : /\ <<"create", i>> \notin log
                         /\ \A r \in Reqs : Live(r) => req[r].id # i}

-----------------------------------------------------------------------------
(* POST /connections                                                       *)

BeginCreate(r, h) ==
    /\ req[r].pc = "idle"
    /\ \E i \in FreshIds, t \in Targets :
         Becomes(r, [Idle EXCEPT !.pc = "find", !.home = h, !.op = "create",
                                 !.id = i, !.target = t])
    /\ UNCHANGED <<rows, vms, log>>

Registered(t) == \E i \in Ids : rows[i] = t

\* find_by_target, then the domain rules: 409, 422 or on to the INSERT.
FindTarget(r) ==
    /\ req[r].pc = "find"
    /\ IF Registered(req[r].target)
       THEN Answered(r, "409")
       ELSE Goes(r, "insert") \/ Answered(r, "422")
    /\ UNCHANGED <<rows, vms, log>>

\* Another transaction has inserted this target and has not ended.
TargetHeld(r) ==
    \E q \in Reqs \ {r} : /\ req[q].held /\ req[q].op = "create"
                          /\ req[q].target = req[r].target

\* Mutant: the table has no unique constraint.
InsertAnyway(r) == Becomes(r, [req[r] EXCEPT !.pc = "audit", !.held = TRUE])

\* uq_connection_target: nobody translates the IntegrityError, 500.
InsertOrViolate(r) ==
    IF Registered(req[r].target)
    THEN Answered(r, "500")
    ELSE Becomes(r, [req[r] EXCEPT !.pc = "audit", !.held = TRUE])

InsertRow(r) ==
    /\ req[r].pc = "insert"
    /\ ~TargetHeld(r)
    /\ InsertOrViolate(r)
    /\ UNCHANGED <<rows, vms, log>>

-----------------------------------------------------------------------------
(* DELETE /connections/{id}                                                *)

BeginDelete(r, h) ==
    /\ req[r].pc = "idle"
    /\ \E i \in Ids :
         /\ <<"create", i>> \in log
         /\ Becomes(r, [Idle EXCEPT !.pc = "load", !.home = h,
                                    !.op = "delete", !.id = i])
    /\ UNCHANGED <<rows, vms, log>>

LoadRow(r) ==
    /\ req[r].pc = "load"
    /\ IF rows[req[r].id] = NoRow THEN Answered(r, "404") ELSE Goes(r, "count")
    /\ UNCHANGED <<rows, vms, log>>

\* count_active_vms
CountVms(r) ==
    /\ req[r].pc = "count"
    /\ IF req[r].id \in vms THEN Answered(r, "422") ELSE Goes(r, "remove")
    /\ UNCHANGED <<rows, vms, log>>

RowHeld(r) ==
    \E q \in Reqs \ {r} : /\ req[q].held /\ req[q].op = "delete"
                          /\ req[q].id = req[r].id

\* The flushed DELETE.  Machines collected since the count break the foreign
\* key; a row that somebody else deleted meanwhile is not missed.
RemoveRow(r) ==
    /\ req[r].pc = "remove"
    /\ ~RowHeld(r)
    /\ IF req[r].id \in vms
       THEN Answered(r, "500")
       ELSE Becomes(r, [req[r] EXCEPT !.pc = "audit", !.held = TRUE])
    /\ UNCHANGED <<rows, vms, log>>

-----------------------------------------------------------------------------
(* The audit event and the commit                                          *)

\* Mutant: the answer goes out and the commit is left to the teardown.
AuditAnswersEarly(r) ==
    /\ req[r].pc = "audit"
    /\ Answered(r, IF req[r].op = "create" THEN "201" ELSE "204")
    /\ UNCHANGED <<rows, vms, log>>

\* AuditRepository.record: the flush writes the event, ...
Audit(r) ==
    /\ req[r].pc = "audit"
    /\ Goes(r, "commit")
    /\ UNCHANGED <<rows, vms, log>>

\* ... or fails.  The exception is swallowed, but the flush has rolled the
\* transaction back and left the session unusable.
AuditFails(r) ==
    /\ req[r].pc = "audit"
    /\ Becomes(r, [req[r] EXCEPT !.pc = "commit", !.held = FALSE])
    /\ UNCHANGED <<rows, vms, log>>

RowsAfter(r) ==
    [rows EXCEPT ![req[r].id] =
        IF req[r].op = "create" THEN req[r].target ELSE NoRow]

\* The event is in the transaction if its flush went well.
Events(r) == IF req[r].held THEN log \cup {<<req[r].op, req[r].id>>} ELSE log

\* Mutant: the failed audit event does not stop the commit.
CommitsAnyway(r) == req[r].pc = "commit"

Commits(r) == req[r].pc = "commit" /\ req[r].held

Commit(r) ==
    /\ Commits(r)
    /\ rows' = RowsAfter(r)
    /\ log' = Events(r)
    /\ Answered(r, IF req[r].op = "create" THEN "201" ELSE "204")
    /\ UNCHANGED vms

\* PendingRollbackError of a session that is unusable.
CommitRaises(r) ==
    /\ req[r].pc = "commit" /\ ~req[r].held
    /\ Answered(r, "500")
    /\ UNCHANGED <<rows, vms, log>>

\* Any exception: get_db rolls back.
Raises(r) ==
    /\ Live(r)
    /\ Answered(r, "500")
    /\ UNCHANGED <<rows, vms, log>>

\* The administrator has the answer.
Return(r) ==
    /\ req[r].pc = "answered"
    /\ Becomes(r, Idle)
    /\ UNCHANGED <<rows, vms, log>>

\* A collection commits the first machines of a connection; its INSERT waits
\* for a DELETE of the connection that is not committed.
Collected(i) ==
    /\ rows[i] # NoRow /\ i \notin vms
    /\ \A q \in Reqs : req[q].held /\ req[q].op = "delete" => req[q].id # i
    /\ vms' = vms \cup {i}
    /\ UNCHANGED <<rows, log, req>>

Serve(r) ==
    \/ FindTarget(r) \/ InsertRow(r)
    \/ LoadRow(r) \/ CountVms(r) \/ RemoveRow(r)
    \/ Audit(r) \/ AuditFails(r) \/ Commit(r) \/ CommitRaises(r)
    \/ Raises(r) \/ Return(r)

-----------------------------------------------------------------------------
(* Properties                                                              *)

\* The audit log tells the table: a connection is there if and only if its
\* creation is in the log and its deletion is not.  No operation is committed
\* without its event and no event without its operation, although auditing
\* swallows its own failures.
AuditTellsTheTable ==
    \A i \in Ids :
      rows[i] # NoRow <=> <<"create", i>> \in log /\ <<"delete", i>> \notin log

\* What an administrator was told is so when it is told: a 201 is a row with
\* the target that was asked for, a 204 its absence, each with its event;
\* any other answer has left nothing behind.
AnswersAreTrue ==
    [][\A r \in Reqs :
         /\ req'[r].answer = "201" /\ req[r].answer = "none" =>
              rows'[req[r].id] = req[r].target /\ <<"create", req[r].id>> \in log'
         /\ req'[r].answer = "204" /\ req[r].answer = "none" =>
              rows'[req[r].id] = NoRow /\ <<"delete", req[r].id>> \in log'
         /\ req'[r].answer \notin {"none", "201", "204"}
              /\ req[r].answer = "none" =>
              UNCHANGED <<rows, log>>]_<<rows, vms, log, req>>

Registry == INSTANCE ConnectionRegistry

\* Requests that overlap at every await do what single atomic ones do.
ImplementsRegistry == Registry!Spec
=============================================================================
