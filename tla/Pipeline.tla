------------------------------- MODULE Pipeline -------------------------------
(***************************************************************************)
(* CollectService.collect from the reader of each kind of hypervisor to    *)
(* the committed rows, and the connection test that uses the same readers. *)
(* Collection models what collections do to each other; here one job runs  *)
(* at a time and every await of the reader and of the repository is a step *)
(* of its own, while machines move and passwords change.                   *)
(***************************************************************************)
EXTENDS WinRmReader, VCenterReader, VmUpsert, Sequences

CONSTANTS
    Kinds,      \* kinds of the connections that are used
    NoUuid,     \* machines whose instanceUuid vCenter may fail to give
    Reports,    \* what a guest may report, subsets of {"os", "host", "ip"}
    BatchSize,  \* settings.collection_batch_size
    MaxJobs     \* bound: collections and tests

ASSUME PipelineAssumption ==
    /\ Nodes # {} /\ Gone \notin Nodes
    /\ MaxMoves \in Nat /\ MaxJobs \in Nat
    /\ Kinds \subseteq ConnectionKind
    /\ PageSize \in Nat \ {0} /\ BatchSize \in Nat \ {0}
    /\ Natives = Vms \X {"uuid", "moref"}
    /\ NoRow \notin VmRow
    /\ IsFiniteSet(Ids) /\ IsFiniteSet(Vms)

VARIABLES
    svc,        \* the service: what runs, the batch, the verdict
    conn,       \* committed status, error and success of the connection
    stages      \* the stages of the connection test

vars == <<target, reader, stored, tx, svc, conn, stages>>

Failures == {"credential_error", "permission_error", "unreachable",
             "collection_error"}

\* A VirtualMachine as a reader yields it.
Observation == [native : Natives, guest : Guest]

Service == [pc : {"idle", "connect", "listing", "flush", "closing", "mark",
                  "rollback", "reach", "tls", "auth", "authz", "answer"},
            now : Nat,                      \* observed_at
            batch : Seq(Observation),
            result : Failures \cup {"none", "active"}]

ConnRow == [status : Failures \cup {"active"},
            error : Failures \cup {"none"},
            success : Nat]

StageNames == <<"reachable", "tls_valid", "authenticated", "authorized">>
StageResults == {"passed", "failed", "skipped"}

TypeOK ==
    /\ home \in [Vms -> Nodes \cup {Gone}]
    /\ accepts \in BOOLEAN
    /\ moves \in Nat
    /\ reader \in Reader
    /\ stored \in Tables /\ tx \in Tables
    /\ svc \in Service
    /\ conn \in ConnRow
    /\ stages \in Seq(StageResults)

Init ==
    /\ home \in [Vms -> Nodes \cup {Gone}]
    /\ accepts = TRUE
    /\ moves = 0
    /\ reader \in {NewReader(k) : k \in Kinds}
    /\ stored = Empty /\ tx = Empty
    /\ svc = [pc |-> "idle", now |-> 0, batch |-> << >>, result |-> "none"]
    /\ conn = [status |-> "active", error |-> "none", success |-> 0]
    /\ stages = << >>

Goes(pc) == svc' = [svc EXCEPT !.pc = pc]
Results(pc, result) == svc' = [svc EXCEPT !.pc = pc, !.result = result]

-----------------------------------------------------------------------------
(* Collection: connect                                                     *)

\* A job makes a reader of the kind of its connection.  The event loop has
\* closed the generator of the job before by then.
StartJob(pc) ==
    /\ svc.pc = "idle" /\ svc.now < MaxJobs
    /\ ~Suspended(reader)
    /\ reader' = NewReader(reader.kind)
    /\ svc' = [pc |-> pc, now |-> svc.now + 1, batch |-> << >>,
               result |-> "none"]
    /\ UNCHANGED <<target, stored, conn>>

StartCollect ==
    /\ StartJob("connect")
    /\ tx' = stored
    /\ stages' = << >>

Connect ==
    /\ svc.pc = "connect"
    /\ StartSession
    /\ Goes("listing")
    /\ UNCHANGED <<stored, tx, conn, stages>>

\* Not tried again: another wrong logon may lock the account.
ConnectRefused ==
    /\ svc.pc = "connect"
    /\ StartRefused
    /\ Results("mark", "credential_error")
    /\ UNCHANGED <<stored, tx, conn, stages>>

ConnectFails ==
    /\ svc.pc = "connect"
    /\ \E f \in {"permission_error", "unreachable"} : Results("mark", f)
    /\ UNCHANGED <<target, reader, stored, tx, conn, stages>>

-----------------------------------------------------------------------------
(* Collection: the async for                                               *)

BeginListing ==
    /\ svc.pc = "listing"
    /\ Begin
    /\ UNCHANGED <<stored, tx, svc, conn, stages>>

\* The generator runs while the service waits for the next item.
ReaderAdvances ==
    /\ svc.pc = "listing"
    /\ WinRmNext \/ VCenterNext
    /\ UNCHANGED <<stored, tx, svc, conn, stages>>

\* config.instanceUuid, or the MoRef of a machine without one.
NativeIds(v) ==
    IF reader.kind = "vcenter" /\ v \in NoUuid
    THEN {<<v, "uuid">>, <<v, "moref">>} ELSE {<<v, "uuid">>}

\* A machine is yielded, mapped and put into the batch; a full batch is
\* written before the next one is asked for.
Deliver(v) ==
    /\ svc.pc = "listing"
    /\ Yield(v)
    /\ \E native \in NativeIds(v), report \in Reports :
         LET vm == [native |-> native,
                    guest |-> MapGuest(reader.kind, report, svc.now)]
             batch == Append(svc.batch, vm)
         IN svc' = [svc EXCEPT
              !.batch = batch,
              !.pc = IF Len(batch) >= BatchSize THEN "flush" ELSE "listing"]
    /\ UNCHANGED <<stored, tx, conn, stages>>

\* Mutant: what is left in the batch at the end is not written.
LastBatchLost == Results("closing", "none")

\* The stream has ended: what is left in the batch is written, too.
LastBatch == Goes(IF svc.batch = << >> THEN "closing" ELSE "flush")

EndOfStream ==
    /\ svc.pc = "listing"
    /\ reader.at = "ended"
    /\ LastBatch
    /\ UNCHANGED <<target, reader, stored, tx, conn, stages>>

\* AuthenticationError in the stream: the failure is noted, the batch being
\* collected is lost, and the finally closes the session.
StreamRefused ==
    /\ svc.pc = "listing"
    /\ reader.at = "refused"
    /\ svc' = [svc EXCEPT !.pc = "closing", !.batch = << >>,
                          !.result = "credential_error"]
    /\ UNCHANGED <<target, reader, stored, tx, conn, stages>>

-----------------------------------------------------------------------------
(* Collection: writing a batch                                             *)

Written == svc' = [svc EXCEPT !.batch = Tail(@)]

UpsertKnown ==
    /\ svc.pc = "flush" /\ svc.batch # << >>
    /\ UpdateVm(Head(svc.batch), svc.now)
    /\ Written
    /\ UNCHANGED <<target, reader, stored, conn, stages>>

UpsertNew ==
    /\ svc.pc = "flush" /\ svc.batch # << >>
    /\ InsertVm(Head(svc.batch), svc.now)
    /\ Written
    /\ UNCHANGED <<target, reader, stored, conn, stages>>

BatchWritten ==
    /\ svc.pc = "flush" /\ svc.batch = << >>
    /\ Goes("listing")
    /\ UNCHANGED <<target, reader, stored, tx, conn, stages>>

\* An exception of the database in the middle of the
\* stream: the consumer leaves the loop and the generator stays behind.
WriteFails ==
    /\ svc.pc = "flush"
    /\ reader' = IF reader.at = "ended" THEN reader ELSE Dropped(reader)
    /\ svc' = [svc EXCEPT !.pc = "closing", !.batch = << >>,
                          !.result = "collection_error"]
    /\ UNCHANGED <<target, stored, tx, conn, stages>>

-----------------------------------------------------------------------------
(* Collection: the finally and the result                                  *)

\* The reader reports a failure that is not an exception in its outcome.
OutcomeResult == IF reader.outcome.failed THEN "unreachable" ELSE "active"

Close ==
    /\ svc.pc = "closing"
    /\ CloseSession
    /\ svc' = [svc EXCEPT
         !.pc = IF svc.result = "collection_error" THEN "rollback" ELSE "mark",
         !.result = IF @ = "none" THEN OutcomeResult ELSE @]
    /\ UNCHANGED <<stored, tx, conn, stages>>

\* mark_success and mark_failure.  A success has no error, whatever the
\* outcome says in its own.
Marked(c, result, now) ==
    IF result = "active"
    THEN [status |-> "active", error |-> "none", success |-> now]
    ELSE [c EXCEPT !.status = result, !.error = result]

Commit ==
    /\ svc.pc = "mark"
    /\ conn' = Marked(conn, svc.result, svc.now)
    /\ stored' = tx
    /\ Goes("idle")
    /\ UNCHANGED <<target, reader, tx, stages>>

CommitFails ==
    /\ svc.pc = "mark"
    /\ Results("rollback", "collection_error")
    /\ UNCHANGED <<target, reader, stored, tx, conn, stages>>

\* _collect_once rolls back and _mark_unexpected_failure notes the failure in
\* a session of its own.
Rollback ==
    /\ svc.pc = "rollback"
    /\ tx' = stored
    /\ conn' = Marked(conn, svc.result, svc.now)
    /\ Goes("idle")
    /\ UNCHANGED <<target, reader, stored, stages>>

-----------------------------------------------------------------------------
(* The connection test: StageRunner and the four stages                    *)

StartCheck ==
    /\ StartJob("reach")
    /\ tx' = stored
    /\ stages' = << >>

Passes(pc) == stages' = Append(stages, "passed") /\ Goes(pc)

\* Mutant: a stage that failed does not keep the next ones from running.
FailsAlone(pc) == stages' = Append(stages, "failed") /\ Goes(pc)

\* The first failure: the stages after it are skipped, and the test is over.
FailsHere(pc) ==
    /\ stages' = [i \in 1..Len(StageNames) |->
                    IF i <= Len(stages) THEN stages[i]
                    ELSE IF i = Len(stages) + 1 THEN "failed" ELSE "skipped"]
    /\ Goes("answer")

\* _check_reachable: a TCP connection within five seconds.
CheckReachable ==
    /\ svc.pc = "reach"
    /\ Passes("tls") \/ FailsHere("tls")
    /\ UNCHANGED <<target, reader, stored, tx, conn>>

\* _check_tls tells the policy; the certificate is verified at the next stage.
CheckTls ==
    /\ svc.pc = "tls"
    /\ Passes("auth")
    /\ UNCHANGED <<target, reader, stored, tx, conn>>

CheckAuth ==
    /\ svc.pc = "auth"
    /\ \/ StartSession /\ Passes("authz")
       \/ StartRefused /\ FailsHere("authz")
       \/ FailsHere("authz") /\ UNCHANGED <<target, reader>>
    /\ UNCHANGED <<stored, tx, conn>>

\* One machine is asked for.  On vCenter the loop is left with a break, so
\* the generator and its view are still there when the session is closed.
Probed == [reader EXCEPT
             !.answered = Nodes,
             !.view = reader.kind = "vcenter" /\ Registered # {}]

CheckAuthorized ==
    /\ svc.pc = "authz"
    /\ \/ reader' = Probed /\ Passes("answer") /\ UNCHANGED target
       \/ FailsHere("answer") /\ UNCHANGED <<target, reader>>
       \/ /\ reader.kind \in WinRm /\ ~accepts
          /\ reader' = [reader EXCEPT !.refusals = @ + 1]
          /\ FailsHere("answer") /\ UNCHANGED target
    /\ UNCHANGED <<stored, tx, conn>>

\* close_session, the audit event, the commit and the answer.
AnswerCheck ==
    /\ svc.pc = "answer"
    /\ CloseSession
    /\ Goes("idle")
    /\ UNCHANGED <<stored, tx, conn, stages>>

\* server_version asks the server again, outside of any stage: when it cannot
\* answer, the test raises and only the finally of the service is left.
AnswerRaises ==
    /\ svc.pc = "answer"
    /\ reader.kind = "vcenter" /\ reader.open
    /\ CloseSession
    /\ Goes("idle")
    /\ stages' = << >>
    /\ UNCHANGED <<stored, tx, conn>>

-----------------------------------------------------------------------------

ReaderFinalised ==
    /\ FinaliseGenerator
    /\ UNCHANGED <<stored, tx, svc, conn, stages>>

Collect ==
    \/ StartCollect \/ Connect \/ ConnectRefused \/ ConnectFails
    \/ BeginListing \/ ReaderAdvances \/ \E v \in Vms : Deliver(v)
    \/ EndOfStream \/ StreamRefused
    \/ UpsertKnown \/ UpsertNew \/ BatchWritten \/ WriteFails
    \/ Close \/ Commit \/ CommitFails \/ Rollback

Check ==
    \/ StartCheck \/ CheckReachable \/ CheckTls \/ CheckAuth
    \/ CheckAuthorized \/ AnswerCheck \/ AnswerRaises

Environment ==
    /\ svc.pc # "idle"
    /\ \/ \E v \in Vms, n \in Nodes \cup {Gone} : Move(v, n)
       \/ Rotate
    /\ UNCHANGED <<stored, tx, svc, conn, stages>>

Next == Collect \/ Check \/ ReaderFinalised \/ Environment

Spec == Init /\ [][Next]_vars

-----------------------------------------------------------------------------
(* Properties                                                              *)

\* One job never has more than one logon refused: a wrong password tried at
\* every node of a cluster locks the account (CST-05).
OneRefusal == reader.refusals <= 1

\* A machine that stayed where it is while a listing ran is listed exactly
\* once if it could be, and never from a node that did not answer.
SettledVmListedOnce ==
    reader.at = "ended" =>
      \A v \in Vms \ (reader.moved \cup reader.excluded) :
        IF home[v] \in reader.answered
        THEN /\ reader.given[v] <= 1
             /\ ~reader.outcome.failed => reader.given[v] = 1
        ELSE reader.given[v] = 0

\* A walk that ended has every node among those that answered or those that
\* failed; the outcome has an error when one failed and is a failure only
\* when nothing was listed.
EveryNodeIsAccountedFor ==
    reader.kind = "hyperv-cluster" /\ reader.at = "ended"
        /\ reader.outcome.error # "reason" =>
      /\ reader.answered \cup reader.failed = Nodes
      /\ reader.answered \cap reader.failed = {}
      /\ reader.outcome.error = "nodes" <=> reader.failed # {}
      /\ reader.outcome.failed => \A v \in Vms : reader.given[v] = 0

\* However a job ends, its session is closed and so is that of the node it
\* was at; the view is released, or the generator that holds it is about to
\* be closed.  A node has no session while its machines are yielded, for the
\* consumer may stop there.
SessionsReleased ==
    /\ svc.pc = "idle" =>
         ~reader.open /\ reader.node = NoNode
         /\ (reader.view => Suspended(reader))
    /\ reader.at \in {"rows", "ended", "refused", "dropped"} =>
         reader.node = NoNode
    /\ reader.at \in {"ended", "refused"} => ~reader.view

\* Every row is led to by its own key and by no other, committed or not.
RowsHaveTheirKey == IdentityBijection(stored) /\ IdentityBijection(tx)

\* A collection that is marked as a success has given each machine exactly
\* to the rows that carry its time: nothing given is lost with the last
\* batch, nothing is marked as seen that was not given.
ListedIsStored ==
    [][conn'.success # conn.success =>
         \A v \in Vms :
           reader.given[v] > 0 <=>
             \E i \in Ids : /\ stored'.rows[i] # NoRow
                            /\ stored'.rows[i].native[1] = v
                            /\ stored'.rows[i].seen = svc.now]_vars

Values(guest) == <<guest.os, guest.host, guest.at>>

\* The guest values of a row are of one reading, and they only ever give way
\* to a newer one: tools that stopped take nothing away (ROADMAP 7.4).
GuestKeepsItsReading ==
    [][\A i \in Ids : stored.rows[i] # NoRow =>
         /\ stored'.rows[i] # NoRow
         /\ OneReading(stored'.rows[i].guest)
         /\ \/ Values(stored'.rows[i].guest) = Values(stored.rows[i].guest)
            \/ stored'.rows[i].guest.at > stored.rows[i].guest.at]_vars

\* ConnectionCheckResult
IsUsable == \A i \in 1..Len(stages) : stages[i] = "passed"

\* The first stage that failed is the one the administrator has to act on:
\* before it all passed, after it nothing was tried, and a stage that passed
\* has really opened the session or read a machine.
CheckTellsTheStage ==
    svc.pc = "answer" =>
      /\ Len(stages) = Len(StageNames)
      /\ \A i, j \in 1..Len(stages) :
           i < j => /\ stages[i] # "passed" => stages[j] = "skipped"
                    /\ stages[j] = "passed" => stages[i] = "passed"
      /\ stages[1] # "skipped"
      /\ \A i \in 2..Len(stages) :
           stages[i] = "skipped" => stages[i - 1] # "passed"
      /\ stages[3] = "passed" <=> reader.open
      /\ IsUsable <=> reader.answered # {}
      /\ reader.refusals > 0 => "failed" \in {stages[3], stages[4]}

Stream == CASE reader.at = "none" -> "none"
            [] reader.at \in {"ended", "refused", "dropped"} -> reader.at
            [] OTHER -> "running"

Port == INSTANCE InventoryReader WITH
            NoOutcome <- NoOutcome,
            session <- IF reader.open THEN "open" ELSE "closed",
            stream <- Stream,
            count <- reader.yielded,
            outcome <- IF reader.outcome = NoOutcome THEN NoOutcome
                       ELSE [count |-> reader.outcome.count,
                             failed |-> reader.outcome.failed]

\* Whatever the hypervisor does, every reader is the reader of the port.
ImplementsPort == Port!Spec

\* The nodes that failed are told: a comment of host_reader says that the
\* machines which were collected are stored and that the administrator learns
\* from the error which nodes were not.
FailedNodesAreTold ==
    [][conn'.success # conn.success /\ reader.kind = "hyperv-cluster"
         /\ reader.failed # {} => conn'.error # "none"]_vars
=============================================================================
