---------------------------- MODULE PipelineProofs ----------------------------
(***************************************************************************)
(* Theorems about Pipeline, for any number of machines, nodes, resource    *)
(* identifiers, jobs and moves and any sizes of pages and batches: rows    *)
(* keep their keys, one logon at most is refused, whatever was opened is   *)
(* closed, and every reader is the reader the port promises.               *)
(***************************************************************************)
EXTENDS Pipeline, SequenceTheorems, TLAPS

-----------------------------------------------------------------------------
(* Types of the rows and of the service                                    *)

LEMMA MapGuestTyped ==
    ASSUME NEW kind, NEW report, NEW now \in Nat
    PROVE  MapGuest(kind, report, now) \in Guest
BY DEF MapGuest, VCenterGuest, ScvmmGuest, HostGuest, GuestOf, NoGuest, Reading,
       Guest

LEMMA WithFallbackTyped ==
    ASSUME NEW guest \in Guest, NEW previous \in Guest
    PROVE  WithFallback(guest, previous) \in Guest
BY DEF WithFallback, Guest

LEMMA MergedTyped ==
    ASSUME NEW row \in VmRow, NEW guest \in Guest, NEW now \in Nat
    PROVE  /\ Merged(row, guest, now) \in VmRow
           /\ Merged(row, guest, now).native = row.native
<1>1. WithFallback(guest, row.guest) \in Guest
  BY WithFallbackTyped DEF VmRow
<1> HIDE DEF WithFallback
<1> QED
  BY <1>1 DEF Merged, VmRow

DataOK == /\ stored \in Tables /\ tx \in Tables
          /\ svc \in Service
          /\ conn \in ConnRow
          /\ stages \in Seq(StageResults)
          /\ svc.pc \in {"mark", "rollback"} => svc.result # "none"

LEMMA HeadTyped ==
    ASSUME svc \in Service, svc.batch # << >>
    PROVE  /\ Head(svc.batch) \in Observation
           /\ Tail(svc.batch) \in Seq(Observation)
BY DEF Service

LEMMA WrittenTyped ==
    ASSUME svc \in Service, svc.batch # << >>, Written
    PROVE  svc' \in Service
<1>1. Tail(svc.batch) \in Seq(Observation)
  BY HeadTyped
<1> QED
  BY <1>1 DEF Written, Service

LEMMA UpdateTyped ==
    ASSUME tx \in Tables, NEW vm \in Observation, NEW now \in Nat,
           UpdateVm(vm, now)
    PROVE  tx' \in Tables
<1>1. PICK i \in Ids :
        /\ tx.rows[i] # NoRow
        /\ tx' = [rows |-> [tx.rows EXCEPT ![i] = Merged(@, vm.guest, now)],
                  idents |-> SyncIdentities(tx, i, vm.native)]
  BY DEF UpdateVm
<1>2. /\ tx.rows \in [Ids -> VmRow \cup {NoRow}]
      /\ tx.idents \in SUBSET (Ids \X Natives)
      /\ vm.native \in Natives /\ vm.guest \in Guest
  BY DEF Tables, Observation
<1>3. Merged(tx.rows[i], vm.guest, now) \in VmRow
  BY <1>1, <1>2, MergedTyped
<1>4. SyncIdentities(tx, i, vm.native) \in SUBSET (Ids \X Natives)
  BY <1>2 DEF SyncIdentities
<1> QED
  BY <1>1, <1>2, <1>3, <1>4 DEF Tables

LEMMA InsertTyped ==
    ASSUME tx \in Tables, NEW vm \in Observation, NEW now \in Nat,
           InsertVm(vm, now)
    PROVE  tx' \in Tables
<1> DEFINE row == [native |-> vm.native, seen |-> now, guest |-> vm.guest]
<1>1. PICK i \in Unused(tx) :
        tx' = [rows |-> [tx.rows EXCEPT ![i] = row],
               idents |-> SyncIdentities(tx, i, vm.native)]
  BY DEF InsertVm
<1>2. /\ tx.rows \in [Ids -> VmRow \cup {NoRow}]
      /\ tx.idents \in SUBSET (Ids \X Natives)
      /\ vm.native \in Natives /\ vm.guest \in Guest /\ i \in Ids
  BY DEF Tables, Observation, Unused
<1>3. row \in VmRow
  BY <1>2 DEF VmRow
<1>4. SyncIdentities(tx, i, vm.native) \in SUBSET (Ids \X Natives)
  BY <1>2 DEF SyncIdentities
<1> QED
  BY <1>1, <1>2, <1>3, <1>4 DEF Tables

LEMMA GoesTyped ==
    ASSUME svc \in Service,
           NEW pc \in {"idle", "connect", "listing", "flush", "closing", "mark",
                       "rollback", "reach", "tls", "auth", "authz", "answer"},
           Goes(pc)
    PROVE  svc' \in Service
BY DEF Goes, Service

LEMMA ResultsTyped ==
    ASSUME svc \in Service, NEW pc \in {"mark", "rollback"},
           NEW f \in Failures, Results(pc, f)
    PROVE  svc' \in Service
BY DEF Results, Service

LEMMA DeliverTyped ==
    ASSUME svc \in Service, NEW v \in Vms, Deliver(v)
    PROVE  svc' \in Service
<1>1. PICK native \in NativeIds(v), report \in Reports :
         LET vm == [native |-> native,
                    guest |-> MapGuest(reader.kind, report, svc.now)]
             batch == Append(svc.batch, vm)
         IN svc' = [svc EXCEPT
              !.batch = batch,
              !.pc = IF Len(batch) >= BatchSize THEN "flush" ELSE "listing"]
  BY DEF Deliver
<1> DEFINE vm == [native |-> native,
                  guest |-> MapGuest(reader.kind, report, svc.now)]
<1>2. native \in Natives
  BY PipelineAssumption DEF NativeIds
<1>3. svc.now \in Nat /\ svc.batch \in Seq(Observation)
  BY DEF Service
<1>4. vm \in Observation
  BY <1>2, <1>3, MapGuestTyped DEF Observation
<1>5. Append(svc.batch, vm) \in Seq(Observation)
  BY <1>3, <1>4
<1> HIDE DEF vm
<1> QED
  BY <1>1, <1>5 DEF Service, vm

LEMMA MarkedTyped ==
    ASSUME conn \in ConnRow, NEW result \in Failures \cup {"active"},
           NEW now \in Nat
    PROVE  Marked(conn, result, now) \in ConnRow
BY DEF Marked, ConnRow

LEMMA PassesTyped ==
    ASSUME stages \in Seq(StageResults), NEW pc, Passes(pc)
    PROVE  stages' \in Seq(StageResults)
BY DEF Passes, StageResults

LEMMA FailsTyped ==
    ASSUME stages \in Seq(StageResults), NEW pc, FailsHere(pc)
    PROVE  stages' \in Seq(StageResults)
<1>1. stages \in [1..Len(stages) -> StageResults] /\ Len(stages) \in Nat
  OBVIOUS
<1>2. Len(StageNames) = 4
  BY DEF StageNames
<1>3. stages' \in [1..4 -> StageResults]
  BY <1>1, <1>2 DEF FailsHere, StageResults
<1>4. Seq(StageResults) = UNION {[1..n -> StageResults] : n \in Nat}
  BY SeqDef
<1>5. [1..4 -> StageResults] \in {[1..n -> StageResults] : n \in Nat}
  OBVIOUS
<1> HIDE DEF StageResults
<1> QED
  BY <1>3, <1>4, <1>5, Zenon

LEMMA DataStep == DataOK /\ [Next]_vars => DataOK'
<1> SUFFICES ASSUME DataOK, [Next]_vars PROVE DataOK'
  OBVIOUS
<1>a. /\ stored \in Tables /\ tx \in Tables /\ svc \in Service
      /\ conn \in ConnRow /\ stages \in Seq(StageResults)
      /\ svc.pc \in {"mark", "rollback"} => svc.result # "none"
  BY DEF DataOK
<1>1. ASSUME NEW pc \in {"connect", "reach"}, StartJob(pc), tx' = stored,
             stages' = << >>
      PROVE  DataOK'
  <2>1. svc' \in Service /\ svc'.pc = pc
    BY <1>1, <1>a DEF StartJob, Service
  <2> QED
    BY <1>1, <1>a, <2>1 DEF StartJob, DataOK
<1>2. CASE StartCollect \/ StartCheck
  BY <1>1, <1>2 DEF StartCollect, StartCheck
<1>3. ASSUME NEW pc \in {"idle", "listing", "flush", "closing", "tls", "auth",
                         "authz", "answer"},
             Goes(pc)
      PROVE  svc' \in Service /\ svc'.pc = pc
  BY <1>3, <1>a DEF Goes, Service
<1>4. CASE Connect \/ EndOfStream \/ BatchWritten
  BY <1>3, <1>4, <1>a DEF Connect, EndOfStream, LastBatch, BatchWritten, DataOK
<1>5. ASSUME NEW pc \in {"mark", "rollback"}, NEW f \in Failures, Results(pc, f)
      PROVE  svc' \in Service /\ svc'.result # "none"
  BY <1>5, <1>a DEF Results, Service, Failures
<1>6. CASE ConnectRefused \/ ConnectFails \/ CommitFails
  BY <1>5, <1>6, <1>a
  DEF ConnectRefused, ConnectFails, CommitFails, Failures, DataOK
<1>7. CASE UNCHANGED <<stored, tx, svc, conn, stages>>
  BY <1>7, <1>a DEF DataOK
<1>8. ASSUME NEW v \in Vms, Deliver(v) PROVE DataOK'
  <2>1. svc' \in Service
    BY <1>8, <1>a, DeliverTyped
  <2>2. svc'.pc \in {"flush", "listing"}
    BY <1>8, <1>a DEF Deliver, Service
  <2> QED
    BY <1>8, <1>a, <2>1, <2>2 DEF Deliver, DataOK
<1>9. CASE StreamRefused
  <2>0. << >> \in Seq(Observation) /\ "credential_error" \in Failures
    BY DEF Failures
  <2>1. svc' \in Service /\ svc'.pc = "closing"
    BY <1>9, <1>a, <2>0 DEF StreamRefused, Service
  <2> QED
    BY <1>9, <1>a, <2>1 DEF StreamRefused, DataOK
<1>10. CASE UpsertKnown \/ UpsertNew
  <2>1. svc.pc = "flush" /\ svc.batch # << >> /\ Written
    BY <1>10 DEF UpsertKnown, UpsertNew
  <2>2. svc' \in Service /\ svc'.pc = "flush"
    BY <1>a, <2>1, WrittenTyped DEF Written, Service
  <2>3. svc.now \in Nat
    BY <1>a DEF Service
  <2>4. tx' \in Tables
    BY <1>10, <1>a, <2>1, <2>3, HeadTyped, UpdateTyped, InsertTyped
    DEF UpsertKnown, UpsertNew
  <2> QED
    BY <1>10, <1>a, <2>2, <2>4 DEF UpsertKnown, UpsertNew, DataOK
<1>11. CASE WriteFails
  <2>0. << >> \in Seq(Observation) /\ "collection_error" \in Failures
    BY DEF Failures
  <2>1. svc' \in Service /\ svc'.pc = "closing"
    BY <1>11, <1>a, <2>0 DEF WriteFails, Service
  <2> QED
    BY <1>11, <1>a, <2>1 DEF WriteFails, DataOK
<1>12. CASE Close
  <2>1. svc' \in Service /\ svc'.result # "none"
    BY <1>12, <1>a DEF Close, OutcomeResult, Service, Failures
  <2> QED
    BY <1>12, <1>a, <2>1 DEF Close, DataOK
<1>13. CASE Commit \/ Rollback
  <2>1. svc.result \in Failures \cup {"active"} /\ svc.now \in Nat
    BY <1>13, <1>a DEF Commit, Rollback, Service
  <2>2. Marked(conn, svc.result, svc.now) \in ConnRow
    BY <1>a, <2>1, MarkedTyped
  <2> QED
    BY <1>3, <1>13, <1>a, <2>2 DEF Commit, Rollback, DataOK
<1>14. ASSUME NEW pc \in {"tls", "auth", "authz", "answer"},
              Passes(pc) \/ FailsHere(pc), UNCHANGED <<stored, tx, conn>>
       PROVE  DataOK'
  <2>1. stages' \in Seq(StageResults)
    BY <1>14, <1>a, PassesTyped, FailsTyped
  <2>2. svc' \in Service /\ svc'.pc \notin {"mark", "rollback"}
    BY <1>3, <1>14 DEF Passes, FailsHere
  <2> QED
    BY <1>14, <1>a, <2>1, <2>2 DEF DataOK
<1>15. CASE CheckReachable
  BY <1>14, <1>15 DEF CheckReachable, FailsHere
<1>16. CASE CheckTls
  BY <1>14, <1>16 DEF CheckTls
<1>17. CASE CheckAuth
  BY <1>14, <1>17 DEF CheckAuth, FailsHere
<1>18. CASE CheckAuthorized
  BY <1>14, <1>18 DEF CheckAuthorized
<1>19. CASE AnswerCheck \/ AnswerRaises
  <2>1. Goes("idle") /\ UNCHANGED <<stored, tx, conn>>
    BY <1>19 DEF AnswerCheck, AnswerRaises
  <2>2. stages' \in Seq(StageResults)
    BY <1>19, <1>a, << >> \in Seq(StageResults) DEF AnswerCheck, AnswerRaises
  <2> QED
    BY <1>3, <1>a, <2>1, <2>2 DEF DataOK
<1>20. CASE Next
  BY <1>2, <1>4, <1>6, <1>7, <1>8, <1>9, <1>10, <1>11, <1>12, <1>13, <1>15,
     <1>16, <1>17, <1>18, <1>19, <1>20
  DEF Next, Collect, Check, BeginListing, ReaderAdvances, ReaderFinalised,
      Environment
<1>21. CASE UNCHANGED vars
  BY <1>7, <1>21 DEF vars
<1> QED
  BY <1>20, <1>21

-----------------------------------------------------------------------------
(* Rows and their keys                                                     *)

LEMMA SyncIs ==
    ASSUME NEW d \in Tables, NEW i \in Ids, NEW native \in Natives,
           NEW j \in Ids, NEW n \in Natives
    PROVE  <<j, n>> \in SyncIdentities(d, i, native) <=>
             \/ j # i /\ <<j, n>> \in d.idents
             \/ j = i /\ n = native
BY DEF SyncIdentities, Tables

\* A row that is found by the key it already has keeps it.
LEMMA UpdateKeepsKeys ==
    ASSUME tx \in Tables, IdentityBijection(tx), NEW vm \in Observation,
           NEW now \in Nat, UpdateVm(vm, now)
    PROVE  IdentityBijection(tx')
<1>1. PICK i \in Ids :
        /\ FindByIdentity(tx, vm.native) = {i}
        /\ tx.rows[i] # NoRow
        /\ tx' = [rows |-> [tx.rows EXCEPT ![i] = Merged(@, vm.guest, now)],
                  idents |-> SyncIdentities(tx, i, vm.native)]
  BY DEF UpdateVm
<1>2. /\ tx.rows \in [Ids -> VmRow \cup {NoRow}]
      /\ vm.native \in Natives /\ vm.guest \in Guest
  BY DEF Tables, Observation
<1>3. tx.rows[i].native = vm.native
  BY <1>1, <1>2 DEF FindByIdentity, IdentityBijection
<1> DEFINE new == Merged(tx.rows[i], vm.guest, now)
<1>4. new \in VmRow /\ new.native = vm.native /\ new # NoRow
  BY <1>1, <1>2, <1>3, MergedTyped, PipelineAssumption
<1> HIDE DEF new
<1>5. \A j \in Ids : tx'.rows[j] = IF j = i THEN new ELSE tx.rows[j]
  BY <1>1, <1>2 DEF new
<1>6. \A j \in Ids, n \in Natives :
        <<j, n>> \in tx'.idents <=>
          \/ j # i /\ <<j, n>> \in tx.idents
          \/ j = i /\ n = vm.native
  <2>1. tx'.idents = SyncIdentities(tx, i, vm.native)
    BY <1>1
  <2> TAKE j \in Ids, n \in Natives
  <2> QED
    BY <1>2, <2>1, SyncIs
<1>7. ASSUME NEW j \in Ids, NEW n \in Natives
      PROVE  <<j, n>> \in tx'.idents <=>
               tx'.rows[j] # NoRow /\ tx'.rows[j].native = n
  <2>1. <<j, n>> \in tx.idents <=> tx.rows[j] # NoRow /\ tx.rows[j].native = n
    BY DEF IdentityBijection
  <2> QED
    BY <1>4, <1>5, <1>6, <2>1
<1>8. ASSUME NEW j \in Ids, NEW k \in Ids,
             tx'.rows[j] # NoRow, tx'.rows[k] # NoRow,
             tx'.rows[j].native = tx'.rows[k].native
      PROVE  j = k
  <2>1. /\ tx.rows[j] # NoRow /\ tx.rows[k] # NoRow
        /\ tx.rows[j].native = tx.rows[k].native
        => j = k
    BY DEF IdentityBijection
  <2> QED
    BY <1>1, <1>3, <1>4, <1>5, <1>8, <2>1
<1> QED
  BY <1>7, <1>8 DEF IdentityBijection

\* A new row has a native identifier no other row has.
LEMMA InsertKeepsKeys ==
    ASSUME tx \in Tables, IdentityBijection(tx), NEW vm \in Observation,
           NEW now \in Nat, InsertVm(vm, now)
    PROVE  IdentityBijection(tx')
<1> DEFINE new == [native |-> vm.native, seen |-> now, guest |-> vm.guest]
<1>1. /\ \A j \in Ids : tx.rows[j] # NoRow => tx.rows[j].native # vm.native
      /\ \E i \in Unused(tx) :
           tx' = [rows |-> [tx.rows EXCEPT ![i] = new],
                  idents |-> SyncIdentities(tx, i, vm.native)]
  BY DEF InsertVm, Taken
<1>2. PICK i \in Ids :
        /\ tx.rows[i] = NoRow
        /\ tx' = [rows |-> [tx.rows EXCEPT ![i] = new],
                  idents |-> SyncIdentities(tx, i, vm.native)]
  BY <1>1 DEF Unused
<1>3. /\ tx.rows \in [Ids -> VmRow \cup {NoRow}]
      /\ vm.native \in Natives /\ vm.guest \in Guest
  BY DEF Tables, Observation
<1>4. new \in VmRow /\ new.native = vm.native /\ new # NoRow
  <2>1. new \in VmRow
    BY <1>3 DEF VmRow
  <2> QED
    BY <2>1, PipelineAssumption
<1> HIDE DEF new
<1>5. \A j \in Ids : tx'.rows[j] = IF j = i THEN new ELSE tx.rows[j]
  BY <1>2, <1>3
<1>6. \A j \in Ids, n \in Natives :
        <<j, n>> \in tx'.idents <=>
          \/ j # i /\ <<j, n>> \in tx.idents
          \/ j = i /\ n = vm.native
  <2>1. tx'.idents = SyncIdentities(tx, i, vm.native)
    BY <1>2
  <2> TAKE j \in Ids, n \in Natives
  <2> QED
    BY <1>3, <2>1, SyncIs
<1>7. ASSUME NEW j \in Ids, NEW n \in Natives
      PROVE  <<j, n>> \in tx'.idents <=>
               tx'.rows[j] # NoRow /\ tx'.rows[j].native = n
  <2>1. <<j, n>> \in tx.idents <=> tx.rows[j] # NoRow /\ tx.rows[j].native = n
    BY DEF IdentityBijection
  <2> QED
    BY <1>4, <1>5, <1>6, <2>1
<1>8. ASSUME NEW j \in Ids, NEW k \in Ids,
             tx'.rows[j] # NoRow, tx'.rows[k] # NoRow,
             tx'.rows[j].native = tx'.rows[k].native
      PROVE  j = k
  <2>1. /\ tx.rows[j] # NoRow /\ tx.rows[k] # NoRow
        /\ tx.rows[j].native = tx.rows[k].native
        => j = k
    BY DEF IdentityBijection
  <2> QED
    BY <1>1, <1>4, <1>5, <1>8, <2>1
<1> QED
  BY <1>7, <1>8 DEF IdentityBijection

LEMMA DataInit == Init => DataOK /\ RowsHaveTheirKey
<1> SUFFICES ASSUME Init PROVE DataOK /\ RowsHaveTheirKey
  OBVIOUS
<1>1. Empty \in Tables /\ IdentityBijection(Empty)
  BY DEF Empty, Tables, IdentityBijection
<1>2. svc \in Service /\ svc.pc = "idle"
  BY DEF Init, Service
<1>3. conn \in ConnRow /\ stages \in Seq(StageResults)
  BY DEF Init, ConnRow
<1> QED
  BY <1>1, <1>2, <1>3 DEF Init, DataOK, RowsHaveTheirKey

LEMMA KeysStep == DataOK /\ RowsHaveTheirKey /\ [Next]_vars => RowsHaveTheirKey'
<1> SUFFICES ASSUME DataOK, RowsHaveTheirKey, [Next]_vars
             PROVE  RowsHaveTheirKey'
  OBVIOUS
<1>1. CASE UpsertKnown \/ UpsertNew
  <2>1. svc \in Service /\ tx \in Tables /\ svc.now \in Nat /\ svc.batch # << >>
    BY <1>1 DEF DataOK, Service, UpsertKnown, UpsertNew
  <2>2. Head(svc.batch) \in Observation
    BY <2>1, HeadTyped
  <2>3. IdentityBijection(tx')
    BY <1>1, <2>1, <2>2, UpdateKeepsKeys, InsertKeepsKeys
    DEF UpsertKnown, UpsertNew, RowsHaveTheirKey
  <2> QED
    BY <1>1, <2>3 DEF UpsertKnown, UpsertNew, RowsHaveTheirKey
<1>2. CASE /\ stored' \in {stored, tx}
           /\ tx' \in {stored, tx}
  BY <1>2 DEF RowsHaveTheirKey
<1> QED
  BY <1>1, <1>2
  DEF Next, Collect, StartCollect, StartJob, Connect, ConnectRefused,
      ConnectFails, BeginListing, ReaderAdvances, Deliver, EndOfStream,
      StreamRefused, BatchWritten, WriteFails, Close, Commit, CommitFails,
      Rollback, Check, StartCheck, CheckReachable, CheckTls, CheckAuth,
      CheckAuthorized, AnswerCheck, AnswerRaises, ReaderFinalised, Environment,
      vars

\* Every row is led to by its own key and by no other, whatever is listed and
\* in whatever batches, committed or rolled back (upsert_virtual_machines).
THEOREM KeysLead == Spec => []RowsHaveTheirKey
<1>1. DataOK /\ RowsHaveTheirKey /\ [Next]_vars => (DataOK /\ RowsHaveTheirKey)'
  BY DataStep, KeysStep
<1> QED
  BY <1>1, DataInit, PTL DEF Spec

-----------------------------------------------------------------------------
(* The reader and the phase of the service it is in                        *)

TargetOK == /\ home \in [Vms -> Nodes \cup {Gone}]
            /\ accepts \in BOOLEAN
            /\ moves \in Nat

\* What is true of a reader at any time.
Sound(r) == /\ r.total = r.yielded
            /\ r.node # NoNode <=> r.at = "script"
            /\ r.at # "ended" => r.outcome = NoOutcome
            /\ r.view => r.kind = "vcenter" /\ r.at \notin {"ended", "refused"}
            /\ r.refusals <= 1

Fresh(r) == r.at = "none" /\ ~r.view /\ r.refusals = 0

Streaming(r) == /\ r.open
                /\ r.at # "dropped"
                /\ r.at \in {"none", "begin"} => ~r.view
                /\ r.at # "refused" => r.refusals = 0

Over(r) == r.at \in {"none", "ended", "refused", "dropped"}

InPhase(r, pc) ==
    /\ pc \in {"connect", "reach", "tls", "auth"} => Fresh(r) /\ ~r.open
    /\ pc = "authz" => Fresh(r) /\ r.open
    /\ pc = "answer" => r.at = "none"
    /\ pc \in {"listing", "flush"} => Streaming(r)
    /\ pc = "flush" => r.at \in {"rows", "ended"}
    /\ pc = "closing" => Over(r) /\ r.open
    /\ pc \in {"idle", "mark", "rollback"} => Over(r) /\ ~r.open

Good(r, pc) == r \in Reader /\ Sound(r) /\ InPhase(r, pc)

ReaderOK == TargetOK /\ Good(reader, svc.pc)

LEMMA OnTyped == /\ \A n : On(n) \in SUBSET Vms
                 /\ Registered \in SUBSET Vms
                 /\ Host \in Nodes
BY PipelineAssumption DEF On, Registered, Host

LEMMA NewReaderGood ==
    ASSUME NEW kind \in ConnectionKind,
           NEW pc \in {"idle", "connect", "reach"}
    PROVE  Good(NewReader(kind), pc)
<1>1. NewReader(kind) \in Reader
  BY DEF NewReader, Reader, NoOutcome, Outcome, NoNode, Positions
<1> QED
  BY <1>1 DEF Good, Sound, InPhase, Fresh, Over, NewReader

LEMMA EndedGood ==
    ASSUME NEW r, Good(r, "listing"), NEW failed \in BOOLEAN,
           NEW error \in {"none", "reason", "nodes", "excluded"},
           ~r.view, r.node = NoNode, r.at \notin {"refused", "ended"}
    PROVE  Good(Ended(r, failed, error), "listing")
<1>1. r \in Reader /\ r.total \in Nat
  BY DEF Good, Reader
<1> DEFINE o == [count |-> r.total, failed |-> failed, error |-> error]
<1>2. o \in Outcome
  BY <1>1 DEF Outcome
<1>3. Ended(r, failed, error) = [r EXCEPT !.at = "ended", !.outcome = o]
  BY DEF Ended
<1> HIDE DEF o
<1>4. Ended(r, failed, error) \in Reader
  BY <1>1, <1>2, <1>3 DEF Reader, Positions
<1> QED
  BY <1>1, <1>3, <1>4 DEF Good, Reader, Sound, InPhase, Streaming

LEMMA RefusedGood ==
    ASSUME NEW r \in Reader, r.open, r.total = r.yielded, r.node = NoNode,
           r.outcome = NoOutcome, ~r.view, r.refusals = 0
    PROVE  Good(Refused(r), "listing")
<1>0. r.refusals + 1 \in Nat
  OBVIOUS
<1>1. Refused(r) \in Reader
  BY <1>0 DEF Refused, Reader, Positions
<1> QED
  BY <1>1 DEF Good, Reader, Sound, InPhase, Streaming, Refused

LEMMA WinRmStep ==
    ASSUME Good(reader, "listing"), WinRmNext
    PROVE  Good(reader', "listing")
<1> USE DEF AtWinRm, Becomes
<1>a. /\ reader \in Reader /\ Sound(reader) /\ Streaming(reader)
      /\ reader.kind \in WinRm => ~reader.view
  BY DEF Good, Sound, InPhase, WinRm
<1>1. CASE ResolveNodes
  <2>1. PICK down \in SUBSET Nodes :
          reader' = [reader EXCEPT !.at = "walk", !.nodes = Nodes \ down,
                                   !.failed = down]
    BY <1>1 DEF ResolveNodes
  <2>2. reader' \in Reader
    BY <1>a, <2>1 DEF Reader, Positions
  <2> QED
    BY <1>1, <1>a, <2>1, <2>2
    DEF ResolveNodes, Good, Reader, Sound, InPhase, Streaming
<1>2. CASE ResolveFails \/ ListFails
  BY <1>2, <1>a, EndedGood DEF ResolveFails, ListFails, Sound
<1>3. CASE ResolveRefused \/ ListRefused
  BY <1>3, <1>a, RefusedGood DEF ResolveRefused, ListRefused, Sound, Streaming
<1>4. ASSUME NEW n \in Nodes, OpenNode(n) PROVE Good(reader', "listing")
  <2>1. reader' \in Reader
    BY <1>4, <1>a DEF OpenNode, Reader, Positions
  <2> QED
    BY <1>4, <1>a, <2>1, PipelineAssumption
    DEF OpenNode, Good, Reader, Sound, InPhase, Streaming, NoNode
<1>5. ASSUME NEW n \in Nodes, reader' = NodeRefused(reader, n),
             reader.kind \in WinRm, reader.at \in {"walk", "script"}
      PROVE  Good(reader', "listing")
  <2> DEFINE r == [reader EXCEPT !.node = NoNode, !.nodes = @ \ {n}]
  <2>1. r \in Reader
    BY <1>a DEF Reader, NoNode
  <2>2. /\ r.open /\ r.total = r.yielded /\ r.node = NoNode
        /\ r.outcome = NoOutcome /\ ~r.view /\ r.refusals = 0
    BY <1>5, <1>a DEF Reader, Sound, Streaming
  <2>3. reader' = Refused(r)
    BY <1>5 DEF NodeRefused
  <2> HIDE DEF r
  <2> QED
    BY <2>1, <2>2, <2>3, RefusedGood
<1>6. ASSUME NEW n \in Nodes, OpenNodeRefused(n) PROVE Good(reader', "listing")
  BY <1>5, <1>6 DEF OpenNodeRefused
<1>7. ASSUME NEW n \in Nodes, reader' = NodeFailed(reader, n),
             reader.kind \in WinRm, reader.at \in {"walk", "script"}
      PROVE  Good(reader', "listing")
  <2>1. reader' \in Reader
    BY <1>7, <1>a DEF NodeFailed, Reader, Positions, NoNode
  <2> QED
    BY <1>7, <1>a, <2>1
    DEF NodeFailed, Good, Reader, Sound, InPhase, Streaming
<1>8. ASSUME NEW n \in Nodes, OpenNodeFails(n) PROVE Good(reader', "listing")
  BY <1>7, <1>8 DEF OpenNodeFails
<1>9. ASSUME reader.at = "script" PROVE reader.node \in Nodes
  BY <1>9, <1>a DEF Reader, Sound
<1>10. CASE ListNode
  <2>1. /\ On(reader.node) \in SUBSET Vms
        /\ reader.answered \cup {reader.node} \in SUBSET Nodes
    BY <1>a, <1>9, <1>10, OnTyped DEF ListNode, Reader
  <2>2. reader' \in Reader
    BY <1>a, <1>10, <2>1 DEF ListNode, NodeListed, Reader, Positions, NoNode
  <2> QED
    BY <1>10, <1>a, <2>2
    DEF ListNode, NodeListed, Good, Reader, Sound, InPhase, Streaming
<1>11. CASE ListNodeFails
  BY <1>7, <1>9, <1>11 DEF ListNodeFails
<1>12. CASE ListNodeRefused
  BY <1>5, <1>9, <1>12 DEF ListNodeRefused
<1>13. CASE NextNode
  <2>1. reader' \in Reader
    BY <1>a, <1>13 DEF NextNode, Reader, Positions
  <2> QED
    BY <1>13, <1>a, <2>1 DEF NextNode, Good, Reader, Sound, InPhase, Streaming
<1>14. CASE EndWalk
  BY <1>14, <1>a, EndedGood DEF EndWalk, Sound
<1>15. CASE EndList
  BY <1>15, <1>a, EndedGood DEF EndList, Sound
<1>16. CASE ListHost
  <2>1. On(Host) \in SUBSET Vms /\ {Host} \in SUBSET Nodes
    BY OnTyped
  <2>2. reader' \in Reader
    BY <1>a, <1>16, <2>1 DEF ListHost, Reader, Positions
  <2> QED
    BY <1>16, <1>a, <2>2 DEF ListHost, Good, Reader, Sound, InPhase, Streaming
<1>17. CASE ListScvmm
  <2>1. PICK noId \in SUBSET Registered :
          reader' = [reader EXCEPT !.at = "rows", !.rows = Registered \ noId,
                                   !.excluded = noId, !.answered = Nodes]
    BY <1>17 DEF ListScvmm
  <2>2. Registered \ noId \in SUBSET Vms /\ noId \in SUBSET Vms
    BY <2>1, OnTyped
  <2>3. reader' \in Reader
    BY <1>a, <2>1, <2>2 DEF Reader, Positions
  <2> QED
    BY <1>17, <1>a, <2>1, <2>3
    DEF ListScvmm, Good, Reader, Sound, InPhase, Streaming
<1> QED
  BY <1>1, <1>2, <1>3, <1>4, <1>6, <1>8, <1>10, <1>11, <1>12, <1>13, <1>14,
     <1>15, <1>16, <1>17
  DEF WinRmNext

LEMMA VCenterStep ==
    ASSUME Good(reader, "listing"), VCenterNext
    PROVE  Good(reader', "listing")
<1> USE DEF AtVCenter, Turns
<1>a. reader \in Reader /\ Sound(reader) /\ Streaming(reader)
  BY DEF Good, InPhase
<1>1. CASE CreateView
  <2>1. reader' \in Reader
    BY <1>a, <1>1, OnTyped DEF CreateView, Reader, Positions
  <2> QED
    BY <1>1, <1>a, <2>1
    DEF CreateView, Good, Reader, Sound, InPhase, Streaming
<1>2. CASE CreateViewFails
  BY <1>2, <1>a, EndedGood DEF CreateViewFails, Sound, Streaming
<1>3. ASSUME NEW page \in SUBSET Vms, RetrievePage(page)
      PROVE  Good(reader', "listing")
  <2>1. reader' \in Reader
    BY <1>a, <1>3 DEF RetrievePage, Reader, Positions
  <2> QED
    BY <1>3, <1>a, <2>1
    DEF RetrievePage, Good, Reader, Sound, InPhase, Streaming
<1>4. CASE RetrieveFails \/ RetrieveRefused
  <2>0. PICK verdict \in {"failed", "refused"} :
          reader' = [reader EXCEPT !.at = "release", !.verdict = verdict]
    BY <1>4 DEF RetrieveFails, RetrieveRefused
  <2>1. reader' \in Reader
    BY <1>a, <2>0 DEF Reader, Positions
  <2>2. reader.at = "page"
    BY <1>4 DEF RetrieveFails, RetrieveRefused
  <2> QED
    BY <2>0, <2>2, <1>a, <2>1 DEF Good, Reader, Sound, InPhase, Streaming
<1>5. CASE NextPage
  <2>1. reader' \in Reader
    BY <1>a, <1>5 DEF NextPage, AfterRows, Reader, Positions
  <2> QED
    BY <1>5, <1>a, <2>1
    DEF NextPage, AfterRows, Good, Reader, Sound, InPhase, Streaming
<1>6. CASE ReleaseView
  <2> DEFINE r == Released(reader)
  <2>1. r \in Reader
    BY <1>a DEF Released, Reader
  <2>2. /\ r.open /\ r.total = r.yielded /\ r.node = NoNode /\ ~r.view
        /\ r.outcome = NoOutcome /\ r.refusals = 0 /\ r.at = "release"
    BY <1>6, <1>a DEF Released, Reader, Sound, Streaming, ReleaseView
  <2>3. Good(r, "listing")
    BY <2>1, <2>2 DEF Good, Sound, InPhase, Streaming
  <2>4. reader.verdict \in {"ok", "failed", "refused"}
    BY <1>a DEF Reader
  <2>5. \/ reader' = Ended(r, FALSE, "none")
        \/ reader' = Ended(r, TRUE, "reason")
        \/ reader' = Refused(r)
    BY <1>6, <2>4 DEF ReleaseView
  <2> HIDE DEF r
  <2> QED
    BY <2>1, <2>2, <2>3, <2>5, EndedGood, RefusedGood
<1> QED
  BY <1>1, <1>2, <1>3, <1>4, <1>5, <1>6 DEF VCenterNext

LEMMA YieldGood ==
    ASSUME NEW v \in Vms, Good(reader, "listing"), Yield(v),
           NEW pc \in {"listing", "flush"}
    PROVE  Good(reader', pc)
<1>a. reader \in Reader /\ Sound(reader) /\ Streaming(reader)
  BY DEF Good, InPhase
<1>1. /\ reader.total + 1 \in Nat /\ reader.yielded + 1 \in Nat
      /\ reader.given \in [Vms -> Nat]
  BY <1>a DEF Reader
<1>2. [reader.given EXCEPT ![v] = @ + 1] \in [Vms -> Nat]
  BY <1>1
<1>3. reader' = [reader EXCEPT !.rows = @ \ {v}, !.total = @ + 1,
                               !.given = [reader.given EXCEPT ![v] = @ + 1],
                               !.yielded = @ + 1]
  BY DEF Yield, Counted
<1>4. reader' \in Reader
  BY <1>a, <1>1, <1>2, <1>3 DEF Reader
<1> QED
  BY <1>a, <1>3, <1>4
  DEF Yield, Good, Reader, Sound, InPhase, Streaming

\* What happens to a reader from outside: a machine moves, its session opens
\* or closes, the generator of before is closed.
LEMMA MoveGood ==
    ASSUME ReaderOK, NEW v \in Vms, NEW n \in Nodes \cup {Gone}, Move(v, n)
    PROVE  TargetOK' /\ Good(reader', svc.pc)
<1>1. TargetOK'
  BY DEF ReaderOK, TargetOK, Move
<1>2. reader' \in Reader
  BY DEF ReaderOK, Good, Move, Reader
<1> QED
  BY <1>1, <1>2
  DEF ReaderOK, Good, Move, Reader, Sound, InPhase, Fresh, Streaming, Over

LEMMA FinaliseGood ==
    ASSUME ReaderOK, FinaliseGenerator
    PROVE  Good(reader', svc.pc)
<1>1. reader' \in Reader
  BY DEF ReaderOK, Good, FinaliseGenerator, Turns, Released, Reader
<1> QED
  BY <1>1
  DEF ReaderOK, Good, FinaliseGenerator, Turns, Released, Reader, Sound,
      InPhase, Fresh, Streaming, Over

LEMMA StartSessionGood ==
    ASSUME NEW pc \in {"listing", "authz"}, Good(reader, "connect"),
           StartSession
    PROVE  Good(reader', pc)
<1>1. reader' \in Reader
  BY DEF Good, StartSession, Reader
<1> QED
  BY <1>1
  DEF Good, StartSession, Reader, Sound, InPhase, Fresh, Streaming

LEMMA StartRefusedGood ==
    ASSUME NEW pc \in {"mark", "answer"}, Good(reader, "connect"),
           StartRefused
    PROVE  Good(reader', pc)
<1>1. reader \in Reader /\ reader.refusals = 0
  BY DEF Good, InPhase, Fresh
<1>2. reader' \in Reader
  BY <1>1 DEF StartRefused, Reader
<1> QED
  BY <1>1, <1>2 DEF Good, StartRefused, Reader, Sound, InPhase, Fresh, Over

LEMMA CloseGood ==
    ASSUME NEW pc \in {"idle", "mark", "rollback"},
           Good(reader, "closing") \/ Good(reader, "answer"), CloseSession
    PROVE  Good(reader', pc)
<1>1. reader' \in Reader
  BY DEF Good, CloseSession, Reader
<1> QED
  BY <1>1 DEF Good, CloseSession, Reader, Sound, InPhase, Over

LEMMA ReaderStep == ReaderOK /\ DataOK /\ [Next]_vars => ReaderOK'
<1> SUFFICES ASSUME ReaderOK, DataOK, [Next]_vars PROVE ReaderOK'
  OBVIOUS
<1>a. /\ TargetOK /\ Good(reader, svc.pc)
      /\ svc \in Service
  BY DEF ReaderOK, DataOK
<1>b. ASSUME UNCHANGED target PROVE TargetOK'
  BY <1>b, <1>a DEF TargetOK, target
<1>c. ASSUME NEW pc, Goes(pc) PROVE svc'.pc = pc
  BY <1>c, <1>a DEF Goes, Service
<1>d. ASSUME NEW pc, NEW f, Results(pc, f) PROVE svc'.pc = pc
  BY <1>d, <1>a DEF Results, Service
<1>e. ASSUME UNCHANGED target, Good(reader', svc'.pc) PROVE ReaderOK'
  BY <1>b, <1>e DEF ReaderOK, Good, Sound, InPhase, Fresh, Streaming, Over
<1>1. ASSUME NEW pc \in {"connect", "reach"}, StartJob(pc) PROVE ReaderOK'
  <2>1. reader.kind \in ConnectionKind
    BY <1>a DEF Good, Reader
  <2>2. reader' = NewReader(reader.kind) /\ UNCHANGED target /\ svc'.pc = pc
    BY <1>1 DEF StartJob
  <2> QED
    BY <1>e, <2>1, <2>2, NewReaderGood
<1>2. CASE StartCollect \/ StartCheck
  BY <1>1, <1>2 DEF StartCollect, StartCheck
<1>3. CASE Connect
  <2>1. Good(reader, "connect") /\ svc'.pc = "listing" /\ UNCHANGED target
    BY <1>3, <1>a, <1>c DEF Connect, StartSession
  <2> QED
    BY <1>3, <1>e, <2>1, StartSessionGood DEF Connect
<1>4. CASE ConnectRefused
  <2>1. Good(reader, "connect") /\ svc'.pc = "mark" /\ UNCHANGED target
    BY <1>4, <1>a, <1>d DEF ConnectRefused, StartRefused
  <2> QED
    BY <1>4, <1>e, <2>1, StartRefusedGood DEF ConnectRefused
<1>5. CASE ConnectFails
  <2>1. Good(reader, "connect") /\ svc'.pc = "mark" /\ UNCHANGED target
        /\ reader' = reader
    BY <1>5, <1>a, <1>d DEF ConnectFails
  <2>2. Good(reader', "mark")
    BY <2>1 DEF Good, InPhase, Fresh, Over
  <2> QED
    BY <1>e, <2>1, <2>2
<1>6. CASE BeginListing
  <2>1. Good(reader, "listing") /\ svc'.pc = "listing" /\ UNCHANGED target
    BY <1>6, <1>a DEF BeginListing, Begin
  <2>2. reader' = [reader EXCEPT !.at = "begin", !.moved = {}]
        /\ reader.at = "none"
    BY <1>6 DEF BeginListing, Begin
  <2>3. reader' \in Reader
    BY <2>1, <2>2 DEF Good, Reader, Positions
  <2>4. Good(reader', "listing")
    BY <2>1, <2>2, <2>3 DEF Good, Reader, Sound, InPhase, Streaming
  <2> QED
    BY <1>e, <2>1, <2>4
<1>7. CASE ReaderAdvances
  <2>1. Good(reader, "listing") /\ svc'.pc = "listing"
        /\ (WinRmNext \/ VCenterNext)
    BY <1>7, <1>a DEF ReaderAdvances
  <2>2. UNCHANGED target
    BY <2>1
    DEF WinRmNext, VCenterNext, Becomes, Turns, ResolveNodes, ResolveFails,
        ResolveRefused, OpenNode, OpenNodeRefused, OpenNodeFails, ListNode,
        ListNodeFails, ListNodeRefused, NextNode, EndWalk, ListHost, ListScvmm,
        ListFails, ListRefused, EndList, CreateView, CreateViewFails,
        RetrievePage, RetrieveFails, RetrieveRefused, NextPage, AfterRows,
        ReleaseView
  <2> QED
    BY <1>e, <2>1, <2>2, WinRmStep, VCenterStep
<1>8. ASSUME NEW v \in Vms, Deliver(v) PROVE ReaderOK'
  <2>1. Good(reader, "listing") /\ Yield(v) /\ UNCHANGED target
    BY <1>8, <1>a DEF Deliver, Yield
  <2>2. svc'.pc \in {"listing", "flush"}
    BY <1>8, <1>a DEF Deliver, Service
  <2> QED
    BY <1>e, <2>1, <2>2, YieldGood
<1>9. CASE EndOfStream
  <2>1. /\ Good(reader, "listing") /\ UNCHANGED target /\ reader' = reader
        /\ reader.at = "ended"
    BY <1>9, <1>a DEF EndOfStream
  <2>2. svc'.pc \in {"closing", "flush"}
    BY <1>9, <1>c DEF EndOfStream, LastBatch
  <2>3. Good(reader, svc'.pc)
    BY <2>1, <2>2 DEF Good, InPhase, Streaming, Over
  <2> QED
    BY <1>e, <2>1, <2>3
<1>10. CASE StreamRefused
  <2>1. /\ Good(reader, "listing") /\ UNCHANGED target /\ reader' = reader
        /\ reader.at = "refused" /\ svc'.pc = "closing"
    BY <1>10, <1>a DEF StreamRefused, Service
  <2>2. Good(reader, "closing")
    BY <2>1 DEF Good, InPhase, Streaming, Over
  <2> QED
    BY <1>e, <2>1, <2>2
<1>11. CASE UpsertKnown \/ UpsertNew
  <2>1. svc'.pc = svc.pc /\ UNCHANGED <<target, reader>>
    BY <1>11, <1>a DEF UpsertKnown, UpsertNew, Written, Service
  <2> QED
    BY <1>a, <1>e, <2>1
<1>12. CASE BatchWritten
  <2>1. /\ Good(reader, "flush") /\ UNCHANGED target /\ reader' = reader
        /\ svc'.pc = "listing"
    BY <1>12, <1>a, <1>c DEF BatchWritten
  <2>2. Good(reader, "listing")
    BY <2>1 DEF Good, InPhase
  <2> QED
    BY <1>e, <2>1, <2>2
<1>13. CASE WriteFails
  <2>1. /\ Good(reader, "flush") /\ UNCHANGED target /\ svc'.pc = "closing"
        /\ reader' = IF reader.at = "ended" THEN reader ELSE Dropped(reader)
    BY <1>13, <1>a DEF WriteFails, Service
  <2>2. CASE reader.at = "ended"
    BY <1>e, <2>1, <2>2 DEF Good, InPhase, Over, Streaming
  <2>3. CASE reader.at # "ended"
    <3>1. reader' = [reader EXCEPT !.at = "dropped"] /\ reader.at = "rows"
      BY <2>1, <2>3 DEF Dropped, Good, InPhase
    <3>2. reader' \in Reader
      BY <2>1, <3>1 DEF Good, Reader, Positions
    <3>3. Good(reader', "closing")
      BY <2>1, <3>1, <3>2 DEF Good, Reader, Sound, InPhase, Streaming, Over
    <3> QED
      BY <1>e, <2>1, <3>3
  <2> QED
    BY <2>2, <2>3
<1>14. CASE Close
  <2>1. /\ Good(reader, "closing") /\ CloseSession /\ UNCHANGED target
        /\ svc'.pc \in {"mark", "rollback"}
    BY <1>14, <1>a DEF Close, CloseSession, Service
  <2> QED
    BY <1>e, <2>1, CloseGood
<1>15. CASE Commit \/ CommitFails \/ Rollback
  <2>1. /\ svc.pc \in {"mark", "rollback"} /\ svc'.pc \in {"idle", "rollback"}
        /\ UNCHANGED <<target, reader>>
    BY <1>15, <1>c, <1>d DEF Commit, CommitFails, Rollback
  <2>2. Good(reader, svc'.pc)
    BY <1>a, <2>1 DEF Good, InPhase
  <2> QED
    BY <1>e, <2>1, <2>2
<1>16. ASSUME NEW to \in {"tls", "auth", "authz"},
              Passes(to) \/ FailsHere(to), UNCHANGED <<target, reader>>,
              svc.pc \in {"reach", "tls", "auth"},
              to = "authz" => ~Passes(to)
       PROVE  ReaderOK'
  <2>1. svc'.pc \in {"tls", "auth", "answer"}
    BY <1>c, <1>16 DEF Passes, FailsHere
  <2>2. Good(reader, svc'.pc)
    BY <1>a, <1>16, <2>1 DEF Good, InPhase, Fresh
  <2> QED
    BY <1>e, <1>16, <2>2
<1>17. CASE CheckReachable \/ CheckTls
  BY <1>16, <1>17 DEF CheckReachable, CheckTls
<1>18. CASE CheckAuth
  <2>1. Good(reader, "connect")
    BY <1>18, <1>a DEF CheckAuth, Good, InPhase
  <2>2. CASE StartSession /\ Passes("authz")
    <3>1. svc'.pc = "authz" /\ UNCHANGED target
      BY <1>c, <2>2 DEF Passes, StartSession
    <3> QED
      BY <1>e, <2>1, <2>2, <3>1, StartSessionGood
  <2>3. CASE StartRefused /\ FailsHere("authz")
    <3>1. svc'.pc = "answer" /\ UNCHANGED target
      BY <1>c, <2>3 DEF FailsHere, StartRefused
    <3> QED
      BY <1>e, <2>1, <2>3, <3>1, StartRefusedGood
  <2>4. CASE FailsHere("authz") /\ UNCHANGED <<target, reader>>
    <3>1. svc'.pc = "answer"
      BY <1>c, <2>4 DEF FailsHere
    <3>2. Good(reader, "answer")
      BY <2>1 DEF Good, InPhase, Fresh
    <3> QED
      BY <1>e, <2>4, <3>1, <3>2
  <2> QED
    BY <1>18, <2>2, <2>3, <2>4 DEF CheckAuth
<1>19. CASE CheckAuthorized
  <2>1. Good(reader, "authz") /\ UNCHANGED target
    BY <1>19, <1>a DEF CheckAuthorized
  <2>2. svc'.pc = "answer"
    BY <1>19, <1>c DEF CheckAuthorized, Passes, FailsHere
  <2>3. reader \in Reader /\ Sound(reader) /\ Fresh(reader) /\ reader.open
    BY <2>1 DEF Good, InPhase
  <2>4. CASE reader' = Probed
    <3> DEFINE view == reader.kind = "vcenter" /\ Registered # {}
    <3>1. reader' = [reader EXCEPT !.answered = Nodes, !.view = view]
      BY <2>4 DEF Probed
    <3>2. view \in BOOLEAN /\ (view => reader.kind = "vcenter")
      OBVIOUS
    <3> HIDE DEF view
    <3>3. reader' \in Reader
      BY <2>3, <3>1, <3>2 DEF Reader
    <3> QED
      BY <1>e, <2>1, <2>2, <2>3, <3>1, <3>2, <3>3
      DEF Good, Reader, Sound, InPhase, Fresh
  <2>5. CASE reader' = reader
    BY <1>e, <2>1, <2>2, <2>3, <2>5 DEF Good, InPhase, Fresh
  <2>6. CASE reader' = [reader EXCEPT !.refusals = @ + 1]
    <3>1. reader' \in Reader
      BY <2>3, <2>6 DEF Reader, Fresh
    <3> QED
      BY <1>e, <2>1, <2>2, <2>3, <2>6, <3>1
      DEF Good, Reader, Sound, InPhase, Fresh
  <2> QED
    BY <1>19, <2>4, <2>5, <2>6 DEF CheckAuthorized
<1>20. CASE AnswerCheck \/ AnswerRaises
  <2>1. /\ Good(reader, "answer") /\ CloseSession /\ UNCHANGED target
        /\ svc'.pc = "idle"
    BY <1>20, <1>a, <1>c DEF AnswerCheck, AnswerRaises, CloseSession
  <2> QED
    BY <1>e, <2>1, CloseGood
<1>21. CASE ReaderFinalised
  <2>1. Good(reader', svc.pc) /\ UNCHANGED target /\ svc' = svc
    BY <1>21, FinaliseGood
    DEF ReaderFinalised, FinaliseGenerator, Turns
  <2> QED
    BY <1>e, <2>1
<1>22. CASE Environment
  <2>1. svc' = svc
    BY <1>22 DEF Environment
  <2>2. ASSUME NEW v \in Vms, NEW n \in Nodes \cup {Gone}, Move(v, n)
        PROVE  ReaderOK'
    <3>1. TargetOK' /\ Good(reader', svc.pc)
      BY <2>2, MoveGood
    <3> QED
      BY <2>1, <3>1
      DEF ReaderOK, Good, Sound, InPhase, Fresh, Streaming, Over
  <2>3. CASE Rotate
    <3>1. TargetOK'
      BY <1>a, <2>3 DEF Rotate, TargetOK
    <3>2. reader' = reader
      BY <2>3 DEF Rotate
    <3> QED
      BY <1>a, <2>1, <3>1, <3>2
      DEF ReaderOK, Good, Sound, InPhase, Fresh, Streaming, Over
  <2> QED
    BY <1>22, <2>2, <2>3 DEF Environment
<1>23. CASE UNCHANGED vars
  BY <1>23, <1>a, <1>e DEF vars
<1> QED
  BY <1>2, <1>3, <1>4, <1>5, <1>6, <1>7, <1>8, <1>9, <1>10, <1>11, <1>12,
     <1>13, <1>14, <1>15, <1>17, <1>18, <1>19, <1>20, <1>21, <1>22, <1>23
  DEF Next, Collect, Check

LEMMA ReaderInit == Init => ReaderOK
<1> SUFFICES ASSUME Init PROVE ReaderOK
  OBVIOUS
<1>1. TargetOK
  BY PipelineAssumption DEF Init, TargetOK
<1>2. PICK k \in Kinds : reader = NewReader(k)
  BY DEF Init
<1>3. k \in ConnectionKind
  BY PipelineAssumption
<1>4. Good(NewReader(k), "idle")
  BY <1>3, NewReaderGood
<1> QED
  BY <1>1, <1>2, <1>4 DEF Init, ReaderOK

IInv == DataOK /\ ReaderOK

LEMMA Inductive == Spec => []IInv
<1>1. Init => IInv
  BY DataInit, ReaderInit DEF IInv
<1>2. IInv /\ [Next]_vars => IInv'
  BY DataStep, ReaderStep DEF IInv
<1> QED
  BY <1>1, <1>2, PTL DEF Spec

\* Every value of the pipeline has its type.
THEOREM TypeCorrect == Spec => []TypeOK
<1>1. IInv => TypeOK
  BY DEF IInv, DataOK, ReaderOK, TargetOK, Good, TypeOK
<1> QED
  BY <1>1, Inductive, PTL

\* One job never has more than one logon refused, however many nodes the
\* cluster has and whenever the password is changed (CST-05).
THEOREM OneLogonRefused == Spec => []OneRefusal
<1>1. IInv => OneRefusal
  BY DEF IInv, ReaderOK, Good, Sound, OneRefusal
<1> QED
  BY <1>1, Inductive, PTL

\* However a job ends, nothing it opened at the hypervisor stays open.
THEOREM NothingLeftOpen == Spec => []SessionsReleased
<1>1. IInv => SessionsReleased
  BY DEF IInv, ReaderOK, Good, Sound, InPhase, Over, Suspended,
         SessionsReleased
<1> QED
  BY <1>1, Inductive, PTL

-----------------------------------------------------------------------------
(* Every step of a reader is a step of the port, or none                   *)

Running(r) == r.at \notin {"none", "ended", "refused", "dropped"}

\* Nothing that the port knows of a reader changes.
LEMMA PortStutters ==
    ASSUME reader'.open = reader.open, reader'.yielded = reader.yielded,
           reader'.outcome = reader.outcome,
           \/ reader'.at = reader.at
           \/ Running(reader) /\ Running(reader')
    PROVE  UNCHANGED Port!vars
<1>1. Stream' = Stream
  BY DEF Stream, Running
<1> QED
  BY <1>1 DEF Port!vars

\* The generator goes on without yielding anything.
Inside == /\ reader'.open = reader.open /\ reader'.yielded = reader.yielded
          /\ reader'.outcome = reader.outcome
          /\ Running(reader) /\ Running(reader')

LEMMA InsideStutters ==
    ASSUME Inside
    PROVE  [Port!Next]_Port!vars
BY PortStutters DEF Inside

LEMMA PortUnchanged ==
    ASSUME reader' = reader
    PROVE  UNCHANGED Port!vars
BY DEF Port!vars, Stream

LEMMA PortEnds ==
    ASSUME NEW r \in Reader, r.total = reader.yielded,
           r.yielded = reader.yielded, r.open = reader.open, Running(reader),
           reader.outcome = NoOutcome,
           NEW failed \in BOOLEAN,
           NEW error \in {"none", "reason", "nodes", "excluded"},
           reader' = Ended(r, failed, error)
    PROVE  Port!End
<1> DEFINE o == [count |-> r.total, failed |-> failed, error |-> error]
<1>1. /\ reader'.at = "ended" /\ reader'.open = r.open
      /\ reader'.yielded = r.yielded /\ reader'.outcome = o
  BY DEF Ended, Reader
<1>2. o # NoOutcome
  BY DEF NoOutcome
<1>3. o.count = reader.yielded /\ o.failed = failed
  OBVIOUS
<1>4. Stream = "running" /\ Stream' = "ended"
  BY <1>1 DEF Stream, Running
<1> HIDE DEF o
<1> QED
  BY <1>1, <1>2, <1>3, <1>4 DEF Port!End

LEMMA PortRefuses ==
    ASSUME NEW r \in Reader, r.yielded = reader.yielded, r.open = reader.open,
           r.outcome = reader.outcome, Running(reader), reader' = Refused(r)
    PROVE  Port!Refuse
<1>1. /\ reader'.at = "refused" /\ reader'.open = r.open
      /\ reader'.yielded = r.yielded /\ reader'.outcome = r.outcome
  BY DEF Refused, Reader
<1>2. Stream = "running" /\ Stream' = "refused"
  BY <1>1 DEF Stream, Running
<1> QED
  BY <1>1, <1>2 DEF Port!Refuse

LEMMA PortWinRm ==
    ASSUME Good(reader, "listing"), WinRmNext
    PROVE  [Port!Next]_Port!vars
<1> USE DEF AtWinRm, Becomes
<1>a. /\ reader \in Reader /\ reader.total = reader.yielded
      /\ Running(reader) => reader.outcome = NoOutcome
  BY DEF Good, Sound, Running
<1>1. CASE \/ ResolveFails \/ ListFails \/ EndWalk \/ EndList
  <2>1. Running(reader)
    BY <1>1 DEF ResolveFails, ListFails, EndWalk, EndList, Running
  <2>2. PICK failed \in BOOLEAN,
             error \in {"none", "reason", "nodes", "excluded"} :
          reader' = Ended(reader, failed, error)
    BY <1>1 DEF ResolveFails, ListFails, EndWalk, EndList
  <2>3. Port!End
    BY <1>a, <2>1, <2>2, PortEnds
  <2> QED
    BY <2>3 DEF Port!Next
<1>2. CASE ResolveRefused \/ ListRefused
  <2>1. Running(reader) /\ reader' = Refused(reader)
    BY <1>2 DEF ResolveRefused, ListRefused, Running
  <2>2. Port!Refuse
    BY <1>a, <2>1, PortRefuses
  <2> QED
    BY <2>2 DEF Port!Next
<1>3. ASSUME NEW n, Running(reader), reader' = NodeRefused(reader, n)
      PROVE  [Port!Next]_Port!vars
  <2> DEFINE r == [reader EXCEPT !.node = NoNode, !.nodes = @ \ {n}]
  <2>1. /\ r \in Reader /\ r.yielded = reader.yielded /\ r.open = reader.open
        /\ r.outcome = reader.outcome
    BY <1>a DEF Reader, NoNode
  <2>2. reader' = Refused(r)
    BY <1>3 DEF NodeRefused
  <2> HIDE DEF r
  <2>3. Port!Refuse
    BY <1>3, <2>1, <2>2, PortRefuses
  <2> QED
    BY <2>3 DEF Port!Next
<1>4. CASE ListNodeRefused \/ \E n \in Nodes : OpenNodeRefused(n)
  BY <1>3, <1>4 DEF ListNodeRefused, OpenNodeRefused, Running
<1>5. CASE ResolveNodes
  BY <1>5, <1>a, InsideStutters DEF Inside, ResolveNodes, Reader, Running
<1>6. CASE ListNode
  BY <1>6, <1>a, InsideStutters DEF Inside, ListNode, NodeListed, Reader, Running
<1>7. ASSUME NEW n, Running(reader), reader' = NodeFailed(reader, n)
      PROVE  [Port!Next]_Port!vars
  BY <1>7, <1>a, InsideStutters DEF Inside, NodeFailed, Reader, Running
<1>8. CASE ListNodeFails \/ \E n \in Nodes : OpenNodeFails(n)
  BY <1>7, <1>8 DEF ListNodeFails, OpenNodeFails, Running
<1>9. CASE NextNode \/ ListHost
  BY <1>9, <1>a, InsideStutters DEF Inside, NextNode, ListHost, Reader, Running
<1>10. CASE ListScvmm
  BY <1>10, <1>a, InsideStutters DEF Inside, ListScvmm, Reader, Running
<1>11. ASSUME NEW n \in Nodes, OpenNode(n) PROVE [Port!Next]_Port!vars
  BY <1>11, <1>a, InsideStutters DEF Inside, OpenNode, Reader, Running
<1> QED
  BY <1>1, <1>2, <1>4, <1>5, <1>6, <1>8, <1>9, <1>10, <1>11 DEF WinRmNext

LEMMA PortVCenter ==
    ASSUME Good(reader, "listing"), VCenterNext
    PROVE  [Port!Next]_Port!vars
<1> USE DEF AtVCenter, Turns
<1>a. /\ reader \in Reader /\ reader.total = reader.yielded
      /\ Running(reader) => reader.outcome = NoOutcome
  BY DEF Good, Sound, Running
<1>1. CASE CreateViewFails
  <2>1. Running(reader) /\ reader' = Ended(reader, TRUE, "reason")
    BY <1>1 DEF CreateViewFails, Running
  <2>2. Port!End
    BY <1>a, <2>1, PortEnds
  <2> QED
    BY <2>2 DEF Port!Next
<1>2. CASE ReleaseView
  <2> DEFINE r == Released(reader)
  <2>1. /\ r \in Reader /\ r.total = reader.yielded
        /\ r.yielded = reader.yielded /\ r.open = reader.open
        /\ r.outcome = reader.outcome
    BY <1>a DEF Released, Reader
  <2>2. reader.verdict \in {"ok", "failed", "refused"} /\ Running(reader)
    BY <1>2, <1>a DEF Reader, ReleaseView, Running
  <2>3. \/ reader' = Ended(r, FALSE, "none")
        \/ reader' = Ended(r, TRUE, "reason")
        \/ reader' = Refused(r)
    BY <1>2, <2>2 DEF ReleaseView
  <2> HIDE DEF r
  <2>4. Port!End \/ Port!Refuse
    BY <1>a, <2>1, <2>2, <2>3, PortEnds, PortRefuses
  <2> QED
    BY <2>4 DEF Port!Next
<1>3. CASE CreateView
  BY <1>3, <1>a, InsideStutters DEF Inside, CreateView, Reader, Running
<1>4. CASE RetrieveFails
  BY <1>4, <1>a, InsideStutters DEF Inside, RetrieveFails, Reader, Running
<1>5. CASE RetrieveRefused
  BY <1>5, <1>a, InsideStutters DEF Inside, RetrieveRefused, Reader, Running
<1>6. CASE NextPage
  BY <1>6, <1>a, InsideStutters DEF Inside, NextPage, AfterRows, Reader, Running
<1>7. ASSUME NEW page, RetrievePage(page) PROVE [Port!Next]_Port!vars
  BY <1>7, <1>a, InsideStutters DEF Inside, RetrievePage, Reader, Running
<1> QED
  BY <1>1, <1>2, <1>3, <1>4, <1>5, <1>6, <1>7 DEF VCenterNext

LEMMA PortCloses ==
    ASSUME reader \in Reader, Over(reader), CloseSession
    PROVE  [Port!Next]_Port!vars
<1>1. /\ reader'.open = FALSE /\ reader'.yielded = reader.yielded
      /\ reader'.outcome = reader.outcome /\ reader'.at = reader.at
  BY DEF CloseSession, Reader
<1>2. Stream' = Stream /\ Stream # "running"
  BY <1>1 DEF Stream, Over
<1>3. CASE reader.open
  BY <1>1, <1>2, <1>3 DEF Port!CloseSession, Port!Next
<1>4. CASE ~reader.open
  BY <1>1, <1>2, <1>4 DEF Port!vars
<1> QED
  BY <1>3, <1>4

LEMMA PortStarts ==
    ASSUME reader \in Reader, reader.at = "none", StartSession
    PROVE  Port!Next
<1>1. /\ reader'.open = TRUE /\ reader'.yielded = reader.yielded
      /\ reader'.outcome = reader.outcome /\ reader'.at = reader.at
      /\ ~reader.open
  BY DEF StartSession, Reader
<1>2. Stream' = Stream /\ Stream = "none"
  BY <1>1 DEF Stream
<1> QED
  BY <1>1, <1>2 DEF Port!StartSession, Port!Next

LEMMA PortStep == IInv /\ [Next]_vars => [Port!Next]_Port!vars
<1> SUFFICES ASSUME IInv, [Next]_vars PROVE [Port!Next]_Port!vars
  OBVIOUS
<1>a. /\ Good(reader, svc.pc) /\ reader \in Reader
      /\ reader.total = reader.yielded
  BY DEF IInv, ReaderOK, Good, Sound
<1>1. ASSUME NEW pc, StartJob(pc) PROVE [Port!Next]_Port!vars
  <2>1. ~reader.open
    BY <1>1, <1>a DEF StartJob, Good, InPhase
  <2>2. /\ ~reader'.open /\ reader'.at = "none" /\ reader'.yielded = 0
        /\ reader'.outcome = NoOutcome
    BY <1>1 DEF StartJob, NewReader
  <2>3. Stream' = "none"
    BY <2>2 DEF Stream
  <2> QED
    BY <2>1, <2>2, <2>3 DEF Port!New, Port!Next
<1>2. CASE StartCollect \/ StartCheck
  BY <1>1, <1>2 DEF StartCollect, StartCheck
<1>3. CASE StartSession /\ svc.pc \in {"connect", "auth"}
  BY <1>3, <1>a, PortStarts DEF Good, InPhase, Fresh
<1>4. CASE \/ StartRefused
           \/ FinaliseGenerator
           \/ \E v \in Vms, n \in Nodes \cup {Gone} : Move(v, n)
           \/ reader' = Probed
           \/ reader' = [reader EXCEPT !.refusals = @ + 1]
  <2>1. ASSUME /\ reader'.open = reader.open
               /\ reader'.yielded = reader.yielded
               /\ reader'.outcome = reader.outcome /\ reader'.at = reader.at
        PROVE  [Port!Next]_Port!vars
    BY <2>1, PortStutters
  <2>2. CASE StartRefused \/ reader' = [reader EXCEPT !.refusals = @ + 1]
    BY <1>a, <2>1, <2>2 DEF StartRefused, Reader
  <2>3. CASE FinaliseGenerator
    BY <1>a, <2>1, <2>3 DEF FinaliseGenerator, Turns, Released, Reader
  <2>4. ASSUME NEW v \in Vms, NEW n \in Nodes \cup {Gone}, Move(v, n)
        PROVE  [Port!Next]_Port!vars
    BY <1>a, <2>1, <2>4 DEF Move, Reader
  <2>5. CASE reader' = Probed
    BY <1>a, <2>1, <2>5 DEF Probed, Reader
  <2> QED
    BY <1>4, <2>2, <2>3, <2>4, <2>5
<1>5. CASE BeginListing
  <2>1. /\ reader'.open = reader.open /\ reader'.yielded = reader.yielded
        /\ reader'.outcome = reader.outcome /\ reader.open
        /\ reader.at = "none" /\ reader'.at = "begin"
    BY <1>5, <1>a DEF BeginListing, Begin, Reader
  <2>2. Stream = "none" /\ Stream' = "running"
    BY <2>1 DEF Stream
  <2> QED
    BY <2>1, <2>2 DEF Port!ListVirtualMachines, Port!Next
<1>6. CASE ReaderAdvances
  BY <1>6, <1>a, PortWinRm, PortVCenter DEF ReaderAdvances
<1>7. ASSUME NEW v \in Vms, Deliver(v) PROVE [Port!Next]_Port!vars
  <2>1. reader.open
    BY <1>7, <1>a DEF Deliver, Good, InPhase, Streaming
  <2>2. /\ reader'.open = reader.open /\ reader'.yielded = reader.yielded + 1
        /\ reader'.outcome = reader.outcome
        /\ reader.at = "rows" /\ reader'.at = "rows"
    BY <1>7, <1>a DEF Deliver, Yield, Counted, Reader
  <2>3. Stream = "running" /\ Stream' = "running"
    BY <2>2 DEF Stream
  <2> QED
    BY <2>1, <2>2, <2>3 DEF Port!Yield, Port!Next
<1>8. CASE WriteFails
  <2>1. Good(reader, "flush")
    BY <1>8, <1>a DEF WriteFails
  <2>2. CASE reader.at = "ended"
    BY <1>8, <2>2, PortUnchanged DEF WriteFails
  <2>3. CASE reader.at # "ended"
    <3>1. /\ reader'.open = reader.open /\ reader'.yielded = reader.yielded
          /\ reader'.outcome = reader.outcome
          /\ reader.at = "rows" /\ reader'.at = "dropped"
      BY <1>8, <1>a, <2>1, <2>3
      DEF WriteFails, Dropped, Good, InPhase, Reader
    <3>2. Stream = "running" /\ Stream' = "dropped"
      BY <3>1 DEF Stream
    <3> QED
      BY <3>1, <3>2 DEF Port!Drop, Port!Next
  <2> QED
    BY <2>2, <2>3
<1>9. CASE CloseSession /\ svc.pc \in {"closing", "answer"}
  BY <1>9, <1>a, PortCloses DEF Good, InPhase, Over
<1>10. CASE UNCHANGED reader
  BY <1>10, PortUnchanged
<1>11. CASE Collect
  BY <1>2, <1>3, <1>4, <1>5, <1>6, <1>7, <1>8, <1>9, <1>10, <1>11
  DEF Collect, Connect, ConnectRefused, ConnectFails, EndOfStream,
      StreamRefused, UpsertKnown, UpsertNew, BatchWritten, Close, Commit,
      CommitFails, Rollback
<1>12. CASE Check
  BY <1>2, <1>3, <1>4, <1>9, <1>10, <1>12
  DEF Check, CheckReachable, CheckTls, CheckAuth, CheckAuthorized,
      AnswerCheck, AnswerRaises
<1>13. CASE ReaderFinalised \/ Environment
  BY <1>4, <1>10, <1>13 DEF ReaderFinalised, Environment, Rotate
<1> QED
  BY <1>10, <1>11, <1>12, <1>13 DEF Next, vars

LEMMA PortInit == Init => Port!Init
<1> SUFFICES ASSUME Init PROVE Port!Init
  OBVIOUS
<1>1. PICK k \in Kinds : reader = NewReader(k)
  BY DEF Init
<1>2. /\ ~reader.open /\ reader.at = "none" /\ reader.yielded = 0
      /\ reader.outcome = NoOutcome
  BY <1>1 DEF NewReader
<1>3. Stream = "none"
  BY <1>2 DEF Stream
<1> QED
  BY <1>2, <1>3 DEF Port!Init

\* Whatever the hypervisor does, each of the readers is the reader that the
\* port HypervisorInventoryReader promises to the services.
THEOREM ReadersKeepThePort == Spec => ImplementsPort
<1>1. Init => Port!Init
  BY PortInit
<1>2. IInv /\ [Next]_vars => [Port!Next]_Port!vars
  BY PortStep
<1> QED
  BY <1>1, <1>2, Inductive, PTL DEF Spec, ImplementsPort, Port!Spec

-----------------------------------------------------------------------------
(* Every node of a cluster is accounted for                                *)

\* The nodes to visit, the one that is visited, those that failed and those
\* that answered are the nodes of the cluster, each of them once.
Divided(r) ==
    /\ r.nodes \cup r.failed \cup r.answered
         \cup (IF r.node = NoNode THEN {} ELSE {r.node}) = Nodes
    /\ r.nodes \cap r.failed = {} /\ r.nodes \cap r.answered = {}
    /\ r.failed \cap r.answered = {}
    /\ r.node \notin r.nodes /\ r.node \notin r.failed
    /\ r.node \notin r.answered

Walked(r) ==
    /\ r.answered \cup r.failed = Nodes
    /\ r.answered \cap r.failed = {}
    /\ r.outcome.error = "nodes" <=> r.failed # {}
    /\ r.outcome.failed => r.total = 0

Accounted(r) ==
    /\ r.total = 0 => \A v \in Vms : r.given[v] = 0
    /\ r.kind = "hyperv-cluster" =>
         /\ r.at \in {"walk", "script", "rows"} => Divided(r)
         /\ r.at = "ended" /\ r.outcome.error # "reason" => Walked(r)

\* A listing begins before any node has answered.
Unasked(r, pc) == pc \in {"connect", "listing"} /\ r.at \in {"none", "begin"}
                    => r.answered = {}

AccountOK == Accounted(reader) /\ Unasked(reader, svc.pc)

\* The walk, what was given and the outcome are as they were.
SameWalk(r, s) ==
    /\ s.kind = r.kind /\ s.nodes = r.nodes /\ s.node = r.node
    /\ s.failed = r.failed /\ s.total = r.total /\ s.given = r.given
    /\ s.outcome = r.outcome

LEMMA AccountFrame ==
    ASSUME NEW r, NEW s, Accounted(r), SameWalk(r, s),
           s.answered = r.answered, s.at = r.at \/ s.at \in {"begin", "dropped"}
    PROVE  Accounted(s)
BY DEF Accounted, SameWalk, Divided, Walked

LEMMA AccountEnded ==
    ASSUME NEW r \in Reader, Accounted(r), NEW failed, NEW error,
           r.kind = "hyperv-cluster" => error = "reason"
    PROVE  Accounted(Ended(r, failed, error))
BY DEF Accounted, Ended, Reader

LEMMA AccountRefused ==
    ASSUME NEW r \in Reader, r.total = 0 => \A v \in Vms : r.given[v] = 0
    PROVE  Accounted(Refused(r))
BY DEF Accounted, Refused, Reader

LEMMA AccountWalk ==
    ASSUME Good(reader, "listing"), AccountOK, svc.pc = "listing", WinRmNext
    PROVE  Accounted(reader')
<1> USE DEF AtWinRm, Becomes
<1>a. /\ reader \in Reader /\ Sound(reader) /\ Accounted(reader)
      /\ reader.at = "begin" => reader.answered = {}
  BY DEF Good, AccountOK, Unasked
<1>b. reader.total = 0 => \A v \in Vms : reader.given[v] = 0
  BY <1>a DEF Accounted
<1>c. Gone \notin Nodes
  BY PipelineAssumption
<1>1. CASE ResolveNodes
  <2>1. PICK down \in SUBSET Nodes :
          reader' = [reader EXCEPT !.at = "walk", !.nodes = Nodes \ down,
                                   !.failed = down]
    BY <1>1 DEF ResolveNodes
  <2>2. /\ reader'.nodes = Nodes \ down /\ reader'.failed = down
        /\ reader'.answered = {} /\ reader'.node = NoNode
        /\ reader'.at = "walk" /\ reader'.given = reader.given
        /\ reader'.total = reader.total
    BY <1>1, <1>a, <2>1 DEF ResolveNodes, Reader, Sound
  <2>3. Divided(reader')
    BY <2>2, <1>c DEF Divided, NoNode
  <2> QED
    BY <1>b, <2>2, <2>3 DEF Accounted
<1>2. CASE ResolveFails \/ ListFails \/ EndList
  BY <1>2, <1>a, AccountEnded DEF ResolveFails, ListFails, EndList
<1>3. CASE ResolveRefused \/ ListRefused
  BY <1>3, <1>a, <1>b, AccountRefused DEF ResolveRefused, ListRefused
<1>4. ASSUME NEW n \in Nodes, OpenNode(n) PROVE Accounted(reader')
  <2>1. /\ reader'.nodes = reader.nodes \ {n} /\ n \in reader.nodes
        /\ reader'.node = n /\ reader'.failed = reader.failed
        /\ reader'.answered = reader.answered /\ reader'.at = "script"
        /\ reader'.kind = reader.kind
        /\ reader'.given = reader.given /\ reader'.total = reader.total
    BY <1>4, <1>a DEF OpenNode, Reader
  <2>2. CASE reader.kind = "hyperv-cluster"
    <3>1. Divided(reader) /\ reader.node = NoNode
      BY <1>4, <1>a, <2>2 DEF OpenNode, Accounted, Sound
    <3>2. Divided(reader')
      BY <2>1, <3>1, <1>4, <1>c DEF Divided, NoNode
    <3> QED
      BY <1>b, <2>1, <3>2 DEF Accounted
  <2>3. CASE reader.kind # "hyperv-cluster"
    BY <1>b, <2>1, <2>3 DEF Accounted
  <2> QED
    BY <2>2, <2>3
<1>5. ASSUME NEW n \in Nodes, reader' = NodeRefused(reader, n)
      PROVE  Accounted(reader')
  <2> DEFINE r == [reader EXCEPT !.node = NoNode, !.nodes = @ \ {n}]
  <2>1. /\ r \in Reader /\ r.total = reader.total /\ r.given = reader.given
    BY <1>a DEF Reader, NoNode
  <2>2. reader' = Refused(r)
    BY <1>5 DEF NodeRefused
  <2> HIDE DEF r
  <2> QED
    BY <1>b, <2>1, <2>2, AccountRefused
<1>6. ASSUME NEW n \in Nodes, reader' = NodeFailed(reader, n),
             \/ reader.at = "walk" /\ n \in reader.nodes
             \/ reader.at = "script" /\ n = reader.node
      PROVE  Accounted(reader')
  <2>1. /\ reader'.nodes = reader.nodes \ {n}
        /\ reader'.failed = reader.failed \cup {n}
        /\ reader'.node = NoNode /\ reader'.kind = reader.kind
        /\ reader'.answered = reader.answered /\ reader'.at = "walk"
        /\ reader'.given = reader.given /\ reader'.total = reader.total
    BY <1>6, <1>a DEF NodeFailed, Reader
  <2>2. CASE reader.kind = "hyperv-cluster"
    <3>1. /\ Divided(reader)
          /\ reader.node = IF reader.at = "script" THEN n ELSE NoNode
      BY <1>6, <1>a, <2>2 DEF Accounted, Sound
    <3>2. Divided(reader')
      BY <2>1, <3>1, <1>6, <1>c DEF Divided, NoNode
    <3> QED
      BY <1>b, <2>1, <3>2 DEF Accounted
  <2>3. CASE reader.kind # "hyperv-cluster"
    BY <1>b, <2>1, <2>3 DEF Accounted
  <2> QED
    BY <2>2, <2>3
<1>7. ASSUME reader.at = "script" PROVE reader.node \in Nodes
  BY <1>7, <1>a DEF Reader, Sound
<1>8. CASE ListNodeFails \/ \E n \in Nodes : OpenNodeFails(n)
  BY <1>6, <1>7, <1>8 DEF ListNodeFails, OpenNodeFails
<1>9. CASE ListNodeRefused \/ \E n \in Nodes : OpenNodeRefused(n)
  BY <1>5, <1>7, <1>9 DEF ListNodeRefused, OpenNodeRefused
<1>10. CASE ListNode
  <2>1. /\ reader'.nodes = reader.nodes /\ reader'.failed = reader.failed
        /\ reader'.answered = reader.answered \cup {reader.node}
        /\ reader'.node = NoNode /\ reader'.kind = reader.kind
        /\ reader'.at = "rows" /\ reader.node \in Nodes
        /\ reader'.given = reader.given /\ reader'.total = reader.total
    BY <1>10, <1>7, <1>a DEF ListNode, NodeListed, Reader
  <2>2. CASE reader.kind = "hyperv-cluster"
    <3>1. Divided(reader)
      BY <1>10, <1>a, <2>2 DEF ListNode, Accounted
    <3>2. Divided(reader')
      BY <2>1, <3>1, <1>c DEF Divided, NoNode
    <3> QED
      BY <1>b, <2>1, <3>2 DEF Accounted
  <2>3. CASE reader.kind # "hyperv-cluster"
    BY <1>b, <2>1, <2>3 DEF Accounted
  <2> QED
    BY <2>2, <2>3
<1>11. CASE NextNode
  <2>1. /\ SameWalk(reader, reader') /\ reader'.answered = reader.answered
        /\ reader.at = "rows" /\ reader'.at = "walk"
    BY <1>11, <1>a DEF NextNode, Reader, SameWalk
  <2> QED
    BY <1>a, <2>1 DEF Accounted, SameWalk, Divided
<1>12. CASE EndWalk
  <2> DEFINE failed == reader.failed # {} /\ reader.total = 0
             error == IF reader.failed = {} THEN "none" ELSE "nodes"
  <2>1. /\ reader' = Ended(reader, failed, error)
        /\ reader.at = "walk" /\ reader.nodes = {} /\ reader.node = NoNode
    BY <1>12, <1>a DEF EndWalk, Sound
  <2>2. /\ reader'.total = reader.total /\ reader'.given = reader.given
        /\ reader'.failed = reader.failed /\ reader'.kind = reader.kind
        /\ reader'.answered = reader.answered /\ reader'.at = "ended"
        /\ reader'.outcome.failed = failed /\ reader'.outcome.error = error
    BY <1>a, <2>1 DEF Ended, Reader
  <2>3. CASE reader.kind = "hyperv-cluster"
    <3>1. Divided(reader)
      BY <1>a, <2>1, <2>3 DEF Accounted
    <3>2. /\ reader.answered \cup reader.failed = Nodes
          /\ reader.answered \cap reader.failed = {}
      BY <2>1, <3>1 DEF Divided
    <3>3. Walked(reader')
      BY <2>2, <3>2 DEF Walked
    <3> QED
      BY <1>b, <2>2, <3>3 DEF Accounted
  <2>4. CASE reader.kind # "hyperv-cluster"
    BY <1>b, <2>2, <2>4 DEF Accounted
  <2> QED
    BY <2>3, <2>4
<1>13. CASE ListHost \/ ListScvmm
  <2>1. /\ reader'.total = reader.total /\ reader'.given = reader.given
        /\ reader'.kind = reader.kind /\ reader.kind # "hyperv-cluster"
    BY <1>13, <1>a DEF ListHost, ListScvmm, Reader
  <2> QED
    BY <1>b, <2>1 DEF Accounted
<1> QED
  BY <1>1, <1>2, <1>3, <1>4, <1>8, <1>9, <1>10, <1>11, <1>12, <1>13
  DEF WinRmNext

LEMMA AccountOther ==
    ASSUME NEW r, NEW s, Accounted(r), s.kind # "hyperv-cluster",
           s.total = r.total, s.given = r.given
    PROVE  Accounted(s)
BY DEF Accounted

LEMMA AccountVCenter ==
    ASSUME Good(reader, "listing"), Accounted(reader), VCenterNext
    PROVE  Accounted(reader')
<1> USE DEF AtVCenter, Turns
<1>a. reader \in Reader
  BY DEF Good
<1>b. ASSUME reader'.kind = reader.kind, reader'.total = reader.total,
             reader'.given = reader.given, reader.kind = "vcenter"
      PROVE  Accounted(reader')
  BY <1>b, AccountOther
<1>1. CASE CreateView
  <2>1. /\ reader'.kind = reader.kind /\ reader'.total = reader.total
        /\ reader'.given = reader.given /\ reader.kind = "vcenter"
    BY <1>1, <1>a DEF CreateView, Reader
  <2> QED
    BY <1>b, <2>1
<1>2. CASE CreateViewFails
  <2>1. /\ reader'.kind = reader.kind /\ reader'.total = reader.total
        /\ reader'.given = reader.given /\ reader.kind = "vcenter"
    BY <1>2, <1>a DEF CreateViewFails, Ended, Reader
  <2> QED
    BY <1>b, <2>1
<1>3. ASSUME NEW page, RetrievePage(page) PROVE Accounted(reader')
  <2>1. /\ reader'.kind = reader.kind /\ reader'.total = reader.total
        /\ reader'.given = reader.given /\ reader.kind = "vcenter"
    BY <1>3, <1>a DEF RetrievePage, Reader
  <2> QED
    BY <1>b, <2>1
<1>4. CASE RetrieveFails
  <2>1. /\ reader'.kind = reader.kind /\ reader'.total = reader.total
        /\ reader'.given = reader.given /\ reader.kind = "vcenter"
    BY <1>4, <1>a DEF RetrieveFails, Reader
  <2> QED
    BY <1>b, <2>1
<1>5. CASE RetrieveRefused
  <2>1. /\ reader'.kind = reader.kind /\ reader'.total = reader.total
        /\ reader'.given = reader.given /\ reader.kind = "vcenter"
    BY <1>5, <1>a DEF RetrieveRefused, Reader
  <2> QED
    BY <1>b, <2>1
<1>7. CASE NextPage
  <2> DEFINE to == IF reader.rest = {} THEN "release" ELSE "page"
  <2>1. reader' = [reader EXCEPT !.at = to] /\ reader.kind = "vcenter"
    BY <1>7 DEF NextPage, AfterRows
  <2> HIDE DEF to
  <2>2. /\ reader'.kind = reader.kind /\ reader'.total = reader.total
        /\ reader'.given = reader.given
    BY <1>a, <2>1 DEF Reader
  <2> QED
    BY <1>b, <2>1, <2>2
<1>6. CASE ReleaseView
  <2> DEFINE r == Released(reader)
  <2>1. /\ r \in Reader /\ r.total = reader.total /\ r.given = reader.given
        /\ r.kind # "hyperv-cluster"
    BY <1>6, <1>a DEF Released, Reader, ReleaseView
  <2>2. reader.verdict \in {"ok", "failed", "refused"}
    BY <1>a DEF Reader
  <2>3. \/ reader' = Ended(r, FALSE, "none")
        \/ reader' = Ended(r, TRUE, "reason")
        \/ reader' = Refused(r)
    BY <1>6, <2>2 DEF ReleaseView
  <2> HIDE DEF r
  <2>4. /\ reader'.total = reader.total /\ reader'.given = reader.given
        /\ reader'.kind # "hyperv-cluster"
    BY <2>1, <2>3 DEF Ended, Refused, Reader
  <2> QED
    BY <2>4, AccountOther
<1> QED
  BY <1>1, <1>2, <1>3, <1>4, <1>5, <1>6, <1>7 DEF VCenterNext

LEMMA AccountYield ==
    ASSUME reader \in Reader, Accounted(reader), NEW v \in Vms, Yield(v)
    PROVE  Accounted(reader') /\ reader'.at = "rows"
<1>1. /\ reader'.kind = reader.kind /\ reader'.nodes = reader.nodes
      /\ reader'.node = reader.node /\ reader'.failed = reader.failed
      /\ reader'.answered = reader.answered /\ reader'.at = "rows"
      /\ reader.at = "rows" /\ reader'.total = reader.total + 1
      /\ reader.total \in Nat
  BY DEF Yield, Counted, Reader
<1>2. reader'.total # 0
  BY <1>1
<1> QED
  BY <1>1, <1>2 DEF Accounted, Divided

\* A generator that has begun never begins again.
LEMMA Advanced ==
    ASSUME reader \in Reader, WinRmNext \/ VCenterNext
    PROVE  reader'.at \notin {"none", "begin"}
<1> USE DEF Becomes, Turns
<1>1. ASSUME NEW n, \/ reader' = NodeFailed(reader, n)
                    \/ reader' = NodeRefused(reader, n)
                    \/ OpenNode(n)
      PROVE  reader'.at \notin {"none", "begin"}
  <2>1. CASE reader' = NodeFailed(reader, n)
    BY <2>1 DEF NodeFailed, Reader
  <2>2. CASE reader' = NodeRefused(reader, n)
    BY <2>2 DEF NodeRefused, Refused, Reader
  <2>3. CASE OpenNode(n)
    BY <2>3 DEF OpenNode, Reader
  <2> QED
    BY <1>1, <2>1, <2>2, <2>3
<1>2. CASE \/ ListNodeFails \/ ListNodeRefused
           \/ \E n \in Nodes : OpenNode(n) \/ OpenNodeRefused(n)
                                \/ OpenNodeFails(n)
  BY <1>1, <1>2
  DEF ListNodeFails, ListNodeRefused, OpenNodeRefused, OpenNodeFails
<1>3. ASSUME NEW r, NEW failed, NEW error, r = reader \/ r = Released(reader),
             reader' = Ended(r, failed, error) \/ reader' = Refused(r)
      PROVE  reader'.at \notin {"none", "begin"}
  BY <1>3 DEF Ended, Refused, Released, Reader
<1>4. CASE \/ ResolveFails \/ ResolveRefused \/ EndWalk \/ ListFails
           \/ ListRefused \/ EndList \/ CreateViewFails
  BY <1>3, <1>4
  DEF ResolveFails, ResolveRefused, EndWalk, ListFails, ListRefused, EndList,
      CreateViewFails
<1>5. CASE ReleaseView
  <2>1. reader.verdict \in {"ok", "failed", "refused"}
    BY DEF Reader
  <2> QED
    BY <1>3, <1>5, <2>1 DEF ReleaseView
<1>6. CASE ResolveNodes
  BY <1>6 DEF ResolveNodes, Reader
<1>7. CASE ListNode \/ NextNode
  BY <1>7 DEF ListNode, NodeListed, NextNode, Reader
<1>8. CASE ListHost
  BY <1>8 DEF ListHost, Reader
<1>9. CASE ListScvmm
  BY <1>9 DEF ListScvmm, Reader
<1>10. CASE CreateView
  BY <1>10 DEF CreateView, Reader
<1>11. ASSUME NEW page, RetrievePage(page)
       PROVE  reader'.at \notin {"none", "begin"}
  BY <1>11 DEF RetrievePage, Reader
<1>12. CASE RetrieveFails
  BY <1>12 DEF RetrieveFails, Reader
<1>13. CASE RetrieveRefused
  BY <1>13 DEF RetrieveRefused, Reader
<1>14. CASE NextPage
  BY <1>14 DEF NextPage, AfterRows, Reader
<1> QED
  BY <1>2, <1>4, <1>5, <1>6, <1>7, <1>8, <1>9, <1>10, <1>11, <1>12, <1>13,
     <1>14
  DEF WinRmNext, VCenterNext

LEMMA AccountStep == IInv /\ AccountOK /\ [Next]_vars => AccountOK'
<1> SUFFICES ASSUME IInv, AccountOK, [Next]_vars PROVE AccountOK'
  OBVIOUS
<1>a. /\ Good(reader, svc.pc) /\ reader \in Reader /\ svc \in Service
      /\ Accounted(reader) /\ Unasked(reader, svc.pc)
  BY DEF IInv, ReaderOK, DataOK, Good, AccountOK
<1>b. ASSUME NEW pc, Goes(pc) PROVE svc'.pc = pc
  BY <1>b, <1>a DEF Goes, Service
<1>c. ASSUME NEW pc, NEW f, Results(pc, f) PROVE svc'.pc = pc
  BY <1>c, <1>a DEF Results, Service
<1>d. ASSUME Accounted(reader'), svc'.pc \notin {"connect", "listing"}
      PROVE  AccountOK'
  BY <1>d DEF AccountOK, Accounted, Walked, Divided, Unasked
<1>e. ASSUME Accounted(reader'), reader'.at \notin {"none", "begin"}
      PROVE  AccountOK'
  BY <1>e DEF AccountOK, Accounted, Walked, Divided, Unasked
<1>f. ASSUME Accounted(reader'), reader'.answered = {} PROVE AccountOK'
  BY <1>f DEF AccountOK, Accounted, Walked, Divided, Unasked
<1>g. ASSUME SameWalk(reader, reader'), reader'.answered = reader.answered,
             reader'.at = reader.at \/ reader'.at \in {"begin", "dropped"}
      PROVE  Accounted(reader')
  BY <1>g, <1>a, AccountFrame
<1>1. ASSUME NEW pc, StartJob(pc) PROVE AccountOK'
  <2>1. /\ reader'.answered = {} /\ reader'.at = "none"
        /\ \A v \in Vms : reader'.given[v] = 0
    BY <1>1 DEF StartJob, NewReader
  <2>2. Accounted(reader')
    BY <2>1 DEF Accounted
  <2> QED
    BY <1>f, <2>1, <2>2
<1>2. CASE StartCollect \/ StartCheck
  BY <1>1, <1>2 DEF StartCollect, StartCheck
<1>3. CASE Connect \/ ConnectRefused \/ BeginListing
  <2>1. /\ SameWalk(reader, reader') /\ reader'.answered = reader.answered
        /\ reader'.at = reader.at \/ reader'.at = "begin"
    <3>1. CASE Connect
      BY <1>a, <3>1 DEF Connect, StartSession, SameWalk, Reader
    <3>2. CASE ConnectRefused
      BY <1>a, <3>2 DEF ConnectRefused, StartRefused, SameWalk, Reader
    <3>3. CASE BeginListing
      BY <1>a, <3>3 DEF BeginListing, Begin, SameWalk, Reader
    <3> QED
      BY <1>3, <3>1, <3>2, <3>3
  <2>2. reader.answered = {}
    BY <1>3, <1>a
    DEF Connect, ConnectRefused, BeginListing, Begin, Unasked, Good, InPhase,
        Fresh
  <2> QED
    BY <1>f, <1>g, <2>1, <2>2
<1>4. CASE ConnectFails \/ StreamRefused
  <2>1. reader' = reader /\ svc'.pc \in {"mark", "closing"}
    BY <1>4, <1>a, <1>c DEF ConnectFails, StreamRefused, Service
  <2> QED
    BY <1>a, <1>d, <2>1
<1>5. CASE EndOfStream \/ BatchWritten
  <2>1. reader' = reader /\ reader.at \in {"rows", "ended"}
    BY <1>5, <1>a DEF EndOfStream, BatchWritten, Good, InPhase
  <2> QED
    BY <1>a, <1>e, <2>1
<1>6. CASE UpsertKnown \/ UpsertNew
  <2>1. reader' = reader /\ svc'.pc = "flush"
    BY <1>6, <1>a DEF UpsertKnown, UpsertNew, Written, Service
  <2> QED
    BY <1>a, <1>d, <2>1
<1>7. CASE ReaderAdvances
  <2>1. svc.pc = "listing" /\ Good(reader, "listing")
        /\ (WinRmNext \/ VCenterNext)
    BY <1>7, <1>a DEF ReaderAdvances
  <2>2. Accounted(reader')
    BY <1>a, <2>1, AccountWalk, AccountVCenter
  <2>3. reader'.at \notin {"none", "begin"}
    BY <1>a, <2>1, Advanced
  <2> QED
    BY <1>e, <2>2, <2>3
<1>8. ASSUME NEW v \in Vms, Deliver(v) PROVE AccountOK'
  BY <1>8, <1>a, <1>e, AccountYield DEF Deliver
<1>9. CASE WriteFails
  <2>1. svc'.pc = "closing"
    BY <1>9, <1>a DEF WriteFails, Service
  <2>2. /\ SameWalk(reader, reader') /\ reader'.answered = reader.answered
        /\ reader'.at = reader.at \/ reader'.at = "dropped"
    BY <1>9, <1>a DEF WriteFails, Dropped, SameWalk, Reader
  <2> QED
    BY <1>d, <1>g, <2>1, <2>2
<1>10. CASE Close \/ AnswerCheck \/ AnswerRaises
  <2>1. svc'.pc \in {"mark", "rollback", "idle"} /\ CloseSession
    BY <1>10, <1>a, <1>b DEF Close, AnswerCheck, AnswerRaises, Service
  <2>2. /\ SameWalk(reader, reader') /\ reader'.answered = reader.answered
        /\ reader'.at = reader.at
    BY <1>a, <2>1 DEF CloseSession, SameWalk, Reader
  <2> QED
    BY <1>d, <1>g, <2>1, <2>2
<1>11. CASE Commit \/ CommitFails \/ Rollback
  <2>1. svc'.pc \in {"idle", "rollback"} /\ reader' = reader
    BY <1>11, <1>b, <1>c DEF Commit, CommitFails, Rollback
  <2> QED
    BY <1>a, <1>d, <2>1
<1>12. CASE CheckReachable \/ CheckTls
  <2>1. svc'.pc \in {"tls", "auth", "answer"} /\ reader' = reader
    BY <1>12, <1>b DEF CheckReachable, CheckTls, Passes, FailsHere
  <2> QED
    BY <1>a, <1>d, <2>1
<1>13. CASE CheckAuth
  <2>1. svc'.pc \in {"authz", "answer"}
    BY <1>13, <1>b DEF CheckAuth, Passes, FailsHere
  <2>2. /\ SameWalk(reader, reader') /\ reader'.answered = reader.answered
        /\ reader'.at = reader.at
    BY <1>13, <1>a DEF CheckAuth, StartSession, StartRefused, SameWalk, Reader
  <2> QED
    BY <1>d, <1>g, <2>1, <2>2
<1>14. CASE CheckAuthorized
  <2>1. svc'.pc = "answer"
    BY <1>14, <1>b DEF CheckAuthorized, Passes, FailsHere
  <2>2. SameWalk(reader, reader') /\ reader'.at = "none" /\ reader.at = "none"
    <3>1. reader.at = "none"
      BY <1>14, <1>a DEF CheckAuthorized, Good, InPhase, Fresh
    <3>2. CASE reader' = reader
      BY <3>1, <3>2 DEF SameWalk
    <3>3. CASE reader' = Probed
      BY <1>a, <3>1, <3>3 DEF Probed, SameWalk, Reader
    <3>4. CASE reader' = [reader EXCEPT !.refusals = @ + 1]
      BY <1>a, <3>1, <3>4 DEF SameWalk, Reader
    <3> QED
      BY <1>14, <3>2, <3>3, <3>4 DEF CheckAuthorized
  <2>3. Accounted(reader')
    BY <1>a, <2>2 DEF Accounted, SameWalk
  <2> QED
    BY <1>d, <2>1, <2>3
<1>15. CASE ReaderFinalised
  <2>1. /\ SameWalk(reader, reader') /\ reader'.answered = reader.answered
        /\ reader'.at = reader.at /\ svc' = svc
    BY <1>15, <1>a
    DEF ReaderFinalised, FinaliseGenerator, Turns, Released, SameWalk, Reader
  <2>2. Accounted(reader')
    BY <1>g, <2>1
  <2> QED
    BY <1>a, <1>d, <1>e, <1>f, <2>1, <2>2 DEF Unasked
<1>16. CASE Environment
  <2>1. /\ SameWalk(reader, reader') /\ reader'.answered = reader.answered
        /\ reader'.at = reader.at /\ svc' = svc
    BY <1>16, <1>a DEF Environment, Move, Rotate, SameWalk, Reader
  <2>2. Accounted(reader')
    BY <1>g, <2>1
  <2> QED
    BY <1>a, <1>d, <1>e, <1>f, <2>1, <2>2 DEF Unasked
<1>17. CASE UNCHANGED vars
  BY <1>a, <1>d, <1>e, <1>f, <1>17 DEF vars, Unasked
<1> QED
  BY <1>2, <1>3, <1>4, <1>5, <1>6, <1>7, <1>8, <1>9, <1>10, <1>11, <1>12,
     <1>13, <1>14, <1>15, <1>16, <1>17
  DEF Next, Collect, Check

LEMMA AccountInit == Init => AccountOK
<1> SUFFICES ASSUME Init PROVE AccountOK
  OBVIOUS
<1>1. PICK k \in Kinds : reader = NewReader(k)
  BY DEF Init
<1>2. /\ reader.at = "none" /\ reader.answered = {}
      /\ \A v \in Vms : reader.given[v] = 0
  BY <1>1 DEF NewReader
<1> QED
  BY <1>2 DEF AccountOK, Accounted, Unasked

\* However many nodes a cluster has and whichever of them are down, fail or
\* move their machines away, the end of the walk tells the ones that failed
\* from the ones that answered, and is a failure only when nothing was given.
THEOREM NodesAccountedFor == Spec => []EveryNodeIsAccountedFor
<1>1. IInv /\ AccountOK /\ [Next]_vars => AccountOK'
  BY AccountStep
<1>2. AccountOK => EveryNodeIsAccountedFor
  BY DEF AccountOK, Accounted, Walked, EveryNodeIsAccountedFor
<1> QED
  BY <1>1, <1>2, AccountInit, Inductive, PTL DEF Spec
=============================================================================
