---------------------------- MODULE ListingProofs ----------------------------
(***************************************************************************)
(* Theorems about what a job of Pipeline tells and stores, for any number  *)
(* of machines, nodes and resource identifiers and any sizes of pages and  *)
(* batches: the connection test names the stage that failed, a machine     *)
(* that stayed where it is is listed once, what was listed is stored, and  *)
(* guest values keep the reading they are of.                              *)
(***************************************************************************)
EXTENDS PipelineProofs

-----------------------------------------------------------------------------
(* The connection test                                                     *)

PassedSo(s, k) == Len(s) = k /\ \A i \in 1..k : s[i] = "passed"

\* The first k stages passed, the next one failed, the others were skipped.
Verdict(s, k) ==
    /\ Len(s) = 4
    /\ \A i \in 1..4 : s[i] = IF i <= k THEN "passed"
                              ELSE IF i = k + 1 THEN "failed" ELSE "skipped"

Judged(s, r) ==
    \E k \in 0..4 : /\ Verdict(s, k)
                    /\ r.open <=> k >= 3
                    /\ r.answered # {} <=> k = 4
                    /\ r.refusals > 0 => k \in {2, 3}

Staged == {"reach", "tls", "auth", "authz"}

Before(pc) == CASE pc = "reach" -> 0 [] pc = "tls" -> 1
                [] pc = "auth" -> 2 [] pc = "authz" -> 3

CheckOK ==
    /\ svc.pc \in Staged =>
         PassedSo(stages, Before(svc.pc)) /\ reader.answered = {}
    /\ svc.pc = "answer" => Judged(stages, reader)

LEMMA PassesOne ==
    ASSUME stages \in Seq(StageResults), NEW k \in Nat, PassedSo(stages, k),
           stages' = Append(stages, "passed")
    PROVE  PassedSo(stages', k + 1)
<1>1. /\ Len(stages') = k + 1
      /\ \A i \in 1..(k + 1) : stages'[i] = IF i <= k THEN stages[i] ELSE "passed"
  BY DEF PassedSo
<1> QED
  BY <1>1 DEF PassedSo

LEMMA FailsAt ==
    ASSUME stages \in Seq(StageResults), NEW k \in 0..3, PassedSo(stages, k),
           NEW pc, FailsHere(pc)
    PROVE  Verdict(stages', k)
<1>1. /\ Len(StageNames) = 4 /\ Len(stages) = k
      /\ \A i \in 1..k : stages[i] = "passed"
  BY DEF StageNames, PassedSo
<1>2. stages' = [i \in 1..4 |-> IF i <= k THEN stages[i]
                                ELSE IF i = k + 1 THEN "failed" ELSE "skipped"]
  BY <1>1 DEF FailsHere
<1>3. stages' \in Seq(StageResults)
  BY FailsTyped
<1>4. Len(stages') = 4
  <2>1. stages' \in [1..Len(stages') -> StageResults] /\ Len(stages') \in Nat
    BY <1>3, LenProperties
  <2>2. DOMAIN stages' = 1..4
    BY <1>2
  <2>3. ASSUME NEW n \in Nat, 1..n = 1..4 PROVE n = 4
    <3>1. 4 \in 1..4
      OBVIOUS
    <3>2. 4 \in 1..n
      BY <2>3, <3>1, Zenon
    <3>3. n \in 1..n
      BY <3>2
    <3>4. n \in 1..4
      BY <2>3, <3>3, Zenon
    <3> QED
      BY <3>2, <3>4
  <2>4. 1..Len(stages') = 1..4
    BY <2>1, <2>2
  <2> QED
    BY <2>1, <2>3, <2>4
<1> QED
  BY <1>1, <1>2, <1>4 DEF Verdict

LEMMA PassedAll ==
    ASSUME NEW s, PassedSo(s, 4)
    PROVE  Verdict(s, 4)
BY DEF PassedSo, Verdict

LEMMA CheckFrame ==
    ASSUME CheckOK, svc'.pc = svc.pc, UNCHANGED stages,
           reader'.open = reader.open, reader'.answered = reader.answered,
           reader'.refusals = reader.refusals
    PROVE  CheckOK'
BY DEF CheckOK, Judged

LEMMA CheckStep == IInv /\ CheckOK /\ [Next]_vars => CheckOK'
<1> SUFFICES ASSUME IInv, CheckOK, [Next]_vars PROVE CheckOK'
  OBVIOUS
<1>a. /\ Good(reader, svc.pc) /\ reader \in Reader /\ svc \in Service
      /\ stages \in Seq(StageResults)
  BY DEF IInv, ReaderOK, DataOK, Good
<1>b. ASSUME NEW pc, Goes(pc) PROVE svc'.pc = pc
  BY <1>b, <1>a DEF Goes, Service
<1>c. ASSUME svc'.pc \notin Staged \cup {"answer"} PROVE CheckOK'
  BY <1>c DEF CheckOK
<1>d. ASSUME NEW pc \in Staged, NEW to \in Staged, svc.pc = pc, Passes(to),
             Before(to) = Before(pc) + 1, reader'.answered = reader.answered
      PROVE  CheckOK'
  <2>1. /\ svc'.pc = to /\ stages' = Append(stages, "passed")
        /\ PassedSo(stages, Before(pc)) /\ reader.answered = {}
        /\ Before(pc) \in Nat
    BY <1>b, <1>d DEF Passes, CheckOK, Staged, Before
  <2>2. PassedSo(stages', Before(to))
    BY <1>a, <1>d, <2>1, PassesOne
  <2> QED
    BY <1>d, <2>1, <2>2 DEF CheckOK, Staged
<1>e. ASSUME NEW k \in 0..3, PassedSo(stages, k), NEW pc, FailsHere(pc),
             reader'.answered = {}, reader'.open <=> k >= 3,
             reader'.refusals > 0 => k \in {2, 3}
      PROVE  CheckOK'
  <2>1. svc'.pc = "answer" /\ Verdict(stages', k)
    BY <1>a, <1>b, <1>e, FailsAt DEF FailsHere
  <2>2. Judged(stages', reader')
    BY <1>e, <2>1 DEF Judged
  <2> QED
    BY <2>1, <2>2 DEF CheckOK, Staged
<1>1. CASE Collect
  <2>1. ASSUME NEW pc, StartJob(pc) PROVE svc'.pc = pc
    BY <2>1 DEF StartJob
  <2>2. ASSUME NEW pc, NEW f, Results(pc, f) PROVE svc'.pc = pc
    BY <2>2, <1>a DEF Results, Service
  <2>3. CASE \/ StartCollect \/ Connect \/ ConnectRefused \/ ConnectFails
             \/ EndOfStream \/ BatchWritten \/ Commit \/ CommitFails \/ Rollback
    BY <1>b, <1>c, <2>1, <2>2, <2>3
    DEF StartCollect, Connect, ConnectRefused, ConnectFails, EndOfStream,
        LastBatch, BatchWritten, Commit, CommitFails, Rollback, Staged
  <2>4. CASE BeginListing \/ ReaderAdvances
    BY <1>c, <2>4 DEF BeginListing, ReaderAdvances, Staged
  <2>5. ASSUME NEW v \in Vms, Deliver(v) PROVE CheckOK'
    <3>1. svc'.pc \in {"flush", "listing"}
      BY <1>a, <2>5 DEF Deliver, Service
    <3> QED
      BY <1>c, <3>1 DEF Staged
  <2>6. CASE StreamRefused \/ WriteFails
    BY <1>a, <1>c, <2>6 DEF StreamRefused, WriteFails, Service, Staged
  <2>7. CASE UpsertKnown \/ UpsertNew
    BY <1>a, <1>c, <2>7 DEF UpsertKnown, UpsertNew, Written, Service, Staged
  <2>8. CASE Close
    BY <1>a, <1>c, <2>8 DEF Close, Service, Staged
  <2> QED
    BY <1>1, <2>3, <2>4, <2>5, <2>6, <2>7, <2>8 DEF Collect
<1>2. CASE StartCheck
  <2>1. svc'.pc = "reach" /\ stages' = << >> /\ reader'.answered = {}
    BY <1>2 DEF StartCheck, StartJob, NewReader
  <2>2. PassedSo(<< >>, 0)
    BY DEF PassedSo
  <2> QED
    BY <2>1, <2>2 DEF CheckOK, Staged, Before
<1>3. CASE CheckReachable
  <2>1. /\ svc.pc = "reach" /\ reader' = reader /\ ~reader.open
        /\ reader.refusals = 0
    BY <1>3, <1>a DEF CheckReachable, Good, InPhase, Fresh
  <2>2. PassedSo(stages, 0) /\ reader.answered = {}
    BY <2>1 DEF CheckOK, Staged, Before
  <2>3. CASE Passes("tls")
    BY <1>d, <2>1, <2>3 DEF Staged, Before
  <2>4. CASE FailsHere("tls")
    BY <1>e, <2>1, <2>2, <2>4
  <2> QED
    BY <1>3, <2>3, <2>4 DEF CheckReachable
<1>4. CASE CheckTls
  BY <1>4, <1>d DEF CheckTls, Staged, Before
<1>5. CASE CheckAuth
  <2>1. svc.pc = "auth" /\ ~reader.open /\ reader.refusals = 0
    BY <1>5, <1>a DEF CheckAuth, Good, InPhase, Fresh
  <2>2. PassedSo(stages, 2) /\ reader.answered = {}
    BY <2>1 DEF CheckOK, Staged, Before
  <2>3. CASE StartSession /\ Passes("authz")
    <3>1. reader'.answered = reader.answered
      BY <1>a, <2>3 DEF StartSession, Reader
    <3> QED
      BY <1>d, <2>1, <2>3, <3>1 DEF Staged, Before
  <2>4. CASE StartRefused /\ FailsHere("authz")
    <3>1. reader'.answered = reader.answered /\ reader'.open = reader.open
      BY <1>a, <2>4 DEF StartRefused, Reader
    <3> QED
      BY <1>e, <2>1, <2>2, <2>4, <3>1
  <2>5. CASE FailsHere("authz") /\ UNCHANGED reader
    BY <1>e, <2>1, <2>2, <2>5
  <2> QED
    BY <1>5, <2>3, <2>4, <2>5 DEF CheckAuth
<1>6. CASE CheckAuthorized
  <2>1. svc.pc = "authz" /\ reader.open /\ reader.refusals = 0
    BY <1>6, <1>a DEF CheckAuthorized, Good, InPhase, Fresh
  <2>2. PassedSo(stages, 3) /\ reader.answered = {}
    BY <2>1 DEF CheckOK, Staged, Before
  <2>3. CASE reader' = Probed /\ Passes("answer")
    <3>1. /\ reader'.open = reader.open /\ reader'.answered = Nodes
          /\ reader'.refusals = reader.refusals
      BY <1>a, <2>3 DEF Probed, Reader
    <3>2. svc'.pc = "answer" /\ stages' = Append(stages, "passed")
      BY <1>b, <2>3 DEF Passes
    <3>3. PassedSo(stages', 4)
      BY <1>a, <2>2, <3>2, PassesOne
    <3>4. Verdict(stages', 4) /\ Nodes # {}
      BY <3>3, PassedAll, PipelineAssumption
    <3>5. Judged(stages', reader')
      BY <2>1, <3>1, <3>4 DEF Judged
    <3> QED
      BY <3>2, <3>5 DEF CheckOK, Staged
  <2>4. CASE FailsHere("answer") /\ reader' = reader
    BY <1>e, <2>1, <2>2, <2>4
  <2>5. CASE FailsHere("answer") /\ reader' = [reader EXCEPT !.refusals = @ + 1]
    <3>1. reader'.answered = reader.answered /\ reader'.open = reader.open
      BY <1>a, <2>5 DEF Reader
    <3> QED
      BY <1>e, <2>1, <2>2, <2>5, <3>1
  <2> QED
    BY <1>6, <2>3, <2>4, <2>5 DEF CheckAuthorized
<1>7. CASE AnswerCheck \/ AnswerRaises
  BY <1>7, <1>b, <1>c DEF AnswerCheck, AnswerRaises, Staged
<1>8. CASE ReaderFinalised
  <2>1. /\ reader'.open = reader.open /\ reader'.answered = reader.answered
        /\ reader'.refusals = reader.refusals
    BY <1>8, <1>a DEF ReaderFinalised, FinaliseGenerator, Turns, Released, Reader
  <2> QED
    BY <1>8, <2>1, CheckFrame DEF ReaderFinalised
<1>9. CASE Environment
  <2>1. /\ reader'.open = reader.open /\ reader'.answered = reader.answered
        /\ reader'.refusals = reader.refusals
    BY <1>9, <1>a DEF Environment, Move, Rotate, Reader
  <2> QED
    BY <1>9, <2>1, CheckFrame DEF Environment
<1>10. CASE UNCHANGED vars
  BY <1>10, CheckFrame DEF vars
<1> QED
  BY <1>1, <1>2, <1>3, <1>4, <1>5, <1>6, <1>7, <1>8, <1>9, <1>10
  DEF Next, Check

\* The verdict of a connection test names the stage the administrator has to
\* act on: everything before the failure passed, nothing after it was tried,
\* and what passed has opened the session or read a machine (StageRunner).
THEOREM TestTellsTheStage == Spec => []CheckTellsTheStage
<1>1. Init => CheckOK
  BY DEF Init, CheckOK, Staged
<1>2. IInv /\ CheckOK => CheckTellsTheStage
  <2> SUFFICES ASSUME CheckOK, svc.pc = "answer", reader \in Reader
               PROVE  CheckTellsTheStage
    BY DEF CheckTellsTheStage, IInv, ReaderOK, Good
  <2>1. PICK k \in 0..4 : /\ Verdict(stages, k)
                          /\ reader.open <=> k >= 3
                          /\ reader.answered # {} <=> k = 4
                          /\ reader.refusals > 0 => k \in {2, 3}
    BY DEF CheckOK, Judged
  <2>2. Len(stages) = 4 /\ Len(StageNames) = 4
    BY <2>1 DEF Verdict, StageNames
  <2>3. \A i \in 1..4 : /\ stages[i] = "passed" <=> i <= k
                        /\ stages[i] = "failed" <=> i = k + 1
                        /\ stages[i] = "skipped" <=> i > k + 1
    BY <2>1 DEF Verdict
  <2>4. IsUsable <=> k = 4
    BY <2>2, <2>3 DEF IsUsable
  <2> QED
    BY <2>1, <2>2, <2>3, <2>4 DEF CheckTellsTheStage
<1> QED
  BY <1>1, <1>2, CheckStep, Inductive, PTL DEF Spec

-----------------------------------------------------------------------------
(* What a listing gives                                                    *)

\* Fetched and not yet given, or on pages that were not fetched yet.
Left(r) == r.rows \cup r.rest

\* What is left fits the position of the generator.
InStep(r) ==
    /\ r.at \in {"none", "begin"} =>
         /\ r.rows = {} /\ r.rest = {} /\ r.excluded = {}
         /\ \A v \in Vms : r.given[v] = 0
    /\ r.at \in {"walk", "script", "page", "release", "ended"} => r.rows = {}
    /\ r.at \in {"walk", "script"} => r.kind = "hyperv-cluster"
    /\ r.kind # "vcenter" => r.rest = {}
    /\ r.at \notin {"release", "ended", "refused", "dropped"} => r.verdict = "ok"
    /\ r.at = "release" /\ r.verdict = "ok" => r.rest = {}
    /\ r.at = "ended" /\ ~r.outcome.failed => r.rest = {}
    /\ r.rows \cap r.rest = {}

Stayed(r) == Vms \ (r.moved \cup r.excluded)

\* A machine that stays where it is, is given once when its node has answered
\* and it is not left, and is left only when its node has answered.
OnceEach(r, at) ==
    \A v \in Stayed(r) :
      /\ v \in Left(r) => at[v] \in r.answered
      /\ r.given[v] = IF at[v] \in r.answered /\ v \notin Left(r) THEN 1 ELSE 0

GivenOK == /\ InStep(reader)
           /\ reader.at # "none" => OnceEach(reader, home)

SameListing(r, s) ==
    /\ s.kind = r.kind /\ s.rows = r.rows /\ s.rest = r.rest
    /\ s.given = r.given /\ s.excluded = r.excluded
    /\ s.moved = r.moved /\ s.answered = r.answered

LEMMA OnceFrame ==
    ASSUME NEW r, NEW s, NEW at, SameListing(r, s), OnceEach(r, at)
    PROVE  OnceEach(s, at)
BY DEF SameListing, OnceEach, Stayed, Left

\* The walk and the lists of one answer go on without giving anything.
LEMMA EndedListing ==
    ASSUME NEW r \in Reader, NEW failed \in BOOLEAN, NEW error
    PROVE  /\ SameListing(r, Ended(r, failed, error))
           /\ Ended(r, failed, error).at = "ended"
           /\ Ended(r, failed, error).outcome.failed = failed
<1> DEFINE o == [count |-> r.total, failed |-> failed, error |-> error]
<1>1. Ended(r, failed, error) = [r EXCEPT !.at = "ended", !.outcome = o]
  BY DEF Ended
<1>2. o.failed = failed
  OBVIOUS
<1> HIDE DEF o
<1> QED
  BY <1>1, <1>2 DEF Reader, SameListing

LEMMA RefusedListing ==
    ASSUME NEW r \in Reader
    PROVE  SameListing(r, Refused(r)) /\ Refused(r).at = "refused"
BY DEF Refused, Reader, SameListing

\* Nothing is given, and the position fits what is left.
LEMMA GivenFrame ==
    ASSUME GivenOK, UNCHANGED home, SameListing(reader, reader'),
           reader.at # "none", InStep(reader')
    PROVE  GivenOK'
<1>1. OnceEach(reader', home)
  BY OnceFrame DEF GivenOK
<1> QED
  BY <1>1 DEF GivenOK, InStep, OnceEach, Stayed, Left

\* The same for a generator that ends, or is refused.
LEMMA GivenEnds ==
    ASSUME GivenOK, reader \in Reader, UNCHANGED home, reader.at # "none",
           reader.rows = {}, NEW r \in Reader, SameListing(reader, r),
           \/ \E failed \in BOOLEAN : \E error :
                /\ reader' = Ended(r, failed, error)
                /\ failed \/ reader.rest = {}
           \/ reader' = Refused(r)
    PROVE  GivenOK'
<1>1. /\ SameListing(r, reader')
      /\ \/ reader'.at = "ended" /\ (reader'.outcome.failed \/ reader.rest = {})
         \/ reader'.at = "refused"
  BY EndedListing, RefusedListing
<1>2. SameListing(reader, reader')
  BY <1>1 DEF SameListing
<1>3. InStep(reader')
  BY <1>1, <1>2 DEF GivenOK, InStep, SameListing
<1> QED
  BY <1>2, <1>3, GivenFrame

LEMMA GivenWinRm ==
    ASSUME Good(reader, "listing"), AccountOK, svc.pc = "listing", TargetOK,
           GivenOK, WinRmNext
    PROVE  GivenOK'
<1> USE DEF AtWinRm, Becomes
<1>a. /\ reader \in Reader /\ Sound(reader) /\ Accounted(reader)
      /\ reader.at = "begin" => reader.answered = {}
      /\ InStep(reader) /\ UNCHANGED home
  BY DEF Good, AccountOK, Unasked, GivenOK, WinRmNext, target, ResolveNodes,
         ResolveFails, ResolveRefused, OpenNode, OpenNodeRefused, OpenNodeFails,
         ListNode, ListNodeFails, ListNodeRefused, NextNode, EndWalk, ListHost,
         ListScvmm, ListFails, ListRefused, EndList
<1>b. Gone \notin Nodes
  BY PipelineAssumption
<1>c. SameListing(reader, reader)
  BY DEF SameListing
<1>1. CASE ResolveNodes
  <2>1. PICK down \in SUBSET Nodes :
          reader' = [reader EXCEPT !.at = "walk", !.nodes = Nodes \ down,
                                   !.failed = down]
    BY <1>1 DEF ResolveNodes
  <2>2. /\ SameListing(reader, reader') /\ reader'.at = "walk"
        /\ reader'.verdict = reader.verdict
    BY <1>a, <2>1 DEF Reader, SameListing
  <2>3. InStep(reader') /\ reader.at # "none"
    BY <1>1, <1>a, <2>2 DEF ResolveNodes, InStep, SameListing
  <2> QED
    BY <1>a, <2>2, <2>3, GivenFrame
<1>2. CASE ResolveFails \/ ListFails
  BY <1>2, <1>a, <1>c, GivenEnds DEF ResolveFails, ListFails, InStep
<1>3. CASE ResolveRefused \/ ListRefused
  BY <1>3, <1>a, <1>c, GivenEnds DEF ResolveRefused, ListRefused, InStep
<1>4. ASSUME NEW n \in Nodes, OpenNode(n) PROVE GivenOK'
  <2>1. /\ SameListing(reader, reader') /\ reader'.at = "script"
        /\ reader'.verdict = reader.verdict /\ reader.at = "walk"
    BY <1>4, <1>a DEF OpenNode, Reader, SameListing
  <2>2. InStep(reader')
    BY <1>a, <2>1 DEF InStep, SameListing
  <2> QED
    BY <1>a, <2>1, <2>2, GivenFrame
<1>5. ASSUME NEW n \in Nodes, reader' = NodeRefused(reader, n),
             reader.at \in {"walk", "script"}
      PROVE  GivenOK'
  <2> DEFINE r == [reader EXCEPT !.node = NoNode, !.nodes = @ \ {n}]
  <2>1. r \in Reader /\ SameListing(reader, r)
    BY <1>a DEF Reader, NoNode, SameListing
  <2>2. reader' = Refused(r) /\ reader.rows = {} /\ reader.at # "none"
    BY <1>5, <1>a DEF NodeRefused, InStep
  <2> HIDE DEF r
  <2> QED
    BY <1>a, <2>1, <2>2, GivenEnds
<1>6. CASE ListNodeRefused \/ \E n \in Nodes : OpenNodeRefused(n)
  <2>1. reader.at = "script" => reader.node \in Nodes
    BY <1>a DEF Reader, Sound
  <2> QED
    BY <1>5, <1>6, <2>1 DEF ListNodeRefused, OpenNodeRefused
<1>7. ASSUME NEW n, reader' = NodeFailed(reader, n),
             reader.at \in {"walk", "script"}
      PROVE  GivenOK'
  <2>1. /\ SameListing(reader, reader') /\ reader'.at = "walk"
        /\ reader'.verdict = reader.verdict
    BY <1>7, <1>a DEF NodeFailed, Reader, SameListing
  <2>2. InStep(reader')
    BY <1>7, <1>a, <2>1 DEF InStep, SameListing
  <2> QED
    BY <1>7, <1>a, <2>1, <2>2, GivenFrame
<1>8. CASE ListNodeFails \/ \E n \in Nodes : OpenNodeFails(n)
  BY <1>7, <1>8 DEF ListNodeFails, OpenNodeFails
<1>9. CASE ListNode
  <2>1. /\ reader'.rows = On(reader.node) /\ reader'.rest = reader.rest
        /\ reader'.answered = reader.answered \cup {reader.node}
        /\ reader'.given = reader.given /\ reader'.excluded = reader.excluded
        /\ reader'.moved = reader.moved /\ reader'.kind = reader.kind
        /\ reader'.at = "rows" /\ reader'.verdict = reader.verdict
        /\ reader.at = "script"
    BY <1>9, <1>a DEF ListNode, NodeListed, Reader
  <2>2. /\ reader.rows = {} /\ reader.rest = {} /\ reader.verdict = "ok"
        /\ reader.kind = "hyperv-cluster"
    BY <1>a, <2>1 DEF InStep
  <2>3. reader.node \notin reader.answered
    BY <1>a, <2>1, <2>2 DEF Accounted, Divided
  <2>4. InStep(reader')
    BY <2>1, <2>2 DEF InStep
  <2>5. OnceEach(reader, home)
    BY <2>1 DEF GivenOK
  <2>6. OnceEach(reader', home)
    <3> SUFFICES ASSUME NEW v \in Stayed(reader)
                 PROVE  /\ v \in On(reader.node) =>
                             home[v] \in reader.answered \cup {reader.node}
                        /\ reader.given[v] =
                             IF /\ home[v] \in reader.answered \cup {reader.node}
                                /\ v \notin On(reader.node)
                             THEN 1 ELSE 0
      BY <2>1, <2>2 DEF OnceEach, Stayed, Left
    <3>1. reader.given[v] = IF home[v] \in reader.answered THEN 1 ELSE 0
      BY <2>2, <2>5 DEF OnceEach, Left
    <3>2. v \in On(reader.node) <=> home[v] = reader.node
      BY DEF On, Stayed
    <3> QED
      BY <2>3, <3>1, <3>2
  <2> QED
    BY <1>a, <2>4, <2>6 DEF GivenOK, InStep, OnceEach, Stayed, Left
<1>10. CASE NextNode
  <2>1. /\ SameListing(reader, reader') /\ reader'.at = "walk"
        /\ reader'.verdict = reader.verdict /\ reader.at = "rows"
        /\ reader.rows = {} /\ reader.kind = "hyperv-cluster"
    BY <1>10, <1>a DEF NextNode, Reader, SameListing
  <2>2. InStep(reader')
    BY <1>a, <2>1 DEF InStep, SameListing
  <2> QED
    BY <1>a, <2>1, <2>2, GivenFrame
<1>11. CASE EndWalk \/ EndList
  <2>1. reader.rows = {} /\ reader.rest = {} /\ reader.at # "none"
    BY <1>11, <1>a DEF EndWalk, EndList, InStep, WinRm
  <2>2. (reader.failed # {} /\ reader.total = 0) \in BOOLEAN
    OBVIOUS
  <2> QED
    BY <1>11, <1>a, <1>c, <2>1, <2>2, GivenEnds DEF EndWalk, EndList
<1>12. CASE ListHost
  <2>1. /\ reader'.rows = On(Host) /\ reader'.rest = reader.rest
        /\ reader'.answered = {Host}
        /\ reader'.given = reader.given /\ reader'.excluded = reader.excluded
        /\ reader'.moved = reader.moved /\ reader'.kind = reader.kind
        /\ reader'.at = "rows" /\ reader'.verdict = reader.verdict
        /\ reader.at = "begin"
    BY <1>12, <1>a DEF ListHost, Reader
  <2>2. /\ reader.rest = {} /\ reader.verdict = "ok"
        /\ \A v \in Vms : reader.given[v] = 0
    BY <1>a, <2>1 DEF InStep
  <2>3. InStep(reader')
    BY <2>1, <2>2 DEF InStep
  <2>4. OnceEach(reader', home)
    BY <2>1, <2>2 DEF OnceEach, Stayed, Left, On
  <2> QED
    BY <1>a, <2>3, <2>4 DEF GivenOK, InStep, OnceEach, Stayed, Left
<1>13. CASE ListScvmm
  <2>1. PICK noId \in SUBSET Registered :
          reader' = [reader EXCEPT !.at = "rows", !.rows = Registered \ noId,
                                   !.excluded = noId, !.answered = Nodes]
    BY <1>13 DEF ListScvmm
  <2>2. /\ reader'.rows = Registered \ noId /\ reader'.rest = reader.rest
        /\ reader'.answered = Nodes
        /\ reader'.given = reader.given /\ reader'.excluded = noId
        /\ reader'.moved = reader.moved /\ reader'.kind = reader.kind
        /\ reader'.at = "rows" /\ reader'.verdict = reader.verdict
    BY <1>a, <2>1 DEF Reader
  <2>3. /\ reader.rest = {} /\ reader.verdict = "ok"
        /\ \A v \in Vms : reader.given[v] = 0
    BY <1>13, <1>a DEF ListScvmm, InStep
  <2>4. InStep(reader')
    BY <2>2, <2>3 DEF InStep
  <2>5. \A v \in Vms : v \in Registered <=> home[v] \in Nodes
    BY <1>b DEF Registered, TargetOK
  <2>6. OnceEach(reader', home)
    BY <2>2, <2>3, <2>5 DEF OnceEach, Stayed, Left
  <2> QED
    BY <1>a, <2>4, <2>6 DEF GivenOK, InStep, OnceEach, Stayed, Left
<1> QED
  BY <1>1, <1>2, <1>3, <1>4, <1>6, <1>8, <1>9, <1>10, <1>11, <1>12, <1>13
  DEF WinRmNext

LEMMA GivenVCenter ==
    ASSUME Good(reader, "listing"), AccountOK, svc.pc = "listing", TargetOK,
           GivenOK, VCenterNext
    PROVE  GivenOK'
<1> USE DEF AtVCenter, Turns
<1>a. /\ reader \in Reader
      /\ reader.at = "begin" => reader.answered = {}
      /\ InStep(reader) /\ UNCHANGED home
      /\ reader.verdict \in {"ok", "failed", "refused"}
  BY DEF Good, AccountOK, Unasked, GivenOK, VCenterNext, target, CreateView,
         CreateViewFails, RetrievePage, RetrieveFails, RetrieveRefused,
         NextPage, AfterRows, ReleaseView, Reader
<1>b. Gone \notin Nodes
  BY PipelineAssumption
<1>c. SameListing(reader, reader)
  BY DEF SameListing
<1>1. CASE CreateView
  <2>1. /\ reader'.rows = reader.rows /\ reader'.rest = Registered
        /\ reader'.answered = Nodes /\ reader'.kind = "vcenter"
        /\ reader'.given = reader.given /\ reader'.excluded = reader.excluded
        /\ reader'.moved = reader.moved /\ reader'.at = "page"
        /\ reader'.verdict = reader.verdict /\ reader.at = "begin"
    BY <1>1, <1>a DEF CreateView, Reader
  <2>2. /\ reader.rows = {} /\ reader.verdict = "ok"
        /\ \A v \in Vms : reader.given[v] = 0
    BY <1>a, <2>1 DEF InStep
  <2>3. InStep(reader')
    BY <2>1, <2>2 DEF InStep
  <2>4. \A v \in Vms : v \in Registered <=> home[v] \in Nodes
    BY <1>b DEF Registered, TargetOK
  <2>5. OnceEach(reader', home)
    BY <2>1, <2>2, <2>4 DEF OnceEach, Stayed, Left
  <2> QED
    BY <1>a, <2>3, <2>5 DEF GivenOK, InStep, OnceEach, Stayed, Left
<1>2. CASE CreateViewFails
  <2>1. /\ reader' = Ended(reader, TRUE, "reason") /\ reader.at = "begin"
        /\ reader.rows = {}
    BY <1>2, <1>a DEF CreateViewFails, InStep
  <2>2. \E failed \in BOOLEAN : \E error :
           /\ reader' = Ended(reader, failed, error)
           /\ failed \/ reader.rest = {}
    BY <2>1
  <2> QED
    BY <1>a, <1>c, <2>1, <2>2, GivenEnds
<1>3. ASSUME NEW page, RetrievePage(page) PROVE GivenOK'
  <2>1. /\ reader'.rows = page /\ reader'.rest = reader.rest \ page
        /\ reader'.answered = reader.answered /\ reader'.kind = reader.kind
        /\ reader'.given = reader.given /\ reader'.excluded = reader.excluded
        /\ reader'.moved = reader.moved /\ reader'.at = "rows"
        /\ reader'.verdict = reader.verdict /\ reader.at = "page"
        /\ page \subseteq reader.rest /\ reader.kind = "vcenter"
    BY <1>3, <1>a DEF RetrievePage, Reader
  <2>2. reader.rows = {} /\ reader.verdict = "ok" /\ OnceEach(reader, home)
    BY <1>a, <2>1 DEF InStep, GivenOK
  <2>3. InStep(reader')
    BY <2>1, <2>2 DEF InStep
  <2>4. Left(reader') = Left(reader) /\ Stayed(reader') = Stayed(reader)
    BY <2>1, <2>2 DEF Left, Stayed
  <2>5. OnceEach(reader', home)
    BY <2>1, <2>2, <2>4 DEF OnceEach
  <2> QED
    BY <1>a, <2>3, <2>5 DEF GivenOK, InStep, OnceEach, Stayed, Left
<1>4. CASE RetrieveFails \/ RetrieveRefused
  <2>1. PICK verdict \in {"failed", "refused"} :
          reader' = [reader EXCEPT !.at = "release", !.verdict = verdict]
    BY <1>4 DEF RetrieveFails, RetrieveRefused
  <2>2. /\ SameListing(reader, reader') /\ reader'.at = "release"
        /\ reader'.verdict # "ok" /\ reader.at = "page"
    BY <1>4, <1>a, <2>1 DEF RetrieveFails, RetrieveRefused, Reader, SameListing
  <2>3. InStep(reader')
    BY <1>a, <2>2 DEF InStep, SameListing
  <2> QED
    BY <1>a, <2>2, <2>3, GivenFrame
<1>5. CASE NextPage
  <2> DEFINE to == IF reader.rest = {} THEN "release" ELSE "page"
  <2>1. /\ reader' = [reader EXCEPT !.at = to] /\ reader.kind = "vcenter"
        /\ reader.at = "rows" /\ reader.rows = {}
    BY <1>5 DEF NextPage, AfterRows
  <2>2. to = "page" \/ (to = "release" /\ reader.rest = {})
    BY SMT
  <2> HIDE DEF to
  <2>3. /\ SameListing(reader, reader') /\ reader'.at = to
        /\ reader'.verdict = reader.verdict
    BY <1>a, <2>1 DEF Reader, SameListing
  <2>4. InStep(reader')
    BY <1>a, <2>1, <2>2, <2>3 DEF InStep, SameListing
  <2> QED
    BY <1>a, <2>1, <2>3, <2>4, GivenFrame
<1>6. CASE ReleaseView
  <2> DEFINE r == Released(reader)
  <2>1. r \in Reader /\ SameListing(reader, r)
    <3>1. r = [reader EXCEPT !.view = FALSE]
      BY DEF Released
    <3> HIDE DEF r
    <3>2. /\ r \in Reader /\ r.kind = reader.kind /\ r.rows = reader.rows
          /\ r.rest = reader.rest /\ r.given = reader.given
          /\ r.excluded = reader.excluded /\ r.moved = reader.moved
          /\ r.answered = reader.answered
      BY <1>a, <3>1 DEF Reader
    <3> QED
      BY <3>2 DEF SameListing
  <2>2. \/ reader.verdict = "ok" /\ reader' = Ended(r, FALSE, "none")
        \/ reader' = Ended(r, TRUE, "reason")
        \/ reader' = Refused(r)
    BY <1>6, <1>a DEF ReleaseView
  <2>3. /\ reader.rows = {} /\ reader.at # "none"
        /\ reader.verdict = "ok" => reader.rest = {}
    BY <1>6, <1>a DEF ReleaseView, InStep
  <2> HIDE DEF r
  <2>4. \/ \E failed \in BOOLEAN : \E error :
             /\ reader' = Ended(r, failed, error)
             /\ failed \/ reader.rest = {}
        \/ reader' = Refused(r)
    BY <2>2, <2>3
  <2> QED
    BY <1>a, <2>1, <2>3, <2>4, GivenEnds
<1> QED
  BY <1>1, <1>2, <1>3, <1>4, <1>5, <1>6 DEF VCenterNext

LEMMA GivenYield ==
    ASSUME reader \in Reader, GivenOK, NEW v \in Vms, Yield(v)
    PROVE  GivenOK'
<1>1. /\ reader'.rows = reader.rows \ {v} /\ reader'.rest = reader.rest
      /\ reader'.answered = reader.answered /\ reader'.kind = reader.kind
      /\ reader'.given = [reader.given EXCEPT ![v] = @ + 1]
      /\ reader'.excluded = reader.excluded /\ reader'.moved = reader.moved
      /\ reader'.at = "rows" /\ reader.at = "rows"
      /\ reader'.verdict = reader.verdict /\ v \in reader.rows
      /\ UNCHANGED home
  BY DEF Yield, Counted, Reader, target
<1>2. InStep(reader) /\ OnceEach(reader, home)
  BY <1>1 DEF GivenOK
<1>3. InStep(reader')
  BY <1>1, <1>2 DEF InStep
<1>4. ASSUME NEW w \in Stayed(reader')
      PROVE  /\ w \in Left(reader') => home[w] \in reader'.answered
             /\ reader'.given[w] =
                  IF home[w] \in reader'.answered /\ w \notin Left(reader')
                  THEN 1 ELSE 0
  <2>1. w \in Stayed(reader) /\ w \in Vms /\ reader.given \in [Vms -> Nat]
    BY <1>1 DEF Stayed, Reader
  <2>2. /\ w \in Left(reader) => home[w] \in reader.answered
        /\ reader.given[w] =
             IF home[w] \in reader.answered /\ w \notin Left(reader)
             THEN 1 ELSE 0
    BY <1>2, <2>1 DEF OnceEach
  <2>3. CASE w = v
    <3>1. w \in Left(reader) /\ w \notin Left(reader')
      BY <1>1, <1>2, <2>3 DEF Left, InStep
    <3>2. reader'.given[w] = reader.given[w] + 1
      BY <1>1, <2>1, <2>3
    <3> QED
      BY <1>1, <2>2, <3>1, <3>2
  <2>4. CASE w # v
    <3>1. w \in Left(reader) <=> w \in Left(reader')
      BY <1>1, <2>4 DEF Left
    <3>2. reader'.given[w] = reader.given[w]
      BY <1>1, <2>1, <2>4
    <3> QED
      BY <1>1, <2>2, <3>1, <3>2
  <2> QED
    BY <2>3, <2>4
<1>5. OnceEach(reader', home)
  BY <1>4 DEF OnceEach
<1> QED
  BY <1>1, <1>3, <1>5 DEF GivenOK, InStep, OnceEach, Stayed, Left

\* What the generator holds and where it is stay as they are.
LEMMA GivenKept ==
    ASSUME GivenOK, UNCHANGED home, SameListing(reader, reader'),
           reader'.at = reader.at, reader'.verdict = reader.verdict,
           reader'.outcome = reader.outcome
    PROVE  GivenOK'
<1>1. InStep(reader')
  BY DEF GivenOK, InStep, SameListing
<1>2. reader.at # "none" => OnceEach(reader', home)
  BY OnceFrame DEF GivenOK
<1> QED
  BY <1>1, <1>2 DEF GivenOK, InStep, OnceEach, Stayed, Left

LEMMA GivenMove ==
    ASSUME reader \in Reader, TargetOK, GivenOK,
           NEW v \in Vms, NEW n, Move(v, n)
    PROVE  GivenOK'
<1>1. /\ reader'.moved = reader.moved \cup {v} /\ reader'.at = reader.at
      /\ reader'.kind = reader.kind /\ reader'.rows = reader.rows
      /\ reader'.rest = reader.rest /\ reader'.given = reader.given
      /\ reader'.excluded = reader.excluded /\ reader'.answered = reader.answered
      /\ reader'.verdict = reader.verdict /\ reader'.outcome = reader.outcome
      /\ \A w \in Vms : w # v => home'[w] = home[w]
  BY DEF Move, Reader, TargetOK
<1>2. InStep(reader')
  BY <1>1 DEF GivenOK, InStep
<1>3. ASSUME reader.at # "none" PROVE OnceEach(reader', home')
  <2>1. OnceEach(reader, home)
    BY <1>3 DEF GivenOK
  <2>2. Left(reader') = Left(reader)
        /\ \A w \in Stayed(reader') : w \in Stayed(reader) /\ home'[w] = home[w]
    BY <1>1 DEF Left, Stayed
  <2> QED
    BY <1>1, <2>1, <2>2 DEF OnceEach
<1> QED
  BY <1>1, <1>2, <1>3 DEF GivenOK, InStep, OnceEach, Stayed, Left

LEMMA GivenStep == IInv /\ AccountOK /\ GivenOK /\ [Next]_vars => GivenOK'
<1> SUFFICES ASSUME IInv, AccountOK, GivenOK, [Next]_vars PROVE GivenOK'
  OBVIOUS
<1>a. /\ Good(reader, svc.pc) /\ reader \in Reader /\ TargetOK
      /\ Unasked(reader, svc.pc)
  BY DEF IInv, ReaderOK, Good, AccountOK
<1>b. ASSUME reader' = reader, UNCHANGED home PROVE GivenOK'
  BY <1>b, GivenKept DEF SameListing
<1>1. ASSUME NEW pc, StartJob(pc) PROVE GivenOK'
  <2>1. /\ reader'.rows = {} /\ reader'.rest = {} /\ reader'.excluded = {}
        /\ reader'.at = "none" /\ \A v \in Vms : reader'.given[v] = 0
        /\ reader'.verdict = "ok"
    BY <1>1 DEF StartJob, NewReader
  <2>2. InStep(reader')
    BY <2>1 DEF InStep
  <2> QED
    BY <2>1, <2>2 DEF GivenOK, InStep
<1>2. CASE StartCollect \/ StartCheck
  BY <1>1, <1>2 DEF StartCollect, StartCheck
<1>3. ASSUME StartSession \/ StartRefused \/ CloseSession
      PROVE  GivenOK'
  <2>1. CASE StartSession
    BY <1>a, <2>1, GivenKept DEF StartSession, SameListing, Reader, target
  <2>2. CASE StartRefused
    BY <1>a, <2>2, GivenKept DEF StartRefused, SameListing, Reader, target
  <2>3. CASE CloseSession
    BY <1>a, <2>3, GivenKept DEF CloseSession, SameListing, Reader, target
  <2> QED
    BY <1>3, <2>1, <2>2, <2>3
<1>4. CASE Connect \/ ConnectRefused \/ Close \/ AnswerCheck \/ AnswerRaises
  BY <1>3, <1>4 DEF Connect, ConnectRefused, Close, AnswerCheck, AnswerRaises
<1>5. CASE \/ ConnectFails \/ StreamRefused \/ EndOfStream \/ BatchWritten
           \/ UpsertKnown \/ UpsertNew \/ Commit \/ CommitFails \/ Rollback
           \/ CheckReachable \/ CheckTls
  BY <1>5, <1>b
  DEF ConnectFails, StreamRefused, EndOfStream, BatchWritten, UpsertKnown,
      UpsertNew, Commit, CommitFails, Rollback, CheckReachable, CheckTls,
      target
<1>6. CASE BeginListing
  <2>1. /\ reader'.rows = reader.rows /\ reader'.rest = reader.rest
        /\ reader'.excluded = reader.excluded /\ reader'.given = reader.given
        /\ reader'.answered = reader.answered /\ reader'.kind = reader.kind
        /\ reader'.at = "begin" /\ reader.at = "none"
        /\ reader'.verdict = reader.verdict /\ UNCHANGED home
        /\ svc.pc = "listing"
    BY <1>6, <1>a DEF BeginListing, Begin, Reader, target
  <2>2. /\ InStep(reader) /\ reader.answered = {}
        /\ \A v \in Vms : reader.given[v] = 0
    BY <1>a, <2>1 DEF GivenOK, InStep, Unasked
  <2>3. InStep(reader')
    BY <2>1, <2>2 DEF InStep
  <2>4. OnceEach(reader', home)
    BY <2>1, <2>2 DEF OnceEach, Stayed, Left, InStep
  <2> QED
    BY <2>1, <2>3, <2>4 DEF GivenOK, InStep, OnceEach, Stayed, Left
<1>7. CASE ReaderAdvances
  BY <1>7, <1>a, GivenWinRm, GivenVCenter DEF ReaderAdvances
<1>8. ASSUME NEW v \in Vms, Deliver(v) PROVE GivenOK'
  BY <1>8, <1>a, GivenYield DEF Deliver
<1>9. CASE WriteFails
  <2>1. CASE reader.at = "ended"
    BY <1>9, <1>b, <2>1 DEF WriteFails, target
  <2>2. CASE reader.at # "ended"
    <3>1. reader.at = "rows"
      BY <1>9, <1>a, <2>2 DEF WriteFails, Good, InPhase
    <3>2. /\ SameListing(reader, reader') /\ reader'.at = "dropped"
          /\ UNCHANGED home
      BY <1>9, <1>a, <2>2 DEF WriteFails, Dropped, SameListing, Reader, target
    <3>3. InStep(reader')
      BY <3>1, <3>2 DEF GivenOK, InStep, SameListing
    <3> QED
      BY <3>1, <3>2, <3>3, GivenFrame
  <2> QED
    BY <2>1, <2>2
<1>10. CASE CheckAuth
  BY <1>10, <1>3, <1>b DEF CheckAuth, target
<1>11. CASE CheckAuthorized
  <2>1. reader.at = "none" /\ UNCHANGED home
    BY <1>11, <1>a DEF CheckAuthorized, Good, InPhase, Fresh, target
  <2>2. CASE reader' = reader
    BY <1>b, <2>1, <2>2
  <2>3. CASE reader' = Probed
    <3> DEFINE view == reader.kind = "vcenter" /\ Registered # {}
    <3>1. reader' = [reader EXCEPT !.answered = Nodes, !.view = view]
      BY <2>3 DEF Probed
    <3> HIDE DEF view
    <3>2. /\ reader'.rows = reader.rows /\ reader'.rest = reader.rest
          /\ reader'.excluded = reader.excluded /\ reader'.given = reader.given
          /\ reader'.kind = reader.kind /\ reader'.at = reader.at
          /\ reader'.verdict = reader.verdict
      BY <1>a, <3>1 DEF Reader
    <3>3. InStep(reader')
      BY <2>1, <3>2 DEF GivenOK, InStep
    <3> QED
      BY <2>1, <3>2, <3>3 DEF GivenOK, InStep
  <2>4. CASE reader' = [reader EXCEPT !.refusals = @ + 1]
    BY <1>a, <2>1, <2>4, GivenKept DEF SameListing, Reader
  <2> QED
    BY <1>11, <2>2, <2>3, <2>4 DEF CheckAuthorized
<1>12. CASE ReaderFinalised
  BY <1>12, <1>a, GivenKept
  DEF ReaderFinalised, FinaliseGenerator, Turns, Released, SameListing, Reader,
      target
<1>13. CASE Environment
  <2>1. CASE Rotate
    BY <1>b, <2>1 DEF Rotate
  <2>2. CASE \E v \in Vms, n \in Nodes \cup {Gone} : Move(v, n)
    BY <1>a, <2>2, GivenMove
  <2> QED
    BY <1>13, <2>1, <2>2 DEF Environment
<1>14. CASE UNCHANGED vars
  BY <1>14, <1>b DEF vars, target
<1> QED
  BY <1>2, <1>4, <1>5, <1>6, <1>7, <1>8, <1>9, <1>10, <1>11, <1>12, <1>13,
     <1>14
  DEF Next, Collect, Check

LEMMA GivenInit == Init => GivenOK
<1> SUFFICES ASSUME Init PROVE GivenOK
  OBVIOUS
<1>1. PICK k \in Kinds : reader = NewReader(k)
  BY DEF Init
<1>2. /\ reader.rows = {} /\ reader.rest = {} /\ reader.excluded = {}
      /\ reader.at = "none" /\ \A v \in Vms : reader.given[v] = 0
      /\ reader.verdict = "ok"
  BY <1>1 DEF NewReader
<1> QED
  BY <1>2 DEF GivenOK, InStep

\* A machine that did not move while the listing ran is given once when its
\* node answered, and not at all when it did not: pages and nodes neither
\* overlap nor leave a machine out, whatever else moves meanwhile.
THEOREM SettledListedOnce == Spec => []SettledVmListedOnce
<1>1. IInv /\ GivenOK => SettledVmListedOnce
  <2> SUFFICES ASSUME reader \in Reader, GivenOK, reader.at = "ended",
                      NEW v \in Vms \ (reader.moved \cup reader.excluded)
               PROVE  IF home[v] \in reader.answered
                      THEN /\ reader.given[v] <= 1
                           /\ ~reader.outcome.failed => reader.given[v] = 1
                      ELSE reader.given[v] = 0
    BY DEF SettledVmListedOnce, IInv, ReaderOK, Good
  <2>1. /\ reader.given[v] = IF home[v] \in reader.answered /\ v \notin Left(reader)
                             THEN 1 ELSE 0
    BY DEF GivenOK, OnceEach, Stayed
  <2>2. ~reader.outcome.failed => v \notin Left(reader)
    BY DEF GivenOK, InStep, Left
  <2> QED
    BY <2>1, <2>2
<1>2. IInv /\ AccountOK /\ GivenOK /\ [Next]_vars => AccountOK' /\ GivenOK'
  BY AccountStep, GivenStep
<1> QED
  BY <1>1, <1>2, AccountInit, GivenInit, Inductive, PTL DEF Spec

-----------------------------------------------------------------------------
(* Readings of guests and times of rows                                    *)

\* Guest values as a collection reads them: its own, or none.
Reads(guest, now) == /\ OneReading(guest)
                     /\ guest.at \in {0, now}
                     /\ guest.available => guest.at = now

Readings(now) == {vm \in Observation : Reads(vm.guest, now)}

Follows(guest, previous) == \/ Values(guest) = Values(previous)
                            \/ guest.at > previous.at

Dated(row, now) == /\ OneReading(row.guest)
                   /\ row.guest.at <= now /\ row.seen <= now

\* A row of the transaction and the committed row it began as.
Fits(row, old, now) ==
    /\ row # NoRow => Dated(row, now)
    /\ old # NoRow => /\ Dated(old, now)
                      /\ row # NoRow
                      /\ Follows(row.guest, old.guest)

Earlier(old, now) == old # NoRow => old.guest.at < now /\ old.seen < now

\* A job has a time of its own, later than any committed row; what it reads
\* is of that time.
TimesOK ==
    /\ svc.pc # "idle" => svc.now > 0
    /\ svc.batch \in Seq(Readings(svc.now))
    /\ \A i \in Ids : /\ Fits(tx.rows[i], stored.rows[i], svc.now)
                      /\ svc.pc # "idle" => Earlier(stored.rows[i], svc.now)

LEMMA MapGuestReads ==
    ASSUME NEW kind, NEW report, NEW now \in Nat, now > 0
    PROVE  Reads(MapGuest(kind, report, now), now)
<1>1. /\ Reads(NoGuest, now)
      /\ \A os, host \in {0, now} : Reads(GuestOf(os, host, now), now)
  BY DEF Reads, OneReading, NoGuest, GuestOf
<1>2. \A what : Reading(report, what, now) \in {0, now}
  BY DEF Reading
<1> QED
  BY <1>1, <1>2 DEF MapGuest, VCenterGuest, ScvmmGuest, HostGuest

LEMMA FallbackReads ==
    ASSUME NEW guest \in Guest, NEW previous \in Guest, NEW now \in Nat,
           Reads(guest, now), OneReading(previous), previous.at <= now,
           NEW g, g = WithFallback(guest, previous)
    PROVE  /\ g \in Guest /\ OneReading(g) /\ g.at <= now
           /\ \/ Values(g) = Values(previous)
              \/ g.at = now
<1>1. CASE guest.available
  BY <1>1 DEF WithFallback, Reads, Guest
<1>2. CASE ~guest.available
  BY <1>2 DEF WithFallback, Reads, Guest, OneReading, Values
<1> QED
  BY <1>1, <1>2

LEMMA TimesFrame ==
    ASSUME TimesOK, UNCHANGED <<stored, tx>>, svc'.now = svc.now,
           svc'.batch \in Seq(Readings(svc.now)),
           svc'.pc # "idle" => svc.pc # "idle"
    PROVE  TimesOK'
BY DEF TimesOK

LEMMA MergedFits ==
    ASSUME NEW row \in VmRow, NEW old \in VmRow \cup {NoRow}, NEW now \in Nat,
           NEW guest \in Guest, Reads(guest, now),
           Fits(row, old, now), Earlier(old, now), row # NoRow
    PROVE  Fits(Merged(row, guest, now), old, now)
<1> DEFINE g == WithFallback(guest, row.guest)
           m == Merged(row, guest, now)
<1>1. row.guest \in Guest /\ OneReading(row.guest) /\ row.guest.at <= now
  BY DEF VmRow, Fits, Dated
<1>2. /\ g \in Guest /\ OneReading(g) /\ g.at <= now
      /\ Values(g) = Values(row.guest) \/ g.at = now
  BY <1>1, FallbackReads
<1>3. m = [row EXCEPT !.seen = now, !.guest = g]
  BY DEF Merged
<1> HIDE DEF g, m
<1>4. m \in VmRow /\ m.seen = now /\ m.guest = g
  BY <1>2, <1>3 DEF VmRow
<1>5. m # NoRow /\ Dated(m, now)
  BY <1>2, <1>4, PipelineAssumption DEF Dated
<1>6. ASSUME old # NoRow PROVE Follows(g, old.guest)
  <2>1. Follows(row.guest, old.guest) /\ old.guest.at < now
    BY <1>6 DEF Fits, Earlier
  <2>2. CASE g.at = now
    BY <2>1, <2>2 DEF Follows
  <2>3. CASE Values(g) = Values(row.guest)
    <3>1. g.at = row.guest.at
      BY <2>3 DEF Values
    <3> QED
      BY <2>1, <2>3, <3>1 DEF Follows
  <2> QED
    BY <1>2, <2>2, <2>3
<1>7. Fits(m, old, now)
  BY <1>4, <1>5, <1>6 DEF Fits
<1> QED
  BY <1>7 DEF m

\* What a collection writes is as new as the collection, or as it was.
LEMMA UpsertFits ==
    ASSUME DataOK, TimesOK, svc.pc = "flush", svc.batch # << >>,
           UpdateVm(Head(svc.batch), svc.now) \/ InsertVm(Head(svc.batch), svc.now)
    PROVE  \A i \in Ids : Fits(tx'.rows[i], stored.rows[i], svc.now)
<1> DEFINE vm == Head(svc.batch)
           now == svc.now
<1>1. vm \in Readings(now)
  BY DEF TimesOK
<1>2. /\ vm \in Observation /\ vm.guest \in Guest /\ Reads(vm.guest, now)
      /\ vm.native \in Natives /\ now \in Nat
      /\ tx.rows \in [Ids -> VmRow \cup {NoRow}]
      /\ stored.rows \in [Ids -> VmRow \cup {NoRow}]
  BY <1>1 DEF Readings, Observation, DataOK, Service, Tables
<1>3. \A i \in Ids : /\ Fits(tx.rows[i], stored.rows[i], now)
                     /\ Earlier(stored.rows[i], now)
  BY DEF TimesOK
<1> HIDE DEF vm, now
<1>4. CASE UpdateVm(vm, now)
  <2>1. PICK i \in Ids :
          /\ tx.rows[i] # NoRow
          /\ tx' = [rows |-> [tx.rows EXCEPT ![i] = Merged(@, vm.guest, now)],
                    idents |-> SyncIdentities(tx, i, vm.native)]
    BY <1>4 DEF UpdateVm
  <2>2. Fits(Merged(tx.rows[i], vm.guest, now), stored.rows[i], now)
    BY <1>2, <1>3, <2>1, MergedFits
  <2>3. \A j \in Ids : tx'.rows[j] = IF j = i THEN Merged(tx.rows[i], vm.guest, now)
                                     ELSE tx.rows[j]
    BY <1>2, <2>1
  <2> QED
    BY <1>3, <2>2, <2>3 DEF now
<1>5. CASE InsertVm(vm, now)
  <2> DEFINE row == [native |-> vm.native, seen |-> now, guest |-> vm.guest]
  <2>1. PICK i \in Unused(tx) :
          tx' = [rows |-> [tx.rows EXCEPT ![i] = row],
                 idents |-> SyncIdentities(tx, i, vm.native)]
    BY <1>5 DEF InsertVm
  <2>2. i \in Ids /\ tx.rows[i] = NoRow
    BY <2>1 DEF Unused
  <2>3. row \in VmRow /\ Dated(row, now)
    BY <1>2 DEF VmRow, Dated, Reads, OneReading
  <2>4. row # NoRow /\ stored.rows[i] = NoRow
    BY <1>3, <2>2, <2>3, PipelineAssumption DEF Fits
  <2> HIDE DEF row
  <2>5. \A j \in Ids : tx'.rows[j] = IF j = i THEN row ELSE tx.rows[j]
    BY <1>2, <2>1
  <2>6. Fits(row, stored.rows[i], now)
    BY <2>3, <2>4 DEF Fits
  <2> QED
    BY <1>3, <2>5, <2>6 DEF now
<1> QED
  BY <1>4, <1>5 DEF vm, now

LEMMA TimesStep == DataOK /\ TimesOK /\ [Next]_vars => TimesOK'
<1> SUFFICES ASSUME DataOK, TimesOK, [Next]_vars PROVE TimesOK'
  OBVIOUS
<1>a. /\ svc \in Service /\ svc.now \in Nat
      /\ stored \in Tables /\ tx \in Tables
      /\ svc.batch \in Seq(Readings(svc.now))
  BY DEF DataOK, Service, TimesOK
<1>b. ASSUME NEW pc, Goes(pc)
      PROVE  svc'.pc = pc /\ svc'.now = svc.now /\ svc'.batch = svc.batch
  BY <1>b, <1>a DEF Goes, Service
<1>c. ASSUME NEW pc, NEW f, Results(pc, f)
      PROVE  svc'.pc = pc /\ svc'.now = svc.now /\ svc'.batch = svc.batch
  BY <1>c, <1>a DEF Results, Service
<1>d. << >> \in Seq(Readings(svc.now))
  OBVIOUS
<1>1. ASSUME NEW pc, StartJob(pc), tx' = stored PROVE TimesOK'
  <2>1. /\ svc'.now = svc.now + 1 /\ svc'.batch = << >> /\ stored' = stored
        /\ tx' = stored
    BY <1>1 DEF StartJob
  <2>2. << >> \in Seq(Readings(svc.now + 1))
    OBVIOUS
  <2>3. ASSUME NEW i \in Ids
        PROVE  /\ Fits(stored.rows[i], stored.rows[i], svc.now + 1)
               /\ Earlier(stored.rows[i], svc.now + 1)
    <3>1. stored.rows[i] \in VmRow \cup {NoRow}
      BY <1>a DEF Tables
    <3>2. stored.rows[i] # NoRow => Dated(stored.rows[i], svc.now)
      BY DEF TimesOK, Fits
    <3> QED
      BY <1>a, <3>1, <3>2
      DEF Fits, Earlier, Dated, Follows, VmRow, Guest
  <2> QED
    BY <1>a, <2>1, <2>2, <2>3 DEF TimesOK
<1>2. CASE StartCollect \/ StartCheck
  BY <1>1, <1>2 DEF StartCollect, StartCheck
<1>3. CASE \/ Connect \/ ConnectRefused \/ ConnectFails \/ EndOfStream
           \/ BatchWritten \/ CommitFails \/ AnswerCheck \/ AnswerRaises
  BY <1>3, <1>a, <1>b, <1>c, TimesFrame
  DEF Connect, ConnectRefused, ConnectFails, EndOfStream, LastBatch,
      BatchWritten, CommitFails, AnswerCheck, AnswerRaises
<1>4. CASE CheckReachable \/ CheckTls \/ CheckAuth \/ CheckAuthorized
  BY <1>4, <1>a, <1>b, TimesFrame
  DEF CheckReachable, CheckTls, CheckAuth, CheckAuthorized, Passes, FailsHere
<1>5. CASE \/ BeginListing \/ ReaderAdvances \/ ReaderFinalised \/ Environment
           \/ UNCHANGED vars
  BY <1>5, <1>a, TimesFrame
  DEF BeginListing, ReaderAdvances, ReaderFinalised, Environment, vars
<1>6. ASSUME NEW v \in Vms, Deliver(v) PROVE TimesOK'
  <2>1. PICK native \in NativeIds(v), report \in Reports :
          LET vm == [native |-> native,
                     guest |-> MapGuest(reader.kind, report, svc.now)]
              batch == Append(svc.batch, vm)
          IN svc' = [svc EXCEPT
               !.batch = batch,
               !.pc = IF Len(batch) >= BatchSize THEN "flush" ELSE "listing"]
    BY <1>6 DEF Deliver
  <2> DEFINE vm == [native |-> native,
                    guest |-> MapGuest(reader.kind, report, svc.now)]
             batch == Append(svc.batch, vm)
             pc == IF Len(batch) >= BatchSize THEN "flush" ELSE "listing"
  <2>2. svc.pc = "listing" /\ svc.now > 0 /\ UNCHANGED <<stored, tx>>
    BY <1>6 DEF Deliver, TimesOK
  <2>3. native \in Natives
    BY PipelineAssumption DEF NativeIds
  <2>4. vm \in Readings(svc.now)
    BY <1>a, <2>2, <2>3, MapGuestTyped, MapGuestReads
    DEF Readings, Observation
  <2>5. svc' = [svc EXCEPT !.batch = batch, !.pc = pc]
    BY <2>1
  <2>6. pc # "idle"
    OBVIOUS
  <2> HIDE DEF vm, pc
  <2>7. batch \in Seq(Readings(svc.now))
    BY <1>a, <2>4
  <2> HIDE DEF batch
  <2>8. svc'.batch = batch /\ svc'.now = svc.now /\ svc'.pc = pc
    BY <1>a, <2>5 DEF Service
  <2> QED
    BY <2>2, <2>6, <2>7, <2>8, TimesFrame
<1>7. CASE StreamRefused \/ WriteFails
  <2>1. /\ UNCHANGED <<stored, tx>> /\ svc'.now = svc.now
        /\ svc'.batch = << >> /\ svc.pc # "idle"
    BY <1>7, <1>a DEF StreamRefused, WriteFails, Service
  <2> QED
    BY <1>d, <2>1, TimesFrame
<1>8. CASE UpsertKnown \/ UpsertNew
  <2>1. /\ svc.pc = "flush" /\ svc.batch # << >> /\ Written
        /\ \/ UpdateVm(Head(svc.batch), svc.now)
           \/ InsertVm(Head(svc.batch), svc.now)
        /\ stored' = stored
    BY <1>8 DEF UpsertKnown, UpsertNew
  <2>2. \A i \in Ids : Fits(tx'.rows[i], stored.rows[i], svc.now)
    BY <2>1, UpsertFits
  <2>3. Tail(svc.batch) \in Seq(Readings(svc.now))
    BY <1>a, <2>1, HeadTailProperties
  <2>4. /\ svc'.batch = Tail(svc.batch) /\ svc'.now = svc.now
        /\ svc'.pc = "flush"
    BY <1>a, <2>1 DEF Written, Service
  <2> QED
    BY <2>1, <2>2, <2>3, <2>4 DEF TimesOK
<1>9. CASE Close
  <2>1. /\ UNCHANGED <<stored, tx>> /\ svc'.now = svc.now
        /\ svc'.batch = svc.batch /\ svc.pc # "idle"
    BY <1>9, <1>a DEF Close, Service
  <2> QED
    BY <1>a, <2>1, TimesFrame
<1>10. CASE Commit \/ Rollback
  <2>1. /\ \/ stored' = tx /\ tx' = tx
           \/ stored' = stored /\ tx' = stored
        /\ svc'.now = svc.now /\ svc'.batch = svc.batch /\ svc'.pc = "idle"
    BY <1>10, <1>b DEF Commit, Rollback
  <2>2. ASSUME NEW i \in Ids
        PROVE  /\ Fits(tx.rows[i], tx.rows[i], svc.now)
               /\ Fits(stored.rows[i], stored.rows[i], svc.now)
    BY DEF TimesOK, Fits, Follows
  <2>3. tx'.rows = stored'.rows /\ (tx'.rows = tx.rows \/ tx'.rows = stored.rows)
    BY <2>1
  <2>4. \A i \in Ids : Fits(tx'.rows[i], stored'.rows[i], svc'.now)
    BY <2>1, <2>2, <2>3
  <2> QED
    BY <1>a, <2>1, <2>4 DEF TimesOK
<1> QED
  BY <1>2, <1>3, <1>4, <1>5, <1>6, <1>7, <1>8, <1>9, <1>10
  DEF Next, Collect, Check

LEMMA TimesInit == Init => TimesOK
<1> SUFFICES ASSUME Init PROVE TimesOK
  OBVIOUS
<1>1. << >> \in Seq(Readings(svc.now))
  OBVIOUS
<1>2. /\ svc.pc = "idle" /\ svc.batch = << >>
      /\ \A i \in Ids : tx.rows[i] = NoRow /\ stored.rows[i] = NoRow
  BY DEF Init, Empty
<1> QED
  BY <1>1, <1>2 DEF TimesOK, Fits

\* Whatever the guests report and whenever a collection fails, the values of
\* a row are of one reading and are replaced by those of a later one or not at
\* all (VirtualMachine.merge, GuestInfo.with_fallback).
THEOREM GuestsKeepTheirReading == Spec => GuestKeepsItsReading
<1>1. IInv /\ TimesOK /\ [Next]_vars =>
        [\A i \in Ids : stored.rows[i] # NoRow =>
           /\ stored'.rows[i] # NoRow
           /\ OneReading(stored'.rows[i].guest)
           /\ \/ Values(stored'.rows[i].guest) = Values(stored.rows[i].guest)
              \/ stored'.rows[i].guest.at > stored.rows[i].guest.at]_vars
  <2> SUFFICES ASSUME TimesOK, Next, NEW i \in Ids, stored.rows[i] # NoRow
               PROVE
           /\ stored'.rows[i] # NoRow
           /\ OneReading(stored'.rows[i].guest)
           /\ \/ Values(stored'.rows[i].guest) = Values(stored.rows[i].guest)
              \/ stored'.rows[i].guest.at > stored.rows[i].guest.at
    OBVIOUS
  <2>1. /\ OneReading(stored.rows[i].guest)
        /\ tx.rows[i] # NoRow /\ OneReading(tx.rows[i].guest)
        /\ Follows(tx.rows[i].guest, stored.rows[i].guest)
    BY DEF TimesOK, Fits, Dated
  <2>2. stored' = stored \/ stored' = tx
    BY DEF Next, Collect, Check, StartCollect, StartCheck, StartJob, Connect,
           ConnectRefused, ConnectFails, BeginListing, ReaderAdvances, Deliver,
           EndOfStream, StreamRefused, UpsertKnown, UpsertNew, BatchWritten,
           WriteFails, Close, Commit, CommitFails, Rollback, CheckReachable,
           CheckTls, CheckAuth, CheckAuthorized, AnswerCheck, AnswerRaises,
           ReaderFinalised, Environment
  <2> QED
    BY <2>1, <2>2 DEF Follows
<1>2. IInv /\ TimesOK /\ [Next]_vars => TimesOK'
  BY TimesStep DEF IInv
<1> QED
  BY <1>1, <1>2, TimesInit, Inductive, PTL DEF Spec, GuestKeepsItsReading

-----------------------------------------------------------------------------
(* What was listed is stored                                               *)

\* Rows of the transaction and observations of the batch of a machine.
InRows(v) == \E i \in Ids : /\ tx.rows[i] # NoRow
                            /\ tx.rows[i].native[1] = v
                            /\ tx.rows[i].seen = svc.now

InBatch(v) == \E k \in 1..Len(svc.batch) : svc.batch[k].native[1] = v

Kept == \A v \in Vms : reader.given[v] > 0 <=> InRows(v) \/ InBatch(v)

\* As long as a collection can still succeed, what it was given is written
\* or about to be, and nothing else carries its time.
KeptOK ==
    /\ svc.pc \in {"connect", "listing", "flush"} => svc.result = "none" /\ Kept
    /\ svc.pc \in {"connect", "closing"} => svc.batch = << >>
    /\ svc.pc = "closing" => /\ svc.result # "active"
                             /\ svc.result = "none" => Kept
    /\ svc.pc = "mark" /\ svc.result = "active" => Kept /\ svc.batch = << >>
    /\ svc.pc = "rollback" => svc.result = "collection_error"

LEMMA KeptFrame ==
    ASSUME Kept, tx' = tx, reader'.given = reader.given, svc'.now = svc.now,
           svc'.batch = svc.batch
    PROVE  Kept'
BY DEF Kept, InRows, InBatch

\* A listing that goes on without yielding gives nothing.
LEMMA GivenStays ==
    ASSUME reader \in Reader, WinRmNext \/ VCenterNext
    PROVE  reader'.given = reader.given
<1> USE DEF Becomes, Turns
<1>1. ASSUME NEW n, \/ reader' = NodeFailed(reader, n)
                    \/ reader' = NodeRefused(reader, n)
                    \/ OpenNode(n)
      PROVE  reader'.given = reader.given
  <2>1. CASE reader' = NodeFailed(reader, n)
    BY <2>1 DEF NodeFailed, Reader
  <2>2. CASE reader' = NodeRefused(reader, n)
    BY <2>2 DEF NodeRefused, Refused, Reader
  <2>3. CASE OpenNode(n)
    BY <2>3 DEF OpenNode, Reader
  <2> QED
    BY <1>1, <2>1, <2>2, <2>3
<1>2. CASE \/ ListNodeFails \/ ListNodeRefused
           \/ \E n \in Nodes : OpenNode(n) \/ OpenNodeRefused(n)
                                \/ OpenNodeFails(n)
  BY <1>1, <1>2
  DEF ListNodeFails, ListNodeRefused, OpenNodeRefused, OpenNodeFails
<1>3. ASSUME NEW r, NEW failed, NEW error, r = reader \/ r = Released(reader),
             reader' = Ended(r, failed, error) \/ reader' = Refused(r)
      PROVE  reader'.given = reader.given
  <2>1. r \in Reader /\ r.given = reader.given
    <3>1. CASE r = [reader EXCEPT !.view = FALSE]
      BY <3>1 DEF Reader
    <3> QED
      BY <1>3, <3>1 DEF Released
  <2>2. CASE reader' = Ended(r, failed, error)
    <3> DEFINE o == [count |-> r.total, failed |-> failed, error |-> error]
    <3>1. reader' = [r EXCEPT !.at = "ended", !.outcome = o]
      BY <2>2 DEF Ended
    <3> HIDE DEF o
    <3> QED
      BY <2>1, <3>1 DEF Reader
  <2>3. CASE reader' = Refused(r)
    BY <2>1, <2>3 DEF Refused, Reader
  <2> QED
    BY <1>3, <2>2, <2>3
<1>4. CASE \/ ResolveFails \/ ResolveRefused \/ EndWalk \/ ListFails
           \/ ListRefused \/ EndList \/ CreateViewFails
  BY <1>3, <1>4
  DEF ResolveFails, ResolveRefused, EndWalk, ListFails, ListRefused, EndList,
      CreateViewFails
<1>5. CASE ReleaseView
  <2>1. reader.verdict \in {"ok", "failed", "refused"}
    BY DEF Reader
  <2> QED
    BY <1>3, <1>5, <2>1 DEF ReleaseView
<1>6. CASE ResolveNodes
  BY <1>6 DEF ResolveNodes, Reader
<1>7. CASE ListNode \/ NextNode
  BY <1>7 DEF ListNode, NodeListed, NextNode, Reader
<1>8. CASE ListHost
  BY <1>8 DEF ListHost, Reader
<1>9. CASE ListScvmm
  BY <1>9 DEF ListScvmm, Reader
<1>10. CASE CreateView
  BY <1>10 DEF CreateView, Reader
<1>11. ASSUME NEW page, RetrievePage(page)
       PROVE  reader'.given = reader.given
  BY <1>11 DEF RetrievePage, Reader
<1>12. CASE RetrieveFails
  BY <1>12 DEF RetrieveFails, Reader
<1>13. CASE RetrieveRefused
  BY <1>13 DEF RetrieveRefused, Reader
<1>14. CASE NextPage
  <2> DEFINE to == IF reader.rest = {} THEN "release" ELSE "page"
  <2>1. reader' = [reader EXCEPT !.at = to]
    BY <1>14 DEF NextPage, AfterRows
  <2> HIDE DEF to
  <2> QED
    BY <2>1 DEF Reader
<1> QED
  BY <1>2, <1>4, <1>5, <1>6, <1>7, <1>8, <1>9, <1>10, <1>11, <1>12, <1>13,
     <1>14
  DEF WinRmNext, VCenterNext

\* A machine that is given enters the batch under its own identifier.
LEMMA DeliverKeeps ==
    ASSUME reader \in Reader, DataOK, Kept, NEW v \in Vms, Deliver(v)
    PROVE  Kept' /\ svc'.result = svc.result /\ svc'.pc \in {"listing", "flush"}
<1>1. PICK native \in NativeIds(v), report \in Reports :
        LET vm == [native |-> native,
                   guest |-> MapGuest(reader.kind, report, svc.now)]
            batch == Append(svc.batch, vm)
        IN svc' = [svc EXCEPT
             !.batch = batch,
             !.pc = IF Len(batch) >= BatchSize THEN "flush" ELSE "listing"]
  BY DEF Deliver
<1> DEFINE vm == [native |-> native,
                  guest |-> MapGuest(reader.kind, report, svc.now)]
           batch == Append(svc.batch, vm)
           pc == IF Len(batch) >= BatchSize THEN "flush" ELSE "listing"
<1>2. vm.native[1] = v
  BY DEF NativeIds
<1>3. svc' = [svc EXCEPT !.batch = batch, !.pc = pc]
  BY <1>1
<1>4. pc \in {"listing", "flush"}
  OBVIOUS
<1> HIDE DEF vm, pc
<1>5. svc.batch \in Seq(Observation)
  BY DEF DataOK, Service
<1>6. /\ Len(batch) = Len(svc.batch) + 1 /\ batch[Len(svc.batch) + 1] = vm
      /\ \A k \in 1..Len(svc.batch) : batch[k] = svc.batch[k]
      /\ Len(svc.batch) \in Nat
  BY <1>5
<1> HIDE DEF batch
<1>7. /\ svc'.batch = batch /\ svc'.now = svc.now /\ svc'.pc = pc
      /\ svc'.result = svc.result
  BY <1>3 DEF DataOK, Service
<1>8. /\ reader.given \in [Vms -> Nat]
      /\ reader'.given = [reader.given EXCEPT ![v] = @ + 1]
  BY DEF Deliver, Yield, Counted, Reader
<1>9. ASSUME NEW w \in Vms PROVE reader'.given[w] > 0 <=> InRows(w)' \/ InBatch(w)'
  <2>1. InRows(w)' <=> InRows(w)
    BY <1>7 DEF InRows, Deliver
  <2>2. InBatch(w)' <=> InBatch(w) \/ w = v
    <3>1. InBatch(w)' <=> \E k \in 1..(Len(svc.batch) + 1) : batch[k].native[1] = w
      BY <1>6, <1>7 DEF InBatch
    <3>2. \A k : k \in 1..(Len(svc.batch) + 1)
                   <=> k \in 1..Len(svc.batch) \/ k = Len(svc.batch) + 1
      BY <1>6
    <3> QED
      BY <1>2, <1>6, <3>1, <3>2 DEF InBatch
  <2>3. reader'.given[w] > 0 <=> reader.given[w] > 0 \/ w = v
    BY <1>8
  <2> QED
    BY <2>1, <2>2, <2>3 DEF Kept
<1> QED
  BY <1>4, <1>7, <1>9 DEF Kept

\* Writing the head of the batch takes it from the batch to a row of its own.
LEMMA UpsertKeeps ==
    ASSUME DataOK, RowsHaveTheirKey, Kept, svc.batch # << >>, Written,
           UNCHANGED reader,
           UpdateVm(Head(svc.batch), svc.now) \/ InsertVm(Head(svc.batch), svc.now)
    PROVE  Kept'
<1> DEFINE vm == Head(svc.batch)
           now == svc.now
<1>1. /\ svc.batch \in Seq(Observation) /\ now \in Nat
      /\ svc'.batch = Tail(svc.batch) /\ svc'.now = now
  BY DEF DataOK, Service, Written
<1>2. /\ vm \in Observation /\ vm.native \in Natives /\ vm.guest \in Guest
      /\ tx.rows \in [Ids -> VmRow \cup {NoRow}]
  BY <1>1, HeadTyped DEF Observation, DataOK, Tables
<1>3. /\ Len(svc.batch) \in Nat \ {0} /\ svc.batch[1] = vm
      /\ Len(Tail(svc.batch)) = Len(svc.batch) - 1
      /\ \A k \in 1..(Len(svc.batch) - 1) : Tail(svc.batch)[k] = svc.batch[k + 1]
  BY <1>1
<1>4. PICK i \in Ids, row \in VmRow :
        /\ tx'.rows = [tx.rows EXCEPT ![i] = row]
        /\ row.native = vm.native /\ row.seen = now
        /\ tx.rows[i] # NoRow => tx.rows[i].native = vm.native
  <2> HIDE DEF vm, now
  <2>1. CASE UpdateVm(vm, now)
    <3>1. PICK i \in Ids :
            /\ FindByIdentity(tx, vm.native) = {i}
            /\ tx.rows[i] # NoRow
            /\ tx' = [rows |-> [tx.rows EXCEPT ![i] = Merged(@, vm.guest, now)],
                      idents |-> SyncIdentities(tx, i, vm.native)]
      BY <2>1 DEF UpdateVm
    <3>2. <<i, vm.native>> \in tx.idents
      BY <3>1 DEF FindByIdentity
    <3>3. tx.rows[i] \in VmRow /\ tx.rows[i].native = vm.native
      BY <1>2, <3>1, <3>2 DEF RowsHaveTheirKey, IdentityBijection
    <3>4. /\ Merged(tx.rows[i], vm.guest, now) \in VmRow
          /\ Merged(tx.rows[i], vm.guest, now).native = vm.native
      BY <1>1, <1>2, <3>3, MergedTyped
    <3>5. Merged(tx.rows[i], vm.guest, now).seen = now
      BY <3>3 DEF Merged, VmRow
    <3> QED
      BY <3>1, <3>3, <3>4, <3>5
  <2>2. CASE InsertVm(vm, now)
    <3> DEFINE row == [native |-> vm.native, seen |-> now, guest |-> vm.guest]
    <3>1. PICK i \in Unused(tx) :
            tx' = [rows |-> [tx.rows EXCEPT ![i] = row],
                   idents |-> SyncIdentities(tx, i, vm.native)]
      BY <2>2 DEF InsertVm
    <3>2. row \in VmRow /\ row.native = vm.native /\ row.seen = now
      BY <1>1, <1>2 DEF VmRow
    <3> HIDE DEF row
    <3> QED
      BY <3>1, <3>2 DEF Unused
  <2> QED
    BY <2>1, <2>2 DEF vm, now
<1> HIDE DEF vm, now
<1>5. ASSUME NEW w \in Vms PROVE InRows(w)' <=> InRows(w) \/ vm.native[1] = w
  <2>1. row # NoRow
    BY PipelineAssumption
  <2>2. \A j \in Ids : tx'.rows[j] = IF j = i THEN row ELSE tx.rows[j]
    BY <1>2, <1>4
  <2>3. InRows(w)' <=> \E j \in Ids : /\ tx'.rows[j] # NoRow
                                      /\ tx'.rows[j].native[1] = w
                                      /\ tx'.rows[j].seen = now
    BY <1>1 DEF InRows
  <2>4. ASSUME InRows(w)' PROVE InRows(w) \/ vm.native[1] = w
    BY <1>4, <2>2, <2>3, <2>4 DEF InRows, now
  <2>5. ASSUME vm.native[1] = w PROVE InRows(w)'
    BY <1>4, <2>1, <2>2, <2>3, <2>5
  <2>6. ASSUME InRows(w) PROVE InRows(w)'
    <3>1. PICK j \in Ids : /\ tx.rows[j] # NoRow /\ tx.rows[j].native[1] = w
                           /\ tx.rows[j].seen = now
      BY <2>6 DEF InRows, now
    <3> QED
      BY <1>4, <2>1, <2>2, <2>3, <3>1
  <2> QED
    BY <2>4, <2>5, <2>6
<1>6. ASSUME NEW w \in Vms PROVE InBatch(w) <=> InBatch(w)' \/ vm.native[1] = w
  <2> DEFINE n == Len(svc.batch)
  <2>1. InBatch(w)' <=> \E k \in 1..(n - 1) : svc.batch[k + 1].native[1] = w
    BY <1>1, <1>3 DEF InBatch
  <2>2. \A k \in 1..n : k = 1 \/ (k - 1 \in 1..(n - 1) /\ (k - 1) + 1 = k)
    BY <1>3
  <2>3. 1 \in 1..n /\ \A k \in 1..(n - 1) : k + 1 \in 1..n
    BY <1>3
  <2>4. ASSUME InBatch(w) PROVE InBatch(w)' \/ vm.native[1] = w
    BY <1>3, <2>1, <2>2, <2>4 DEF InBatch
  <2>5. ASSUME InBatch(w)' \/ vm.native[1] = w PROVE InBatch(w)
    BY <1>3, <2>1, <2>3, <2>5 DEF InBatch
  <2> QED
    BY <2>4, <2>5
<1> QED
  BY <1>5, <1>6 DEF Kept

LEMMA KeptStep ==
    IInv /\ RowsHaveTheirKey /\ TimesOK /\ KeptOK /\ [Next]_vars => KeptOK'
<1> SUFFICES ASSUME IInv, RowsHaveTheirKey, TimesOK, KeptOK, [Next]_vars
             PROVE  KeptOK'
  OBVIOUS
<1>a. /\ DataOK /\ reader \in Reader /\ svc \in Service /\ svc.now \in Nat
      /\ stored \in Tables /\ tx \in Tables
  BY DEF IInv, DataOK, ReaderOK, Good, Service
<1>b. ASSUME NEW pc, Goes(pc)
      PROVE  /\ svc'.pc = pc /\ svc'.now = svc.now /\ svc'.batch = svc.batch
             /\ svc'.result = svc.result
  BY <1>b, <1>a DEF Goes, Service
<1>c. ASSUME NEW pc, NEW f, Results(pc, f)
      PROVE  /\ svc'.pc = pc /\ svc'.now = svc.now /\ svc'.batch = svc.batch
             /\ svc'.result = f
  BY <1>c, <1>a DEF Results, Service
<1>d. ASSUME svc'.pc \notin {"connect", "listing", "flush", "closing", "mark",
                             "rollback"}
      PROVE  KeptOK'
  BY <1>d DEF KeptOK
<1>e. ASSUME svc.pc \in {"connect", "listing", "flush"},
             svc'.pc \in {"listing", "flush"}, svc'.result = svc.result, Kept'
      PROVE  KeptOK'
  BY <1>e DEF KeptOK
<1>1. CASE StartCollect
  <2>1. /\ svc'.pc = "connect" /\ svc'.result = "none" /\ svc'.batch = << >>
        /\ svc'.now = svc.now + 1 /\ tx' = stored
        /\ \A v \in Vms : reader'.given[v] = 0
    BY <1>1 DEF StartCollect, StartJob, NewReader
  <2>2. ASSUME NEW i \in Ids, tx'.rows[i] # NoRow
        PROVE  tx'.rows[i].seen # svc'.now
    <3>1. stored.rows[i] \in VmRow /\ stored.rows[i].seen <= svc.now
      BY <1>a, <2>1, <2>2 DEF TimesOK, Fits, Dated, Tables
    <3> QED
      BY <1>a, <2>1, <3>1 DEF VmRow
  <2>3. ASSUME NEW v \in Vms PROVE ~InRows(v)' /\ ~InBatch(v)'
    BY <2>1, <2>2 DEF InRows, InBatch
  <2>4. Kept'
    BY <2>1, <2>3 DEF Kept
  <2> QED
    BY <2>1, <2>4 DEF KeptOK
<1>2. CASE Connect
  <2>1. /\ svc.pc = "connect" /\ svc'.pc = "listing" /\ tx' = tx
        /\ svc'.now = svc.now /\ svc'.batch = svc.batch
        /\ svc'.result = svc.result
        /\ reader'.given = reader.given
    BY <1>2, <1>a, <1>b DEF Connect, StartSession, Reader
  <2> QED
    BY <1>e, <2>1, KeptFrame DEF KeptOK
<1>3. CASE ConnectRefused \/ ConnectFails
  <2>1. svc'.pc = "mark" /\ svc'.result # "active"
    BY <1>3, <1>c DEF ConnectRefused, ConnectFails
  <2> QED
    BY <2>1 DEF KeptOK
<1>4. CASE BeginListing \/ ReaderAdvances
  <2>1. /\ svc.pc = "listing" /\ svc' = svc /\ tx' = tx
        /\ reader'.given = reader.given
    BY <1>4, <1>a, GivenStays DEF BeginListing, Begin, ReaderAdvances, Reader
  <2> QED
    BY <1>e, <2>1, KeptFrame DEF KeptOK
<1>5. ASSUME NEW v \in Vms, Deliver(v) PROVE KeptOK'
  <2>1. svc.pc = "listing" /\ Kept
    BY <1>5 DEF Deliver, KeptOK
  <2> QED
    BY <1>5, <1>a, <1>e, <2>1, DeliverKeeps
<1>6. CASE EndOfStream
  <2>1. /\ svc.pc = "listing" /\ tx' = tx /\ reader' = reader
        /\ svc'.now = svc.now /\ svc'.batch = svc.batch
        /\ svc'.result = svc.result /\ svc'.pc \in {"closing", "flush"}
        /\ svc'.pc = "closing" => svc.batch = << >>
    BY <1>6, <1>b DEF EndOfStream, LastBatch
  <2>2. svc.result = "none" /\ Kept'
    BY <2>1, KeptFrame DEF KeptOK
  <2> QED
    BY <2>1, <2>2 DEF KeptOK
<1>7. CASE StreamRefused \/ WriteFails
  <2>1. /\ svc'.pc = "closing" /\ svc'.batch = << >>
        /\ svc'.result \in {"credential_error", "collection_error"}
    BY <1>7, <1>a DEF StreamRefused, WriteFails, Service
  <2> QED
    BY <2>1 DEF KeptOK
<1>8. CASE UpsertKnown \/ UpsertNew
  <2>1. /\ svc.pc = "flush" /\ svc.batch # << >> /\ Written
        /\ \/ UpdateVm(Head(svc.batch), svc.now)
           \/ InsertVm(Head(svc.batch), svc.now)
        /\ UNCHANGED reader
    BY <1>8 DEF UpsertKnown, UpsertNew
  <2>2. Kept'
    BY <1>a, <2>1, UpsertKeeps DEF KeptOK
  <2>3. svc'.pc = "flush" /\ svc'.result = svc.result
    BY <1>a, <2>1 DEF Written, Service
  <2> QED
    BY <1>e, <2>1, <2>2, <2>3
<1>9. CASE BatchWritten
  <2>1. /\ svc.pc = "flush" /\ svc'.pc = "listing" /\ tx' = tx
        /\ svc'.now = svc.now /\ svc'.batch = svc.batch
        /\ svc'.result = svc.result /\ reader' = reader
    BY <1>9, <1>b DEF BatchWritten
  <2> QED
    BY <1>e, <2>1, KeptFrame DEF KeptOK
<1>10. CASE Close
  <2> DEFINE pc == IF svc.result = "collection_error" THEN "rollback" ELSE "mark"
             result == IF svc.result = "none" THEN OutcomeResult ELSE svc.result
  <2>1. /\ svc' = [svc EXCEPT !.pc = pc, !.result = result]
        /\ svc.pc = "closing" /\ tx' = tx
        /\ reader'.given = reader.given
    BY <1>10, <1>a DEF Close, CloseSession, Reader
  <2>2. /\ pc = "rollback" => result = "collection_error"
        /\ pc \in {"mark", "rollback"}
        /\ svc.result # "active" /\ result = "active" => svc.result = "none"
    OBVIOUS
  <2> HIDE DEF pc, result
  <2>3. /\ svc'.pc = pc /\ svc'.result = result /\ svc'.now = svc.now
        /\ svc'.batch = svc.batch
    BY <1>a, <2>1 DEF Service
  <2>4. /\ svc.result # "active" /\ svc.batch = << >>
        /\ svc.result = "none" => Kept'
    BY <2>1, <2>3, KeptFrame DEF KeptOK
  <2> QED
    BY <2>2, <2>3, <2>4 DEF KeptOK
<1>11. CASE Commit \/ Rollback \/ AnswerCheck \/ AnswerRaises
  BY <1>11, <1>b, <1>d DEF Commit, Rollback, AnswerCheck, AnswerRaises
<1>12. CASE CommitFails
  <2>1. svc'.pc = "rollback" /\ svc'.result = "collection_error"
    BY <1>12, <1>c DEF CommitFails
  <2> QED
    BY <2>1 DEF KeptOK
<1>13. CASE StartCheck
  BY <1>13, <1>d DEF StartCheck, StartJob
<1>14. CASE CheckReachable \/ CheckTls \/ CheckAuth \/ CheckAuthorized
  BY <1>14, <1>b, <1>d
  DEF CheckReachable, CheckTls, CheckAuth, CheckAuthorized, Passes, FailsHere
<1>15. CASE ReaderFinalised \/ Environment \/ UNCHANGED vars
  <2>1. svc' = svc /\ tx' = tx /\ reader'.given = reader.given
    BY <1>15, <1>a
    DEF ReaderFinalised, FinaliseGenerator, Turns, Released, Environment, Move,
        Rotate, vars, Reader
  <2>2. Kept => Kept'
    BY <2>1, KeptFrame
  <2> QED
    BY <2>1, <2>2 DEF KeptOK
<1> QED
  BY <1>1, <1>2, <1>3, <1>4, <1>5, <1>6, <1>7, <1>8, <1>9, <1>10, <1>11,
     <1>12, <1>13, <1>14, <1>15
  DEF Next, Collect, Check

\* A collection that is marked as a success has stored exactly the machines
\* it was given, however they fell into pages, nodes and batches and whatever
\* moved while it ran (CollectService._collect_once).
THEOREM ListedAreStored == Spec => ListedIsStored
<1>1. IInv /\ KeptOK /\ [Next]_vars =>
        [conn'.success # conn.success =>
           \A v \in Vms :
             reader.given[v] > 0 <=>
               \E i \in Ids : /\ stored'.rows[i] # NoRow
                              /\ stored'.rows[i].native[1] = v
                              /\ stored'.rows[i].seen = svc.now]_vars
  <2> SUFFICES ASSUME conn \in ConnRow, KeptOK, Next,
                      conn'.success # conn.success
               PROVE  \A v \in Vms :
             reader.given[v] > 0 <=>
               \E i \in Ids : /\ stored'.rows[i] # NoRow
                              /\ stored'.rows[i].native[1] = v
                              /\ stored'.rows[i].seen = svc.now
    BY DEF IInv, DataOK
  <2>1. \/ conn' = conn
        \/ Commit
        \/ Rollback
    BY DEF Next, Collect, Check, StartCollect, StartCheck, StartJob, Connect,
           ConnectRefused, ConnectFails, BeginListing, ReaderAdvances, Deliver,
           EndOfStream, StreamRefused, UpsertKnown, UpsertNew, BatchWritten,
           WriteFails, Close, CommitFails, CheckReachable, CheckTls, CheckAuth,
           CheckAuthorized, AnswerCheck, AnswerRaises, ReaderFinalised,
           Environment
  <2>2. ASSUME NEW result, NEW now, conn' = Marked(conn, result, now)
        PROVE  result = "active"
    BY <2>2 DEF Marked, ConnRow
  <2>3. Commit /\ svc.result = "active"
    BY <2>1, <2>2 DEF Commit, Rollback, KeptOK
  <2>4. Kept /\ svc.batch = << >> /\ stored' = tx
    BY <2>3 DEF KeptOK, Commit
  <2>5. \A v : ~InBatch(v)
    BY <2>4 DEF InBatch
  <2> QED
    BY <2>4, <2>5 DEF Kept, InRows
<1>2. IInv /\ RowsHaveTheirKey /\ [Next]_vars => RowsHaveTheirKey'
  BY KeysStep DEF IInv
<1>3. IInv /\ TimesOK /\ [Next]_vars => TimesOK'
  BY TimesStep DEF IInv
<1>4. Init => KeptOK
  BY DEF Init, KeptOK
<1> QED
  BY <1>1, <1>2, <1>3, <1>4, KeptStep, DataInit, TimesInit, Inductive, PTL
  DEF Spec, ListedIsStored
=============================================================================
