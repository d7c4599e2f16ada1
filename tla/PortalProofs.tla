----------------------------- MODULE PortalProofs -----------------------------
(***************************************************************************)
(* Theorems about Portal, for any number of workers, requests, connections *)
(* and targets: a portal that began without accounts serves only with its  *)
(* administrator, the audit log tells the table, answers are true, and     *)
(* requests that overlap do what atomic ones do.                           *)
(***************************************************************************)
EXTENDS Portal, TLAPS

-----------------------------------------------------------------------------
(* Types                                                                   *)

LEMMA IdleTyped == Idle \in Request
BY PortalAssumption DEF Idle, Request

LEMMA BecomesTyped ==
    ASSUME TypeOK, NEW r \in Reqs, NEW q \in Request, Becomes(r, q)
    PROVE  req' \in [Reqs -> Request]
BY DEF TypeOK, AdminTypeOK, Becomes

LEMMA AnsweredTyped ==
    ASSUME TypeOK, NEW r \in Reqs, NEW answer \in Answers, Answered(r, answer)
    PROVE  req' \in [Reqs -> Request]
<1>1. req[r] \in Request
  BY DEF TypeOK, AdminTypeOK
<1>2. [req[r] EXCEPT !.pc = "answered", !.held = FALSE, !.answer = answer]
        \in Request
  BY <1>1 DEF Request
<1> QED
  BY <1>2, BecomesTyped DEF Answered

LEMMA GoesTyped ==
    ASSUME TypeOK, NEW r \in Reqs,
           NEW pc \in {"insert", "count", "remove", "audit", "commit"},
           Goes(r, pc)
    PROVE  req' \in [Reqs -> Request]
BY DEF TypeOK, AdminTypeOK, Goes, Becomes, Request

LEMMA ServeTyped ==
    ASSUME TypeOK, NEW r \in Reqs, Serve(r)
    PROVE  AdminTypeOK'
<1> req[r] \in Request
  BY DEF TypeOK, AdminTypeOK
<1>1. CASE FindTarget(r)
  BY <1>1, AnsweredTyped, GoesTyped
  DEF FindTarget, TypeOK, AdminTypeOK, Answers
<1>2. CASE InsertRow(r)
  <2>1. CASE Answered(r, "500")
    BY <1>2, <2>1, AnsweredTyped DEF InsertRow, TypeOK, AdminTypeOK, Answers
  <2>2. CASE Becomes(r, [req[r] EXCEPT !.pc = "audit", !.held = TRUE])
    BY <1>2, <2>2 DEF InsertRow, Becomes, TypeOK, AdminTypeOK, Request
  <2> QED
    BY <1>2, <2>1, <2>2 DEF InsertRow, InsertOrViolate
<1>3. CASE LoadRow(r)
  BY <1>3, AnsweredTyped, GoesTyped DEF LoadRow, TypeOK, AdminTypeOK, Answers
<1>4. CASE CountVms(r)
  BY <1>4, AnsweredTyped, GoesTyped DEF CountVms, TypeOK, AdminTypeOK, Answers
<1>5. CASE RemoveRow(r)
  <2>1. CASE Answered(r, "500")
    BY <1>5, <2>1, AnsweredTyped DEF RemoveRow, TypeOK, AdminTypeOK, Answers
  <2>2. CASE Becomes(r, [req[r] EXCEPT !.pc = "audit", !.held = TRUE])
    BY <1>5, <2>2 DEF RemoveRow, Becomes, TypeOK, AdminTypeOK, Request
  <2> QED
    BY <1>5, <2>1, <2>2 DEF RemoveRow
<1>6. CASE Audit(r)
  BY <1>6, GoesTyped DEF Audit, TypeOK, AdminTypeOK
<1>7. CASE AuditFails(r)
  BY <1>7 DEF AuditFails, Becomes, TypeOK, AdminTypeOK, Request
<1>8. CASE Commit(r)
  <2>1. req' \in [Reqs -> Request]
    BY <1>8, AnsweredTyped DEF Commit, Answers
  <2>2. rows' \in [Ids -> Targets \cup {NoRow}]
    BY <1>8 DEF Commit, RowsAfter, TypeOK, AdminTypeOK, Request
  <2>3. log' \in SUBSET ({"create", "delete"} \X Ids)
    BY <1>8 DEF Commit, Events, TypeOK, AdminTypeOK, Request
  <2> QED
    BY <1>8, <2>1, <2>2, <2>3 DEF Commit, TypeOK, AdminTypeOK
<1>9. CASE CommitRaises(r)
  BY <1>9, AnsweredTyped DEF CommitRaises, TypeOK, AdminTypeOK, Answers
<1>10. CASE Raises(r)
  BY <1>10, AnsweredTyped DEF Raises, TypeOK, AdminTypeOK, Answers
<1>11. CASE Return(r)
  BY <1>11, IdleTyped DEF Return, Becomes, TypeOK, AdminTypeOK
<1> QED
  BY <1>1, <1>2, <1>3, <1>4, <1>5, <1>6, <1>7, <1>8, <1>9, <1>10, <1>11
  DEF Serve

LEMMA TakeTyped ==
    ASSUME TypeOK, NEW r \in Reqs, NEW w \in Workers,
           BeginCreate(r, w) \/ BeginDelete(r, w)
    PROVE  AdminTypeOK'
<1> w \in Homes
  BY PortalAssumption
<1>1. CASE BeginCreate(r, w)
  <2>1. PICK i \in FreshIds, t \in Targets :
          Becomes(r, [Idle EXCEPT !.pc = "find", !.home = w, !.op = "create",
                                  !.id = i, !.target = t])
    BY <1>1 DEF BeginCreate
  <2>2. i \in Ids
    BY DEF FreshIds
  <2>3. [Idle EXCEPT !.pc = "find", !.home = w, !.op = "create", !.id = i,
                     !.target = t] \in Request
    BY <2>2, IdleTyped DEF Request
  <2> QED
    BY <1>1, <2>1, <2>3, BecomesTyped DEF BeginCreate, TypeOK, AdminTypeOK
<1>2. CASE BeginDelete(r, w)
  <2>1. PICK i \in Ids :
          Becomes(r, [Idle EXCEPT !.pc = "load", !.home = w, !.op = "delete",
                                  !.id = i])
    BY <1>2 DEF BeginDelete
  <2>2. [Idle EXCEPT !.pc = "load", !.home = w, !.op = "delete", !.id = i]
          \in Request
    BY IdleTyped DEF Request
  <2> QED
    BY <1>2, <2>1, <2>2, BecomesTyped DEF BeginDelete, TypeOK, AdminTypeOK
<1> QED
  BY <1>1, <1>2

LEMMA TypeStep == TypeOK /\ [Next]_vars => TypeOK'
<1> SUFFICES ASSUME TypeOK, [Next]_vars PROVE TypeOK'
  OBVIOUS
<1>1. ASSUME NEW w \in Workers, Boot(w) PROVE TypeOK'
  BY <1>1
  DEF Boot, adminVars, BootNext, StartWorker, CountUsers, AddAdmin,
      CommitAdmin, AdminCommitted, Register, Turn, TypeOK, BootTypeOK,
      AdminTypeOK, WorkerStates, Origins
<1>2. ASSUME NEW w \in Workers, Die(w) PROVE TypeOK'
  BY <1>2, IdleTyped
  DEF Die, StopWorker, Turn, TypeOK, BootTypeOK, AdminTypeOK, WorkerStates
<1>3. ASSUME NEW w \in Workers, NEW r \in Reqs, Take(r, w) PROVE TypeOK'
  BY <1>3, TakeTyped DEF Take, bootVars, TypeOK, BootTypeOK
<1>4. ASSUME NEW r \in Reqs, Step(r) PROVE TypeOK'
  BY <1>4, ServeTyped DEF Step, bootVars, TypeOK, BootTypeOK
<1>5. ASSUME NEW i \in Ids, FirstVms(i) PROVE TypeOK'
  BY <1>5
  DEF FirstVms, Collected, bootVars, TypeOK, BootTypeOK, AdminTypeOK
<1>6. CASE UNCHANGED vars
  BY <1>6 DEF vars, TypeOK, BootTypeOK, AdminTypeOK
<1> QED
  BY <1>1, <1>2, <1>3, <1>4, <1>5, <1>6 DEF Next

LEMMA TypeInit == Init => TypeOK
BY IdleTyped
DEF Init, BootInit, AdminInit, TypeOK, BootTypeOK, AdminTypeOK, WorkerStates,
    Origins

\* Portal is well typed, for any number of workers and requests.
THEOREM TypeCorrect == Spec => []TypeOK
BY TypeInit, TypeStep, PTL DEF Spec

-----------------------------------------------------------------------------
(* The first administrator                                                 *)

\* On a database that had no account, a worker that serves has added the
\* administrator itself, has waited for the worker that did, or has counted an
\* account, which cannot be there before the administrator: an application
\* needs a worker that serves (ensure_bootstrap_admin).
THEOREM AdminBeforeService == Spec => []ServedWithAdmin
<1>1. Init => ServedWithAdmin
  BY DEF Init, BootInit, ServedWithAdmin
<1>2. TypeOK /\ ServedWithAdmin /\ [Next]_vars => ServedWithAdmin'
  <2> SUFFICES ASSUME TypeOK, ServedWithAdmin, [Next]_vars
               PROVE  ServedWithAdmin'
    OBVIOUS
  <2>1. ASSUME NEW w \in Workers, Boot(w) PROVE ServedWithAdmin'
    BY <2>1
    DEF Boot, BootNext, StartWorker, CountUsers, AddAdmin, CommitAdmin,
        AdminCommitted, Register, Turn, ServedWithAdmin, TypeOK, BootTypeOK,
        Origins
  <2>2. ASSUME NEW w \in Workers, Die(w) PROVE ServedWithAdmin'
    BY <2>2 DEF Die, StopWorker, Turn, ServedWithAdmin, TypeOK, BootTypeOK
  <2>3. CASE UNCHANGED bootVars
    BY <2>3 DEF bootVars, ServedWithAdmin
  <2> QED
    BY <2>1, <2>2, <2>3 DEF Next, Take, Step, FirstVms, vars, bootVars
<1> QED
  BY <1>1, <1>2, TypeCorrect, PTL DEF Spec

-----------------------------------------------------------------------------
(* What requests rely on                                                   *)

UnderWay(q) == q.pc \notin {"idle", "answered"}

\* What is so of one request: a creation under way has an identifier nobody
\* has heard of; what a transaction holds is its own.
Own(q) ==
    /\ q.held => q.pc \in {"audit", "commit"}
    /\ q.pc \in {"find", "insert"} => q.op = "create"
    /\ q.pc \in {"load", "count", "remove"} => q.op = "delete"
    /\ UnderWay(q) /\ q.op = "create" =>
         q.target \in Targets /\ <<"create", q.id>> \notin log
    /\ UnderWay(q) /\ q.op = "delete" => <<"create", q.id>> \in log
    /\ q.held /\ q.op = "create" => ~Registered(q.target)
    /\ q.held /\ q.op = "delete" => q.id \notin vms

\* What is so of two: no identifier and no held target is shared.
Apart(p, q) ==
    /\ UnderWay(p) /\ UnderWay(q) /\ p.op = "create" /\ q.op = "create" =>
         p.id # q.id
    /\ p.held /\ q.held /\ p.op = "create" /\ q.op = "create" =>
         p.target # q.target

OwnAll == \A r \in Reqs : Own(req[r])
ApartAll == \A r, s \in Reqs : r # s => Apart(req[r], req[s])
OnlyCreatedGo == \A i \in Ids : <<"delete", i>> \in log => <<"create", i>> \in log

IInv == TypeOK /\ OwnAll /\ ApartAll /\ OnlyCreatedGo /\ AuditTellsTheTable

-----------------------------------------------------------------------------
(* Steps that commit nothing                                               *)

LEMMA Replaced ==
    ASSUME IInv, NEW r \in Reqs, NEW q \in Request, Becomes(r, q), Own(q),
           \A s \in Reqs \ {r} : Apart(q, req[s]) /\ Apart(req[s], q),
           UNCHANGED <<rows, vms, log>>
    PROVE  OwnAll' /\ ApartAll' /\ OnlyCreatedGo' /\ AuditTellsTheTable'
<1>1. /\ req'[r] = q
      /\ \A s \in Reqs \ {r} : req'[s] = req[s]
  BY DEF IInv, TypeOK, AdminTypeOK, Becomes
<1>2. \A s \in Reqs : Own(req'[s])
  BY <1>1 DEF IInv, OwnAll
<1>3. \A s, u \in Reqs : s # u => Apart(req'[s], req'[u])
  BY <1>1 DEF IInv, ApartAll
<1>4. OwnAll'
  BY <1>2 DEF OwnAll, Own, UnderWay, Registered
<1>5. ApartAll'
  BY <1>3 DEF ApartAll, Apart, UnderWay
<1> QED
  BY <1>4, <1>5 DEF IInv, OnlyCreatedGo, AuditTellsTheTable

LEMMA AnsweredKeeps ==
    ASSUME IInv, NEW r \in Reqs, NEW answer \in Answers, Answered(r, answer),
           UNCHANGED <<rows, vms, log>>
    PROVE  OwnAll' /\ ApartAll' /\ OnlyCreatedGo' /\ AuditTellsTheTable'
<1> DEFINE q == [req[r] EXCEPT !.pc = "answered", !.held = FALSE,
                               !.answer = answer]
<1>1. q \in Request /\ q.pc = "answered" /\ q.held = FALSE
  BY DEF IInv, TypeOK, AdminTypeOK, Request
<1>2. Becomes(r, q)
  BY DEF Answered
<1> HIDE DEF q
<1>3. Own(q) /\ \A s \in Reqs : Apart(q, req[s]) /\ Apart(req[s], q)
  BY <1>1 DEF Own, Apart, UnderWay
<1> QED
  BY <1>1, <1>2, <1>3, Replaced

LEMMA GoesKeeps ==
    ASSUME IInv, NEW r \in Reqs, UnderWay(req[r]),
           NEW pc \in {"insert", "count", "remove", "audit", "commit"},
           req[r].held => pc \in {"audit", "commit"},
           pc = "insert" => req[r].op = "create",
           pc \in {"count", "remove"} => req[r].op = "delete",
           Goes(r, pc), UNCHANGED <<rows, vms, log>>
    PROVE  OwnAll' /\ ApartAll' /\ OnlyCreatedGo' /\ AuditTellsTheTable'
<1> DEFINE q == [req[r] EXCEPT !.pc = pc]
<1>1. req[r] \in Request
  BY DEF IInv, TypeOK, AdminTypeOK
<1>2. /\ q \in Request /\ q.pc = pc /\ q.held = req[r].held
      /\ q.op = req[r].op /\ q.id = req[r].id /\ q.target = req[r].target
  BY <1>1 DEF Request
<1>3. Becomes(r, q)
  BY DEF Goes
<1> HIDE DEF q
<1>4. Own(q)
  BY <1>2 DEF IInv, OwnAll, Own, UnderWay
<1>5. \A s \in Reqs \ {r} : Apart(q, req[s]) /\ Apart(req[s], q)
  BY <1>2 DEF IInv, ApartAll, Apart, UnderWay
<1> QED
  BY <1>2, <1>3, <1>4, <1>5, Replaced

\* An INSERT or a DELETE that is flushed.
LEMMA HoldsKeeps ==
    ASSUME IInv, NEW r \in Reqs, UnderWay(req[r]),
           Becomes(r, [req[r] EXCEPT !.pc = "audit", !.held = TRUE]),
           req[r].op = "create" =>
             ~Registered(req[r].target) /\ ~TargetHeld(r),
           req[r].op = "delete" => req[r].id \notin vms,
           UNCHANGED <<rows, vms, log>>
    PROVE  OwnAll' /\ ApartAll' /\ OnlyCreatedGo' /\ AuditTellsTheTable'
<1> DEFINE q == [req[r] EXCEPT !.pc = "audit", !.held = TRUE]
<1>1. req[r] \in Request
  BY DEF IInv, TypeOK, AdminTypeOK
<1>2. /\ q \in Request /\ q.pc = "audit" /\ q.held = TRUE
      /\ q.op = req[r].op /\ q.id = req[r].id /\ q.target = req[r].target
  BY <1>1 DEF Request
<1>3. Becomes(r, q)
  OBVIOUS
<1> HIDE DEF q
<1>4. Own(q)
  BY <1>2 DEF IInv, OwnAll, Own, UnderWay
<1>5. \A s \in Reqs \ {r} : Apart(q, req[s]) /\ Apart(req[s], q)
  BY <1>2 DEF IInv, ApartAll, Apart, UnderWay, TargetHeld
<1> QED
  BY <1>2, <1>3, <1>4, <1>5, Replaced

\* An audit event that could not be flushed.
LEMMA AuditFailsKeeps ==
    ASSUME IInv, NEW r \in Reqs, AuditFails(r)
    PROVE  OwnAll' /\ ApartAll' /\ OnlyCreatedGo' /\ AuditTellsTheTable'
<1> DEFINE q == [req[r] EXCEPT !.pc = "commit", !.held = FALSE]
<1>1. req[r] \in Request /\ req[r].pc = "audit"
  BY DEF IInv, TypeOK, AdminTypeOK, AuditFails
<1>2. /\ q \in Request /\ q.pc = "commit" /\ q.held = FALSE
      /\ q.op = req[r].op /\ q.id = req[r].id /\ q.target = req[r].target
  BY <1>1 DEF Request
<1>3. Becomes(r, q)
  BY DEF AuditFails
<1> HIDE DEF q
<1>4. Own(q)
  BY <1>1, <1>2 DEF IInv, OwnAll, Own, UnderWay
<1>5. \A s \in Reqs \ {r} : Apart(q, req[s]) /\ Apart(req[s], q)
  BY <1>1, <1>2 DEF IInv, ApartAll, Apart, UnderWay
<1> QED
  BY <1>2, <1>3, <1>4, <1>5, Replaced DEF AuditFails

LEMMA ReturnKeeps ==
    ASSUME IInv, NEW r \in Reqs, Return(r)
    PROVE  OwnAll' /\ ApartAll' /\ OnlyCreatedGo' /\ AuditTellsTheTable'
<1>1. Idle \in Request /\ Idle.pc = "idle" /\ Idle.held = FALSE
  BY IdleTyped DEF Idle
<1>2. Own(Idle) /\ \A s \in Reqs : Apart(Idle, req[s]) /\ Apart(req[s], Idle)
  BY <1>1 DEF Own, Apart, UnderWay
<1> QED
  BY <1>1, <1>2, Replaced DEF Return

LEMMA BeginKeeps ==
    ASSUME IInv, NEW r \in Reqs, NEW w \in Workers,
           BeginCreate(r, w) \/ BeginDelete(r, w)
    PROVE  OwnAll' /\ ApartAll' /\ OnlyCreatedGo' /\ AuditTellsTheTable'
<1> w \in Homes
  BY PortalAssumption
<1>1. CASE BeginCreate(r, w)
  <2>1. PICK i \in FreshIds, t \in Targets :
          Becomes(r, [Idle EXCEPT !.pc = "find", !.home = w, !.op = "create",
                                  !.id = i, !.target = t])
    BY <1>1 DEF BeginCreate
  <2> DEFINE q == [Idle EXCEPT !.pc = "find", !.home = w, !.op = "create",
                               !.id = i, !.target = t]
  <2>2. /\ i \in Ids /\ <<"create", i>> \notin log
        /\ \A s \in Reqs : UnderWay(req[s]) => req[s].id # i
    BY DEF FreshIds, Live, UnderWay
  <2>3. /\ q \in Request /\ q.pc = "find" /\ q.held = FALSE
        /\ q.op = "create" /\ q.id = i /\ q.target = t
    BY <2>2, IdleTyped DEF Request, Idle
  <2> HIDE DEF q
  <2>4. Own(q)
    BY <2>2, <2>3 DEF Own
  <2>5. \A s \in Reqs \ {r} : Apart(q, req[s]) /\ Apart(req[s], q)
    BY <2>2, <2>3 DEF Apart
  <2> QED
    BY <1>1, <2>1, <2>3, <2>4, <2>5, Replaced DEF q, BeginCreate
<1>2. CASE BeginDelete(r, w)
  <2>1. PICK i \in Ids :
          /\ <<"create", i>> \in log
          /\ Becomes(r, [Idle EXCEPT !.pc = "load", !.home = w,
                                     !.op = "delete", !.id = i])
    BY <1>2 DEF BeginDelete
  <2> DEFINE q == [Idle EXCEPT !.pc = "load", !.home = w, !.op = "delete",
                               !.id = i]
  <2>2. /\ q \in Request /\ q.pc = "load" /\ q.held = FALSE
        /\ q.op = "delete" /\ q.id = i
    BY IdleTyped DEF Request, Idle
  <2>3. Becomes(r, q)
    BY <2>1
  <2> HIDE DEF q
  <2>4. Own(q)
    BY <2>1, <2>2 DEF Own
  <2>5. \A s \in Reqs \ {r} : Apart(q, req[s]) /\ Apart(req[s], q)
    BY <2>2 DEF Apart
  <2> QED
    BY <1>2, <2>2, <2>3, <2>4, <2>5, Replaced DEF BeginDelete
<1> QED
  BY <1>1, <1>2

-----------------------------------------------------------------------------
(* Steps that commit                                                       *)

\* The commit of a request that holds its row.
LEMMA CommitKeeps ==
    ASSUME IInv, NEW r \in Reqs, Commit(r)
    PROVE  OwnAll' /\ ApartAll' /\ OnlyCreatedGo' /\ AuditTellsTheTable'
<1> DEFINE me == req[r]
           i == req[r].id
<1>1. /\ me \in Request /\ i \in Ids /\ me.pc = "commit" /\ me.held
      /\ UnderWay(me)
      /\ rows \in [Ids -> Targets \cup {NoRow}]
  BY DEF IInv, TypeOK, AdminTypeOK, Commit, Commits, Request, UnderWay
<1>2. /\ rows' = [rows EXCEPT ![i] = IF me.op = "create" THEN me.target
                                     ELSE NoRow]
      /\ log' = log \cup {<<me.op, i>>}
      /\ vms' = vms
  BY <1>1 DEF Commit, Commits, RowsAfter, Events
<1>3. Own(me)
  BY DEF IInv, OwnAll
<1>4. me.op \in {"create", "delete"}
  BY <1>1 DEF Request
<1>5. /\ req'[r].pc = "answered" /\ req'[r].held = FALSE
      /\ \A s \in Reqs \ {r} : req'[s] = req[s]
  <2>1. Answered(r, IF me.op = "create" THEN "201" ELSE "204")
    BY DEF Commit
  <2> QED
    BY <2>1, <1>1 DEF Answered, Becomes, IInv, TypeOK, AdminTypeOK, Request
<1>6. OnlyCreatedGo'
  <2>1. me.op = "delete" => <<"create", i>> \in log
    BY <1>1, <1>3 DEF Own
  <2> QED
    BY <1>2, <1>4, <2>1 DEF IInv, OnlyCreatedGo
<1>7. AuditTellsTheTable'
  <2> SUFFICES ASSUME NEW j \in Ids
               PROVE  rows'[j] # NoRow <=> /\ <<"create", j>> \in log'
                                           /\ <<"delete", j>> \notin log'
    BY DEF AuditTellsTheTable
  <2>1. CASE j # i
    BY <1>1, <1>2, <2>1 DEF IInv, AuditTellsTheTable
  <2>2. CASE j = i /\ me.op = "create"
    <3>1. me.target # NoRow /\ <<"create", i>> \notin log
      BY <1>1, <1>3, <2>2, PortalAssumption DEF Own
    <3> QED
      BY <1>1, <1>2, <2>2, <3>1 DEF IInv, OnlyCreatedGo
  <2>3. CASE j = i /\ me.op = "delete"
    BY <1>1, <1>2, <2>3
  <2> QED
    BY <1>4, <2>1, <2>2, <2>3
<1>8. OwnAll'
  <2> SUFFICES ASSUME NEW s \in Reqs \ {r} PROVE Own(req[s])'
    BY <1>5 DEF OwnAll, Own, UnderWay
  <2>1. Own(req[s]) /\ Apart(me, req[s]) /\ req'[s] = req[s]
    BY <1>5 DEF IInv, OwnAll, ApartAll
  <2>2. req[s] \in Request
    BY DEF IInv, TypeOK, AdminTypeOK
  <2>3. UnderWay(req[s]) /\ req[s].op = "create" =>
          <<"create", req[s].id>> \notin log'
    BY <1>1, <1>2, <1>3, <1>4, <2>1 DEF Own, Apart, UnderWay
  <2>4. req[s].held /\ req[s].op = "create" =>
          \A j \in Ids : rows'[j] # req[s].target
    <3>1. req[s].held => UnderWay(req[s])
      BY <2>1 DEF Own, UnderWay
    <3>2. req[s].held /\ req[s].op = "create" => req[s].target # NoRow
      BY <2>1, <3>1, PortalAssumption DEF Own
    <3> QED
      BY <1>1, <1>2, <1>4, <2>1, <3>2 DEF Own, Apart, Registered
  <2> QED
    BY <1>2, <2>1, <2>3, <2>4 DEF Own, UnderWay, Registered
<1>9. ApartAll'
  BY <1>5 DEF IInv, ApartAll, Apart, UnderWay
<1> QED
  BY <1>6, <1>7, <1>8, <1>9

LEMMA ServeKeeps ==
    ASSUME IInv, NEW r \in Reqs, Serve(r)
    PROVE  OwnAll' /\ ApartAll' /\ OnlyCreatedGo' /\ AuditTellsTheTable'
<1>1. CASE FindTarget(r)
  BY <1>1, AnsweredKeeps, GoesKeeps
  DEF FindTarget, Answers, UnderWay, IInv, OwnAll, Own
<1>2. CASE InsertRow(r)
  <2>1. CASE Registered(req[r].target)
    BY <1>2, <2>1, AnsweredKeeps DEF InsertRow, InsertOrViolate, Answers
  <2>2. CASE ~Registered(req[r].target)
    <3>1. req[r].op = "create"
      BY <1>2 DEF InsertRow, IInv, OwnAll, Own
    <3> QED
      BY <1>2, <2>2, <3>1, HoldsKeeps DEF InsertRow, InsertOrViolate, UnderWay
  <2> QED
    BY <2>1, <2>2
<1>3. CASE LoadRow(r)
  BY <1>3, AnsweredKeeps, GoesKeeps
  DEF LoadRow, Answers, UnderWay, IInv, OwnAll, Own
<1>4. CASE CountVms(r)
  BY <1>4, AnsweredKeeps, GoesKeeps
  DEF CountVms, Answers, UnderWay, IInv, OwnAll, Own
<1>5. CASE RemoveRow(r)
  <2>1. CASE req[r].id \in vms
    BY <1>5, <2>1, AnsweredKeeps DEF RemoveRow, Answers
  <2>2. CASE req[r].id \notin vms
    <3>1. req[r].op = "delete"
      BY <1>5 DEF RemoveRow, IInv, OwnAll, Own
    <3> QED
      BY <1>5, <2>2, <3>1, HoldsKeeps DEF RemoveRow, UnderWay
  <2> QED
    BY <2>1, <2>2
<1>6. CASE Audit(r)
  BY <1>6, GoesKeeps DEF Audit, UnderWay
<1>7. CASE AuditFails(r)
  BY <1>7, AuditFailsKeeps
<1>8. CASE Commit(r)
  BY <1>8, CommitKeeps
<1>9. CASE CommitRaises(r)
  BY <1>9, AnsweredKeeps DEF CommitRaises, Answers
<1>10. CASE Raises(r)
  BY <1>10, AnsweredKeeps DEF Raises, Answers
<1>11. CASE Return(r)
  BY <1>11, ReturnKeeps
<1> QED
  BY <1>1, <1>2, <1>3, <1>4, <1>5, <1>6, <1>7, <1>8, <1>9, <1>10, <1>11
  DEF Serve

LEMMA DieKeeps ==
    ASSUME IInv, NEW w \in Workers, Die(w)
    PROVE  OwnAll' /\ ApartAll' /\ OnlyCreatedGo' /\ AuditTellsTheTable'
<1>1. Idle.pc = "idle" /\ Idle.held = FALSE
  BY DEF Idle
<1>2. /\ \A s \in Reqs : req'[s] = Idle \/ req'[s] = req[s]
      /\ UNCHANGED <<rows, vms, log>>
  BY DEF Die
<1>3. OwnAll'
  <2>1. \A s \in Reqs : Own(req'[s])
    BY <1>1, <1>2 DEF IInv, OwnAll, Own, UnderWay
  <2> QED
    BY <1>2, <2>1 DEF OwnAll, Own, UnderWay, Registered
<1>4. ApartAll'
  BY <1>1, <1>2 DEF IInv, ApartAll, Apart, UnderWay
<1> QED
  BY <1>2, <1>3, <1>4 DEF IInv, OnlyCreatedGo, AuditTellsTheTable

\* The first machines of a connection: a DELETE that is flushed holds them off.
LEMMA CollectedKeeps ==
    ASSUME IInv, NEW i \in Ids, Collected(i)
    PROVE  OwnAll' /\ ApartAll' /\ OnlyCreatedGo' /\ AuditTellsTheTable'
<1>1. OwnAll'
  BY DEF Collected, IInv, OwnAll, Own, UnderWay, Registered
<1> QED
  BY <1>1
  DEF Collected, IInv, ApartAll, Apart, UnderWay, OnlyCreatedGo,
      AuditTellsTheTable

LEMMA InvInit == Init => IInv
<1> SUFFICES ASSUME Init PROVE IInv
  OBVIOUS
<1>1. Idle.pc = "idle" /\ Idle.held = FALSE
  BY DEF Idle
<1>2. OwnAll /\ ApartAll
  BY <1>1 DEF Init, AdminInit, OwnAll, Own, ApartAll, Apart, UnderWay
<1> QED
  BY <1>2, TypeInit
  DEF Init, AdminInit, IInv, OnlyCreatedGo, AuditTellsTheTable

LEMMA InvStep == IInv /\ [Next]_vars => IInv'
<1> SUFFICES ASSUME IInv, [Next]_vars
             PROVE  OwnAll' /\ ApartAll' /\ OnlyCreatedGo' /\ AuditTellsTheTable'
  BY TypeStep DEF IInv
<1>1. CASE UNCHANGED adminVars
  BY <1>1
  DEF adminVars, IInv, OwnAll, Own, ApartAll, Apart, UnderWay, Registered,
      OnlyCreatedGo, AuditTellsTheTable
<1>2. ASSUME NEW w \in Workers, Die(w)
      PROVE  OwnAll' /\ ApartAll' /\ OnlyCreatedGo' /\ AuditTellsTheTable'
  BY <1>2, DieKeeps
<1>3. ASSUME NEW w \in Workers, NEW r \in Reqs, Take(r, w)
      PROVE  OwnAll' /\ ApartAll' /\ OnlyCreatedGo' /\ AuditTellsTheTable'
  BY <1>3, BeginKeeps DEF Take
<1>4. ASSUME NEW r \in Reqs, Step(r)
      PROVE  OwnAll' /\ ApartAll' /\ OnlyCreatedGo' /\ AuditTellsTheTable'
  BY <1>4, ServeKeeps DEF Step
<1>5. ASSUME NEW i \in Ids, FirstVms(i)
      PROVE  OwnAll' /\ ApartAll' /\ OnlyCreatedGo' /\ AuditTellsTheTable'
  BY <1>5, CollectedKeeps DEF FirstVms
<1> QED
  BY <1>1, <1>2, <1>3, <1>4, <1>5 DEF Next, Boot, vars, adminVars

LEMMA InvHolds == Spec => []IInv
BY InvInit, InvStep, PTL DEF Spec

-----------------------------------------------------------------------------
(* What follows                                                            *)

\* A connection is in the table if and only if the log says so, although the
\* failure of an audit event is swallowed (AuditRepository.record).
THEOREM AuditTold == Spec => []AuditTellsTheTable
<1>1. IInv => AuditTellsTheTable
  BY DEF IInv
<1> QED
  BY <1>1, InvHolds, PTL

LEMMA AnswerStep ==
    ASSUME IInv, [Next]_vars, NEW r \in Reqs, req[r].answer = "none",
           req'[r].answer # "none"
    PROVE  /\ req'[r].answer = "201" =>
                /\ rows'[req[r].id] = req[r].target
                /\ <<"create", req[r].id>> \in log'
           /\ req'[r].answer = "204" =>
                /\ rows'[req[r].id] = NoRow
                /\ <<"delete", req[r].id>> \in log'
           /\ req'[r].answer \notin {"201", "204"} => UNCHANGED <<rows, log>>
<1> /\ req \in [Reqs -> Request] /\ rows \in [Ids -> Targets \cup {NoRow}]
  BY DEF IInv, TypeOK, AdminTypeOK
<1>1. Idle.answer = "none"
  BY DEF Idle
<1>2. PICK s \in Reqs : Serve(s)
  <2>1. ASSUME NEW s \in Reqs, NEW w \in Workers, Take(s, w) PROVE FALSE
    <3>1. CASE BeginCreate(s, w)
      <4>1. PICK i \in FreshIds, t \in Targets :
              Becomes(s, [Idle EXCEPT !.pc = "find", !.home = w,
                                      !.op = "create", !.id = i, !.target = t])
        BY <3>1 DEF BeginCreate
      <4>2. [Idle EXCEPT !.pc = "find", !.home = w, !.op = "create", !.id = i,
                         !.target = t].answer = "none"
        BY <1>1, IdleTyped DEF Request
      <4> QED
        BY <4>1, <4>2 DEF Becomes
    <3>2. CASE BeginDelete(s, w)
      <4>1. PICK i \in Ids :
              Becomes(s, [Idle EXCEPT !.pc = "load", !.home = w,
                                      !.op = "delete", !.id = i])
        BY <3>2 DEF BeginDelete
      <4>2. [Idle EXCEPT !.pc = "load", !.home = w, !.op = "delete",
                         !.id = i].answer = "none"
        BY <1>1, IdleTyped DEF Request
      <4> QED
        BY <4>1, <4>2 DEF Becomes
    <3> QED
      BY <2>1, <3>1, <3>2 DEF Take
  <2>2. ASSUME NEW w \in Workers, Die(w) PROVE FALSE
    BY <1>1, <2>2 DEF Die
  <2>3. ~UNCHANGED req
    OBVIOUS
  <2> QED
    BY <2>1, <2>2, <2>3
    DEF Next, Boot, Step, FirstVms, Collected, adminVars, vars
<1>3. CASE Commit(s)
  <2>1. /\ req[s] \in Request
        /\ Answered(s, IF req[s].op = "create" THEN "201" ELSE "204")
        /\ rows' = RowsAfter(s) /\ log' = log \cup {<<req[s].op, req[s].id>>}
    BY <1>3 DEF Commit, Commits, Events
  <2>2. s = r
    BY <2>1 DEF Answered, Becomes
  <2>3. req'[r].answer = IF req[r].op = "create" THEN "201" ELSE "204"
    BY <2>1, <2>2 DEF Answered, Becomes, Request
  <2>4. req[r].op \in {"create", "delete"} /\ req[r].id \in Ids
    BY <2>1, <2>2 DEF Request
  <2> QED
    BY <2>1, <2>2, <2>3, <2>4 DEF RowsAfter
<1>4. CASE ~Commit(s)
  <2>1. UNCHANGED <<rows, log>>
    BY <1>2, <1>4
    DEF Serve, FindTarget, InsertRow, LoadRow, CountVms, RemoveRow, Audit,
        AuditFails, CommitRaises, Raises, Return
  <2>2. \/ \E a \in {"404", "409", "422", "500"} : Answered(s, a)
        \/ req'[r].answer = "none"
    <3>1. ASSUME NEW pc, Goes(s, pc) PROVE req'[r].answer = "none"
      BY <3>1 DEF Goes, Becomes, Request
    <3>2. ASSUME Becomes(s, [req[s] EXCEPT !.pc = "audit", !.held = TRUE])
          PROVE  req'[r].answer = "none"
      BY <3>2 DEF Becomes, Request
    <3>3. AuditFails(s) => req'[r].answer = "none"
      BY DEF AuditFails, Becomes, Request
    <3>4. Return(s) => req'[r].answer = "none"
      BY <1>1 DEF Return, Becomes
    <3> QED
      BY <1>2, <1>4, <3>1, <3>2, <3>3, <3>4
      DEF Serve, FindTarget, InsertRow, InsertOrViolate, LoadRow, CountVms,
          RemoveRow, Audit, CommitRaises, Raises
  <2>3. req'[r].answer \in {"404", "409", "422", "500"}
    <3>1. PICK a \in {"404", "409", "422", "500"} : Answered(s, a)
      BY <2>2
    <3> QED
      BY <3>1 DEF Answered, Becomes, Request
  <2> QED
    BY <2>1, <2>3
<1> QED
  BY <1>3, <1>4

\* An answer tells what has been committed (routes/connections.py: the commit
\* comes before the answer).
THEOREM AnswersTold == Spec => AnswersAreTrue
<1>1. IInv /\ [Next]_vars =>
        [\A r \in Reqs :
         /\ req'[r].answer = "201" /\ req[r].answer = "none" =>
              rows'[req[r].id] = req[r].target /\ <<"create", req[r].id>> \in log'
         /\ req'[r].answer = "204" /\ req[r].answer = "none" =>
              rows'[req[r].id] = NoRow /\ <<"delete", req[r].id>> \in log'
         /\ req'[r].answer \notin {"none", "201", "204"}
              /\ req[r].answer = "none" =>
              UNCHANGED <<rows, log>>]_<<rows, vms, log, req>>
  BY AnswerStep
<1> QED
  BY <1>1, InvHolds, PTL DEF Spec, AnswersAreTrue

-----------------------------------------------------------------------------
(* Refinement                                                              *)

\* The commit of a request is the operation it is about; the second of two
\* deletions of one connection changes nothing.
LEMMA CommitKeepsPromise ==
    ASSUME IInv, NEW r \in Reqs, Commit(r)
    PROVE  [Registry!Next]_(Registry!vars)
<1> DEFINE i == req[r].id
           t == req[r].target
<1>1. /\ req[r] \in Request /\ i \in Ids /\ req[r].held /\ Own(req[r])
      /\ UnderWay(req[r]) /\ req[r].op \in {"create", "delete"}
      /\ rows \in [Ids -> Targets \cup {NoRow}]
  BY DEF IInv, OwnAll, TypeOK, AdminTypeOK, Commit, Commits, Request, UnderWay
<1>2. /\ rows' = [rows EXCEPT ![i] = IF req[r].op = "create" THEN t ELSE NoRow]
      /\ log' = log \cup {<<req[r].op, i>>}
      /\ vms' = vms
  BY <1>1 DEF Commit, Commits, RowsAfter, Events
<1>3. CASE req[r].op = "create"
  <2>1. /\ t \in Targets /\ <<"create", i>> \notin log
        /\ \A j \in Ids : rows[j] # t
    BY <1>1, <1>3 DEF Own, Registered
  <2>2. rows[i] = NoRow
    BY <1>1, <2>1 DEF IInv, AuditTellsTheTable
  <2>3. Registry!Create(i, t)
    BY <1>2, <1>3, <2>1, <2>2 DEF Registry!Create
  <2> QED
    BY <1>1, <2>1, <2>3 DEF Registry!Next
<1>4. CASE req[r].op = "delete"
  <2>1. i \notin vms /\ <<"create", i>> \in log
    BY <1>1, <1>4 DEF Own
  <2>2. CASE rows[i] # NoRow
    <3>1. Registry!Delete(i)
      BY <1>2, <1>4, <2>1, <2>2 DEF Registry!Delete
    <3> QED
      BY <1>1, <3>1 DEF Registry!Next
  <2>3. CASE rows[i] = NoRow
    <3>1. <<"delete", i>> \in log
      BY <1>1, <2>1, <2>3 DEF IInv, AuditTellsTheTable
    <3>2. log' = log
      BY <1>2, <1>4, <3>1
    <3>3. rows' = rows
      BY <1>1, <1>2, <1>4, <2>3
    <3> QED
      BY <1>2, <3>2, <3>3 DEF Registry!vars
  <2> QED
    BY <2>2, <2>3
<1> QED
  BY <1>1, <1>3, <1>4

LEMMA StepKeepsPromise == IInv /\ [Next]_vars => [Registry!Next]_(Registry!vars)
<1> SUFFICES ASSUME IInv, [Next]_vars PROVE [Registry!Next]_(Registry!vars)
  OBVIOUS
<1>1. CASE UNCHANGED <<rows, vms, log>>
  BY <1>1 DEF Registry!vars
<1>2. ASSUME NEW r \in Reqs, Step(r) PROVE [Registry!Next]_(Registry!vars)
  <2>1. CASE Commit(r)
    BY <2>1, CommitKeepsPromise
  <2>2. CASE ~Commit(r)
    BY <1>1, <1>2, <2>2
    DEF Step, Serve, FindTarget, InsertRow, LoadRow, CountVms, RemoveRow,
        Audit, AuditFails, CommitRaises, Raises, Return
  <2> QED
    BY <2>1, <2>2
<1>3. ASSUME NEW i \in Ids, FirstVms(i) PROVE [Registry!Next]_(Registry!vars)
  <2>1. Registry!Collect(i)
    BY <1>3 DEF FirstVms, Collected, Registry!Collect
  <2> QED
    BY <2>1 DEF Registry!Next
<1> QED
  BY <1>1, <1>2, <1>3
  DEF Next, Boot, Die, Take, BeginCreate, BeginDelete, adminVars, vars

\* Creations and deletions that overlap at every await, in any number of
\* workers that may die, do what single atomic ones do: a target is
\* registered once, what has machines is not deleted, and the event is there.
THEOREM OverlapKeepsPromise == Spec => ImplementsRegistry
<1>1. Init => Registry!Init
  BY DEF Init, AdminInit, Registry!Init
<1> QED
  BY <1>1, StepKeepsPromise, InvHolds, PTL
  DEF Spec, ImplementsRegistry, Registry!Spec
=============================================================================
