--------------------------- MODULE CollectionProofs ---------------------------
(* Theorems about Collection, for every number of workers, connections,
   machines and requests, every batch size and every set of faults. *)
EXTENDS Collection, FiniteSetTheorems, TLAPS

-----------------------------------------------------------------------------
(* Type correctness                                                        *)

LEMMA IdleType == CollectionAssumption => Idle \in Task
<1> SUFFICES ASSUME CollectionAssumption PROVE Idle \in Task
  OBVIOUS
<1>1. (CHOOSE w \in Workers : TRUE) \in Workers
  BY DEF CollectionAssumption
<1>2. (CHOOSE c \in Conns : TRUE) \in Conns
  BY DEF CollectionAssumption
<1>3. NewRow \in ConnRow
  BY DEF NewRow, ConnRow
<1> HIDE DEF NewRow
<1>4. QED
  BY <1>1, <1>2, <1>3 DEF Idle, Task, Steps

\* An UPDATE and a mark of well-formed rows give a well-formed row.
LEMMA RowTypes ==
  ASSUME NEW current \in ConnRow, NEW loaded \in ConnRow, NEW at \in Nat,
         NEW result \in Failures \cup {"active"}
  PROVE  /\ Updated(current, loaded, Attempted(loaded, at)) \in ConnRow
         /\ Updated(current, loaded, Marked(loaded, result, at)) \in ConnRow
<1>1. Attempted(loaded, at) \in ConnRow
  BY DEF Attempted, ConnRow
<1>2. Marked(loaded, result, at) \in ConnRow
  BY DEF Marked, ConnRow
<1>3. ASSUME NEW wanted \in ConnRow
      PROVE  Updated(current, loaded, wanted) \in ConnRow
  BY DEF Updated, ConnRow
<1>4. QED
  BY <1>1, <1>2, <1>3

\* A request that becomes a well-formed task leaves well-formed tasks.
LEMMA BecomesType ==
  ASSUME TypeOK, NEW r \in Reqs, NEW t \in Task, Becomes(r, t)
  PROVE  task' \in [Reqs -> Task]
BY DEF TypeOK, Becomes

LEMMA ReleaseType ==
  ASSUME CollectionAssumption, TypeOK, NEW r \in Reqs, Release(r)
  PROVE  /\ task' \in [Reqs -> Task]
         /\ running' \in [Workers -> SUBSET Conns]
<1>1. task[r].home \in Workers /\ task[r].target \in Conns
  BY DEF TypeOK, Task
<1>2. QED
  BY <1>1, IdleType, BecomesType DEF TypeOK, Release

LEMMA AbandonType ==
  ASSUME TypeOK, NEW r \in Reqs, Abandon(r)
  PROVE  task' \in [Reqs -> Task]
<1>1. task[r] \in Task
  BY DEF TypeOK
<1> DEFINE step == IF task[r].result = "collection_error"
                   THEN "done" ELSE "mark"
<1> DEFINE t == [task[r] EXCEPT !.pc = step, !.result = "collection_error",
                                !.open = FALSE, !.listing = {}, !.batch = {},
                                !.fresh = {}, !.wrote = {}]
<1>2. step \in Steps
  BY DEF Steps
<1> HIDE DEF step
<1>3. t \in Task
  BY <1>1, <1>2 DEF Task, Failures
<1>4. Becomes(r, t)
  BY DEF Abandon, step
<1>5. QED
  BY <1>3, <1>4, BecomesType

\* What each step of a collection does to the types.
LEMMA AdvanceType ==
  ASSUME CollectionAssumption, TypeOK, NEW r \in Reqs, Advance(r) \/ Fault(r)
  PROVE  TypeOK'
<1> DEFINE t == task[r]
<1>t. t \in Task
  BY DEF TypeOK
<1>row. row[t.target] \in ConnRow
  BY <1>t DEF TypeOK, Task
<1>0. CASE Find(r)
  <2>1. [t EXCEPT !.pc = "found"] \in Task
    BY <1>t DEF Task, Steps
  <2>2. QED
    BY <1>0, <2>1, BecomesType, ReleaseType DEF Find, TypeOK
<1>1. CASE AttemptRead(r)
  <2>1. clock + 1 \in Nat
    BY DEF TypeOK
  <2>2. [t EXCEPT !.pc = "attempting", !.at = clock + 1,
                  !.loaded = row[t.target]] \in Task
    BY <1>t, <1>row, <2>1 DEF Task, Steps
  <2>3. [t EXCEPT !.pc = "queued", !.at = clock + 1] \in Task
    BY <1>t, <2>1 DEF Task, Steps
  <2>4. QED
    BY <1>1, <2>1, <2>2, <2>3, BecomesType DEF AttemptRead, TypeOK
<1>2. CASE AttemptWrite(r)
  <2>1. CASE t.target \in exists
    <3>1. Updated(row[t.target], t.loaded, Attempted(t.loaded, t.at))
            \in ConnRow
      BY <1>t, <1>row, RowTypes DEF Task
    <3>2. row' \in [Conns -> ConnRow]
      BY <1>2, <2>1, <3>1 DEF AttemptWrite, TypeOK
    <3>3. [t EXCEPT !.pc = "queued"] \in Task
      BY <1>t DEF Task, Steps
    <3>4. QED
      BY <1>2, <2>1, <3>2, <3>3, BecomesType DEF AttemptWrite, TypeOK
  <2>2. CASE t.target \notin exists
    BY <1>2, <2>2, ReleaseType DEF AttemptWrite, TypeOK
  <2>3. QED
    BY <2>1, <2>2
<1>3. CASE Load(r)
  <2>1. clock + 1 \in Nat
    BY DEF TypeOK
  <2>2. [t EXCEPT !.pc = "connect", !.at = clock + 1] \in Task
    BY <1>t, <2>1 DEF Task, Steps
  <2>3. [t EXCEPT !.pc = "done"] \in Task
    BY <1>t DEF Task, Steps
  <2>4. QED
    BY <1>3, <2>1, <2>2, <2>3, BecomesType DEF Load, TypeOK
<1>4. CASE Connect(r)
  <2>1. PICK listing \in SUBSET Vms :
          Becomes(r, [t EXCEPT !.pc = "listing", !.open = TRUE,
                               !.listing = listing])
    BY <1>4 DEF Connect
  <2>2. [t EXCEPT !.pc = "listing", !.open = TRUE, !.listing = listing] \in Task
    BY <1>t DEF Task, Steps
  <2>3. QED
    BY <1>4, <2>1, <2>2, BecomesType DEF Connect, TypeOK
<1>5. CASE ConnectFails(r)
  <2>1. PICK f \in {"credential_error", "permission_error", "unreachable"} :
          Becomes(r, [t EXCEPT !.pc = "mark", !.result = f])
    BY <1>5 DEF ConnectFails
  <2>2. [t EXCEPT !.pc = "mark", !.result = f] \in Task
    BY <1>t DEF Task, Steps, Failures
  <2>3. QED
    BY <1>5, <2>1, <2>2, BecomesType DEF ConnectFails, TypeOK
<1>6. CASE FillBatch(r)
  <2>1. PICK batch \in SUBSET t.listing :
          Becomes(r, [t EXCEPT !.pc = "flush", !.listing = @ \ batch,
                               !.batch = batch,
                               !.fresh = Unidentified(t, batch)])
    BY <1>6 DEF FillBatch
  <2>2. batch \subseteq Vms /\ t.listing \ batch \subseteq Vms
    BY <1>t DEF Task
  <2>3. Unidentified(t, batch) \subseteq Vms
    BY <2>2 DEF Unidentified
  <2> HIDE DEF t
  <2>4. [t EXCEPT !.pc = "flush", !.listing = @ \ batch, !.batch = batch,
                  !.fresh = Unidentified(t, batch)] \in Task
    BY <1>t, <2>2, <2>3 DEF Task, Steps
  <2>5. QED
    BY <1>6, <2>1, <2>4, BecomesType DEF FillBatch, TypeOK
<1>7. CASE Flush(r)
  <2>1. t.wrote \cup t.batch \subseteq Vms
    BY <1>t DEF Task
  <2>2. [t EXCEPT !.pc = "listing", !.batch = {}, !.fresh = {},
                  !.wrote = @ \cup t.batch] \in Task
    BY <1>t, <2>1 DEF Task, Steps
  <2>3. QED
    BY <1>7, <2>2, BecomesType DEF Flush, TypeOK
<1>8. CASE FlushViolates(r) \/ FlushDeadlocked(r)
  BY <1>8, AbandonType DEF FlushViolates, FlushDeadlocked, TypeOK
<1>9. CASE EndListing(r)
  <2>1. PICK outcome \in {"active", "unreachable"} :
          Becomes(r, [t EXCEPT !.pc = "mark", !.open = FALSE,
                               !.result = outcome])
    BY <1>9 DEF EndListing
  <2>2. [t EXCEPT !.pc = "mark", !.open = FALSE, !.result = outcome] \in Task
    BY <1>t DEF Task, Steps, Failures
  <2>3. QED
    BY <1>9, <2>1, <2>2, BecomesType DEF EndListing, TypeOK
<1>10. CASE AuthLost(r)
  <2>1. [t EXCEPT !.pc = "mark", !.listing = {},
                  !.result = "credential_error"] \in Task
    BY <1>t DEF Task, Steps, Failures
  <2>2. QED
    BY <1>10, <2>1, BecomesType DEF AuthLost, TypeOK
<1>11. CASE MarkRead(r)
  <2>1. [t EXCEPT !.pc = "marking", !.loaded = row[t.target]] \in Task
    BY <1>t, <1>row DEF Task, Steps
  <2>2. [t EXCEPT !.pc = "commit", !.open = FALSE] \in Task
    BY <1>t DEF Task, Steps
  <2>3. QED
    BY <1>11, <2>1, <2>2, BecomesType DEF MarkRead, TypeOK
<1>12. CASE MarkFlush(r)
  <2>1. [t EXCEPT !.pc = "commit", !.open = FALSE] \in Task
    BY <1>t DEF Task, Steps
  <2>2. QED
    BY <1>12, <2>1, BecomesType, AbandonType DEF MarkFlush, TypeOK
<1>13. CASE Commit(r)
  <2>1. Updated(row[t.target], t.loaded, Marked(t.loaded, t.result, t.at))
          \in ConnRow
    BY <1>t, <1>row, RowTypes DEF Task
  <2>2. row' \in [Conns -> ConnRow]
    BY <1>13, <2>1 DEF Commit, TypeOK
  <2>3. seen' \in [Conns -> [Vms -> Nat]]
    BY <1>13, <1>t DEF Commit, TypeOK, Task
  <2>4. [t EXCEPT !.pc = "done", !.wrote = {}] \in Task
    BY <1>t DEF Task, Steps
  <2>5. QED
    BY <1>13, <2>2, <2>3, <2>4, BecomesType DEF Commit, TypeOK
<1>14. CASE Finish(r) \/ AttemptFails(r)
  BY <1>14, ReleaseType DEF Finish, AttemptFails, TypeOK
<1>15. CASE Exception(r) \/ RecordFails(r)
  BY <1>15, AbandonType DEF Exception, RecordFails, TypeOK
<1>16. QED
  BY <1>0, <1>1, <1>2, <1>3, <1>4, <1>5, <1>6, <1>7, <1>8, <1>9, <1>10,
     <1>11, <1>12, <1>13, <1>14, <1>15 DEF Advance, Fault

LEMMA TypeStep ==
  ASSUME CollectionAssumption, TypeOK, [Next]_vars
  PROVE  TypeOK'
<1>1. CASE UNCHANGED vars
  BY <1>1 DEF TypeOK, vars
<1>2. ASSUME NEW r \in Reqs, NEW w \in Workers, NEW c \in Conns, Start(r, w, c)
      PROVE  TypeOK'
  <2>1. [Idle EXCEPT !.pc = "attempt", !.home = w, !.target = c] \in Task
    BY IdleType DEF Task, Steps
  <2>2. QED
    BY <1>2, <2>1, BecomesType DEF TypeOK, Start
<1>0. ASSUME NEW w \in Workers, NEW c \in Conns, StartRaises(w, c)
      PROVE  TypeOK'
  BY <1>0 DEF TypeOK, StartRaises
<1>3. ASSUME NEW r \in Reqs, Advance(r) \/ Fault(r)
      PROVE  TypeOK'
  BY <1>3, AdvanceType
<1>4. ASSUME NEW c \in Conns, DeleteCount(c) \/ DeleteRow(c)
      PROVE  TypeOK'
  BY <1>4 DEF DeleteCount, DeleteRow, TypeOK
<1>5. ASSUME NEW w \in Workers, Crash(w)
      PROVE  TypeOK'
  BY <1>5, IdleType DEF Crash, TypeOK
<1>6. QED
  BY <1>0, <1>1, <1>2, <1>3, <1>4, <1>5 DEF Next

\* Every behaviour is well typed.
THEOREM TypeCorrect == Spec => []TypeOK
<1>1. Init => TypeOK
  <2> NewRow \in ConnRow
    BY DEF NewRow, ConnRow
  <2> QED
    BY IdleType, CollectionAssumption DEF Init, TypeOK
<1>2. TypeOK /\ [Next]_vars => TypeOK'
  BY TypeStep, CollectionAssumption
<1>3. QED
  BY <1>1, <1>2, PTL DEF Spec

-----------------------------------------------------------------------------
(* The guard                                                               *)

\* A live task goes on with the same process and the same connection.
GoesOn(r) ==
    /\ Live(r)
    /\ UNCHANGED running
    /\ \E t \in Task : /\ Becomes(r, t)
                       /\ t.pc # "idle"
                       /\ t.home = task[r].home
                       /\ t.target = task[r].target

\* A step of a collection either lets its task go on or ends it and leaves the
\* guard: no third way exists by which a task could be lost.
LEMMA AdvanceShape ==
  ASSUME CollectionAssumption, TypeOK, NEW r \in Reqs, Advance(r) \/ Fault(r)
  PROVE  (Live(r) /\ Release(r)) \/ GoesOn(r)
<1> DEFINE t == task[r]
<1>t. t \in Task
  BY DEF TypeOK
<1>next. TypeOK'
  BY AdvanceType
<1>next_t. task'[r] \in Task
  BY <1>next DEF TypeOK
<1>live. ASSUME t.pc # "idle", UNCHANGED running, NEW u, Becomes(r, u),
                u.pc # "idle", u.home = t.home, u.target = t.target
         PROVE  GoesOn(r)
  <2>1. task'[r] = u
    BY <1>live DEF Becomes, TypeOK
  <2>2. QED
    BY <1>live, <1>next_t, <2>1 DEF GoesOn, Live
<1>abandon. ASSUME t.pc # "idle", UNCHANGED running, Abandon(r)
            PROVE  GoesOn(r)
  <2> DEFINE u == [task[r] EXCEPT !.pc = IF task[r].result = "collection_error"
                                         THEN "done" ELSE "mark",
                               !.result = "collection_error", !.open = FALSE,
                               !.listing = {}, !.batch = {}, !.fresh = {},
                               !.wrote = {}]
  <2>1. Becomes(r, u)
    BY <1>abandon DEF Abandon
  <2>2. u.pc # "idle" /\ u.home = t.home /\ u.target = t.target
    BY <1>t DEF Task
  <2> HIDE DEF u
  <2>3. QED
    BY <1>abandon, <1>live, <2>1, <2>2
<1>1. CASE Find(r) \/ AttemptRead(r) \/ AttemptWrite(r)
  BY <1>1, <1>t, <1>live DEF Find, AttemptRead, AttemptWrite, Live, Task
<1>2. CASE Load(r) \/ Connect(r) \/ ConnectFails(r)
  BY <1>2, <1>t, <1>live DEF Load, Connect, ConnectFails, Task
<1>3. CASE FillBatch(r) \/ Flush(r)
  BY <1>3, <1>t, <1>live DEF FillBatch, Flush, Task
<1>4. CASE FlushViolates(r) \/ FlushDeadlocked(r) \/ Exception(r)
           \/ RecordFails(r)
  BY <1>4, <1>abandon
  DEF FlushViolates, FlushDeadlocked, InRing, Exception, RecordFails
<1>5. CASE EndListing(r) \/ AuthLost(r) \/ MarkRead(r)
  BY <1>5, <1>t, <1>live DEF EndListing, AuthLost, MarkRead, Task
<1>6. CASE MarkFlush(r)
  BY <1>6, <1>t, <1>live, <1>abandon DEF MarkFlush, Task
<1>7. CASE Commit(r)
  BY <1>7, <1>t, <1>live DEF Commit, Task
<1>8. CASE Finish(r) \/ AttemptFails(r)
  BY <1>8 DEF Finish, AttemptFails, Live
<1>9. QED
  BY <1>1, <1>2, <1>3, <1>4, <1>5, <1>6, <1>7, <1>8 DEF Advance, Fault

\* Ending the task of a connection takes exactly that connection off the guard.
LEMMA GuardRelease ==
  ASSUME TypeOK, GuardIsExact, NEW r \in Reqs, Live(r), Release(r)
  PROVE  GuardIsExact'
<1>1. task' = [task EXCEPT ![r] = Idle] /\ Idle.pc = "idle"
  BY DEF Release, Becomes, Idle
<1>2. \A q \in Reqs : /\ Live(q)' <=> Live(q) /\ q # r
                      /\ q # r => task'[q] = task[q]
  BY <1>1 DEF TypeOK, Live
<1>3. \A w \in Workers, c \in Conns :
        c \in running'[w] <=> /\ c \in running[w]
                              /\ ~(w = task[r].home /\ c = task[r].target)
  BY DEF Release, TypeOK
<1>4. QED
  BY <1>2, <1>3 DEF GuardIsExact

LEMMA GuardGoesOn ==
  ASSUME TypeOK, GuardIsExact, NEW r \in Reqs, GoesOn(r)
  PROVE  GuardIsExact'
<1>1. \A q \in Reqs : /\ Live(q)' <=> Live(q)
                      /\ task'[q].home = task[q].home
                      /\ task'[q].target = task[q].target
  BY DEF GoesOn, Becomes, Live, TypeOK
<1>2. QED
  BY <1>1 DEF GuardIsExact, GoesOn

LEMMA GuardStart ==
  ASSUME TypeOK, GuardIsExact,
         NEW r \in Reqs, NEW w \in Workers, NEW c \in Conns, Start(r, w, c)
  PROVE  GuardIsExact'
<1> DEFINE t == [Idle EXCEPT !.pc = "attempt", !.home = w, !.target = c]
<1>1. t.pc = "attempt" /\ t.home = w /\ t.target = c
  BY DEF Idle
<1>2. task' = [task EXCEPT ![r] = t]
  BY DEF Start, Becomes
<1> HIDE DEF t
<1>3. /\ Live(r)' /\ task'[r].home = w /\ task'[r].target = c
      /\ \A q \in Reqs \ {r} : (Live(q)' <=> Live(q)) /\ task'[q] = task[q]
  BY <1>1, <1>2 DEF TypeOK, Live
<1>4. ~Live(r) /\ c \notin running[w] /\ w \notin BadKey
  BY DEF Start, MayStart
<1>5. \A x \in Workers, d \in Conns :
        d \in running'[x] <=> d \in running[x] \/ (x = w /\ d = c)
  BY DEF Start, TypeOK
<1>6. QED
  BY <1>3, <1>4, <1>5 DEF GuardIsExact

LEMMA GuardCrash ==
  ASSUME TypeOK, GuardIsExact, NEW w \in Workers, Crash(w)
  PROVE  GuardIsExact'
<1>1. \A q \in Reqs : /\ Live(q)' <=> Live(q) /\ task[q].home # w
                      /\ task[q].home # w => task'[q] = task[q]
  BY DEF Crash, Live, Idle
<1>2. \A x \in Workers : running'[x] = IF x = w THEN {} ELSE running[x]
  BY DEF Crash, TypeOK
<1>3. QED
  BY <1>1, <1>2 DEF GuardIsExact

\* The guard of each worker is exactly the set of connections it works on, one
\* task each, whatever fails and whenever a process dies, if the worker can
\* decode its key; a worker that cannot works on nothing.
THEOREM GuardExact == Spec => []GuardIsExact
<1>1. Init => GuardIsExact
  <2>1. Idle.pc = "idle"
    BY DEF Idle
  <2>2. QED
    BY <2>1 DEF Init, GuardIsExact, Live
<1>2. TypeOK /\ GuardIsExact /\ [Next]_vars => GuardIsExact'
  <2> SUFFICES ASSUME TypeOK, GuardIsExact, [Next]_vars PROVE GuardIsExact'
    OBVIOUS
  <2>1. CASE UNCHANGED vars
    BY <2>1 DEF GuardIsExact, Live, vars
  <2>2. ASSUME NEW r \in Reqs, Advance(r) \/ Fault(r) PROVE GuardIsExact'
    BY <2>2, AdvanceShape, GuardRelease, GuardGoesOn, CollectionAssumption
  <2>3. ASSUME NEW c \in Conns, DeleteCount(c) \/ DeleteRow(c)
        PROVE  GuardIsExact'
    BY <2>3 DEF DeleteCount, DeleteRow, GuardIsExact, Live
  <2>4. ASSUME NEW w \in Workers, NEW c \in Conns, StartRaises(w, c)
        PROVE  GuardIsExact'
    BY <2>4 DEF StartRaises, GuardIsExact, Live, TypeOK
  <2>5. QED
    BY <2>1, <2>2, <2>3, <2>4, GuardStart, GuardCrash DEF Next
<1>3. QED
  BY <1>1, <1>2, TypeCorrect, PTL DEF Spec

\* What a worker that cannot decode its key has registered stays registered,
\* until the process ends, and no collection of it ever runs: the connection
\* is refused as already_running (start_collection, before its try).
THEOREM BadKeyKeepsTheGuard ==
  ASSUME NEW w \in BadKey
  PROVE  Spec => /\ [][running[w] \subseteq running'[w]]_vars
                 /\ [](\A r \in Reqs : Live(r) => task[r].home # w)
<1>w. w \in Workers
  BY CollectionAssumption DEF CollectionAssumption
<1>1. GuardIsExact => \A r \in Reqs : Live(r) => task[r].home # w
  BY DEF GuardIsExact
<1>2. TypeOK /\ GuardIsExact /\ [Next]_vars
        => [running[w] \subseteq running'[w]]_vars
  <2> SUFFICES ASSUME TypeOK, GuardIsExact, Next
               PROVE  running[w] \subseteq running'[w]
    BY DEF vars
  <2>1. ASSUME NEW r \in Reqs, Advance(r) \/ Fault(r)
        PROVE  running'[w] = running[w]
    <3>1. (Live(r) /\ Release(r)) \/ GoesOn(r)
      BY <2>1, AdvanceShape, CollectionAssumption
    <3>2. Live(r) => task[r].home # w
      BY <1>1
    <3>3. QED
      BY <3>1, <3>2, <1>w DEF Release, GoesOn, TypeOK
  <2>2. ASSUME NEW v \in Workers, Crash(v) PROVE running'[w] = running[w]
    BY <2>2, <1>1, <1>w DEF Crash, TypeOK
  <2>3. ASSUME NEW v \in Workers, NEW c \in Conns,
               StartRaises(v, c) \/ \E r \in Reqs : Start(r, v, c)
        PROVE  running[w] \subseteq running'[w]
    BY <2>3, <1>w DEF StartRaises, Start, TypeOK
  <2>4. ASSUME NEW c \in Conns, DeleteCount(c) \/ DeleteRow(c)
        PROVE  running'[w] = running[w]
    BY <2>4 DEF DeleteCount, DeleteRow
  <2>5. QED
    BY <2>1, <2>2, <2>3, <2>4 DEF Next
<1>3. QED
  BY <1>1, <1>2, TypeCorrect, GuardExact, PTL DEF Spec

\* With one worker process no connection is ever collected twice at a time.
THEOREM OneWorkerCollectsOnce ==
  ASSUME NEW w, Workers = {w}
  PROVE  Spec => []OneCollectionPerConnection
<1>1. TypeOK /\ GuardIsExact => OneCollectionPerConnection
  BY DEF TypeOK, Task, GuardIsExact, OneCollectionPerConnection
<1>2. QED
  BY <1>1, TypeCorrect, GuardExact, PTL

-----------------------------------------------------------------------------
(* The hypervisor session                                                  *)

\* One task's part of ReaderSessionReleased.
SessionAccounted(t) ==
    t.open => \/ t.pc \in {"listing", "flush"}
              \/ t.pc \in {"mark", "marking"} /\ t.result = "credential_error"

\* A step of a collection changes no other task.
LEMMA AdvanceAlone ==
  ASSUME CollectionAssumption, TypeOK, NEW r \in Reqs, Advance(r) \/ Fault(r)
  PROVE  \A q \in Reqs \ {r} : task'[q] = task[q]
BY AdvanceShape DEF GoesOn, Release, Becomes, TypeOK

\* The task that took the step has its session accounted for.
LEMMA SessionStep ==
  ASSUME TypeOK, NEW r \in Reqs, SessionAccounted(task[r]),
         Advance(r) \/ Fault(r)
  PROVE  SessionAccounted(task'[r])
<1> DEFINE t == task[r]
<1>t. t \in Task
  BY DEF TypeOK
<1>now. ASSUME NEW u, Becomes(r, u) PROVE task'[r] = u
  BY <1>now DEF Becomes, TypeOK
<1>release. Release(r) => SessionAccounted(task'[r])
  <2>1. ~Idle.open
    BY DEF Idle
  <2>2. QED
    BY <2>1, <1>now DEF Release, SessionAccounted
<1>abandon. ASSUME Abandon(r) PROVE SessionAccounted(task'[r])
  <2>1. ~task'[r].open
    BY <1>abandon, <1>t, <1>now DEF Abandon, Task
  <2>2. QED
    BY <2>1 DEF SessionAccounted
<1>same. ASSUME NEW u, Becomes(r, u), u.open = t.open, u.result = t.result,
                \/ u.pc = t.pc
                \/ u.pc \in {"listing", "flush"}
                \/ t.pc = "mark" /\ u.pc = "marking"
                \/ t.pc \notin {"listing", "flush", "mark", "marking"}
         PROVE  SessionAccounted(task'[r])
  BY <1>same, <1>now DEF SessionAccounted
<1>1. CASE Find(r) \/ AttemptRead(r) \/ AttemptWrite(r)
  BY <1>1, <1>t, <1>release, <1>same
  DEF Find, AttemptRead, AttemptWrite, Task
<1>2. CASE Load(r) \/ FillBatch(r) \/ Flush(r)
  BY <1>2, <1>t, <1>same DEF Load, FillBatch, Flush, Task
<1>3. CASE Connect(r)
  <2>1. task'[r].pc = "listing"
    BY <1>3, <1>t, <1>now DEF Connect, Task
  <2>2. QED
    BY <2>1 DEF SessionAccounted
<1>4. CASE ConnectFails(r)
  <2>1. task'[r].open = t.open /\ ~t.open
    BY <1>4, <1>t, <1>now DEF ConnectFails, SessionAccounted, Task
  <2>2. QED
    BY <2>1 DEF SessionAccounted
<1>5. CASE EndListing(r)
  <2>1. ~task'[r].open
    BY <1>5, <1>t, <1>now DEF EndListing, Task
  <2>2. QED
    BY <2>1 DEF SessionAccounted
<1>6. CASE AuthLost(r)
  <2>1. task'[r].pc = "mark" /\ task'[r].result = "credential_error"
    BY <1>6, <1>t, <1>now DEF AuthLost, Task
  <2>2. QED
    BY <2>1 DEF SessionAccounted
<1>7. CASE MarkRead(r)
  <2>1. \/ ~task'[r].open
        \/ /\ task'[r].open = t.open /\ task'[r].result = t.result
           /\ task'[r].pc = "marking" /\ t.pc = "mark"
    BY <1>7, <1>t, <1>now DEF MarkRead, Task
  <2>2. QED
    BY <2>1 DEF SessionAccounted
<1>8. CASE MarkFlush(r)
  <2>1. Abandon(r) \/ ~task'[r].open
    BY <1>8, <1>t, <1>now DEF MarkFlush, Task
  <2>2. QED
    BY <2>1, <1>abandon DEF SessionAccounted
<1>9. CASE Commit(r)
  <2>1. task'[r].open = t.open /\ ~t.open
    BY <1>9, <1>t, <1>now DEF Commit, SessionAccounted, Task
  <2>2. QED
    BY <2>1 DEF SessionAccounted
<1>10. CASE Finish(r) \/ AttemptFails(r)
  BY <1>10, <1>release DEF Finish, AttemptFails
<1>11. CASE FlushViolates(r) \/ FlushDeadlocked(r) \/ Exception(r)
            \/ RecordFails(r)
  BY <1>11, <1>abandon
  DEF FlushViolates, FlushDeadlocked, Exception, RecordFails
<1>12. QED
  BY <1>1, <1>2, <1>3, <1>4, <1>5, <1>6, <1>7, <1>8, <1>9, <1>10, <1>11
  DEF Advance, Fault

\* Every way out of a collection closes the hypervisor session.
THEOREM SessionReleased == Spec => []ReaderSessionReleased
<1> DEFINE Inv == \A r \in Reqs : SessionAccounted(task[r])
<1>0. Inv <=> ReaderSessionReleased
  BY DEF SessionAccounted, ReaderSessionReleased
<1>idle. SessionAccounted(Idle)
  BY DEF SessionAccounted, Idle
<1>1. Init => Inv
  BY <1>idle DEF Init
<1>2. TypeOK /\ Inv /\ [Next]_vars => Inv'
  <2> SUFFICES ASSUME TypeOK, Inv, [Next]_vars PROVE Inv'
    OBVIOUS
  <2>1. CASE UNCHANGED vars
    BY <2>1 DEF vars
  <2>2. ASSUME NEW r \in Reqs, NEW t, Becomes(r, t), SessionAccounted(t)
        PROVE  Inv'
    BY <2>2 DEF Becomes, TypeOK
  <2>3. ASSUME NEW r \in Reqs, Advance(r) \/ Fault(r) PROVE Inv'
    BY <2>3, SessionStep, AdvanceAlone, CollectionAssumption
  <2>4. ASSUME NEW r \in Reqs, NEW w \in Workers, NEW c \in Conns,
               Start(r, w, c)
        PROVE  Inv'
    <3>1. SessionAccounted([Idle EXCEPT !.pc = "attempt", !.home = w,
                                        !.target = c])
      BY DEF SessionAccounted, Idle
    <3>2. QED
      BY <2>2, <2>4, <3>1 DEF Start
  <2>5. ASSUME NEW c \in Conns, DeleteCount(c) \/ DeleteRow(c) PROVE Inv'
    BY <2>5 DEF DeleteCount, DeleteRow
  <2>6. ASSUME NEW w \in Workers, Crash(w) PROVE Inv'
    BY <2>6, <1>idle DEF Crash
  <2>7. ASSUME NEW w \in Workers, NEW c \in Conns, StartRaises(w, c)
        PROVE  Inv'
    BY <2>7 DEF StartRaises
  <2>8. QED
    BY <2>1, <2>3, <2>4, <2>5, <2>6, <2>7 DEF Next
<1>3. QED
  BY <1>0, <1>1, <1>2, TypeCorrect, PTL DEF Spec

-----------------------------------------------------------------------------
(* What a transaction may write                                            *)

\* What a collection knows of the VMs it writes: an attempt that was made has a
\* time, and a VM of the batch that is updated has a row, committed or written
\* by this transaction.
Identified(t) ==
    /\ t.pc \notin {"idle", "attempt", "found"} => t.at # 0
    /\ t.pc = "flush" => \A v \in t.batch \ t.fresh :
                            seen[t.target][v] # 0 \/ v \in t.wrote

OrphanInv == NoOrphanVms /\ \A r \in Reqs : Identified(task[r])

LEMMA Now ==
  ASSUME TypeOK, NEW r \in Reqs, NEW u, Becomes(r, u)
  PROVE  task'[r] = u
BY DEF Becomes, TypeOK

\* A request that was accepted.
LEMMA StartShape ==
  ASSUME TypeOK, NEW r \in Reqs, NEW w \in Workers, NEW c \in Conns,
         Start(r, w, c)
  PROVE  /\ task'[r].pc = "attempt" /\ task'[r].result = "active"
         /\ task'[r].wrote = {} /\ task'[r].target = c
         /\ \A q \in Reqs \ {r} : task'[q] = task[q]
<1> DEFINE t == [Idle EXCEPT !.pc = "attempt", !.home = w, !.target = c]
<1>1. t.pc = "attempt" /\ t.result = "active" /\ t.wrote = {} /\ t.target = c
  BY DEF Idle
<1>2. Becomes(r, t)
  BY DEF Start
<1> HIDE DEF t
<1>3. task'[r] = t
  BY <1>2, Now
<1>4. \A q \in Reqs \ {r} : task'[q] = task[q]
  BY <1>2 DEF Becomes, TypeOK
<1>5. QED
  BY <1>1, <1>3, <1>4

\* What an exception leaves of a task.
LEMMA AbandonShape ==
  ASSUME TypeOK, NEW r \in Reqs, Abandon(r)
  PROVE  /\ task'[r].pc = IF task[r].result = "collection_error"
                          THEN "done" ELSE "mark"
         /\ task'[r].result = "collection_error"
         /\ task'[r].target = task[r].target
         /\ task'[r].at = task[r].at
         /\ task'[r].wrote = {}
<1> DEFINE step == IF task[r].result = "collection_error"
                   THEN "done" ELSE "mark"
<1> DEFINE t == [task[r] EXCEPT !.pc = step, !.result = "collection_error",
                                !.open = FALSE, !.listing = {}, !.batch = {},
                                !.fresh = {}, !.wrote = {}]
<1>1. task[r] \in Task
  BY DEF TypeOK
<1>2. Becomes(r, t)
  BY DEF Abandon
<1> HIDE DEF step
<1>3. /\ t.pc = step /\ t.result = "collection_error"
      /\ t.target = task[r].target /\ t.at = task[r].at /\ t.wrote = {}
  BY <1>1 DEF Task
<1> HIDE DEF t
<1>4. task'[r] = t
  BY <1>2, Now
<1>5. QED
  BY <1>3, <1>4 DEF step

\* No step of a collection takes a VM row away, and none adds one to a
\* connection that is gone.
LEMMA RowsStay ==
  ASSUME TypeOK, OrphanInv, NEW r \in Reqs, Advance(r) \/ Fault(r)
  PROVE  /\ exists' = exists
         /\ \A c \in Conns, v \in Vms : seen[c][v] # 0 => seen'[c][v] # 0
         /\ \A c \in Conns \ exists : \A v \in Vms : seen'[c][v] = 0
<1> DEFINE t == task[r]
<1>t. t \in Task
  BY DEF TypeOK
<1>1. CASE Commit(r)
  <2>1. t.pc = "commit" /\ t.target \in Conns /\ t.wrote \subseteq Vms
    BY <1>1, <1>t DEF Commit, Task
  <2>2. t.at # 0 /\ (t.target \notin exists => t.wrote = {})
    BY <2>1 DEF OrphanInv, Identified, NoOrphanVms
  <2>3. \A c \in Conns, v \in Vms :
          seen'[c][v] = IF c = t.target /\ v \in t.wrote
                        THEN t.at ELSE seen[c][v]
    BY <1>1, <2>1 DEF Commit, TypeOK
  <2>4. exists' = exists
    BY <1>1 DEF Commit
  <2>5. QED
    BY <2>2, <2>3, <2>4 DEF OrphanInv, NoOrphanVms
<1>2. CASE ~Commit(r)
  <2>1. UNCHANGED <<exists, seen>>
    BY <1>2 DEF Advance, Fault, Find, AttemptRead, AttemptWrite, Load, Connect,
       ConnectFails, FillBatch, Flush, FlushViolates, FlushDeadlocked,
       EndListing, AuthLost, MarkRead, MarkFlush, Finish, AttemptFails,
       Exception, RecordFails
  <2>2. QED
    BY <2>1 DEF OrphanInv, NoOrphanVms
<1>3. QED
  BY <1>1, <1>2

\* The task that took the step still knows what it writes, and writes nothing
\* for a connection that is gone.
LEMMA WriterStep ==
  ASSUME TypeOK, OrphanInv, NEW r \in Reqs, Advance(r) \/ Fault(r)
  PROVE  /\ Identified(task[r])'
         /\ task'[r].target \notin exists => task'[r].wrote = {}
<1> DEFINE t == task[r]
           Goal == /\ Identified(task[r])'
                   /\ task'[r].target \notin exists => task'[r].wrote = {}
<1>t. t \in Task
  BY DEF TypeOK
<1>was. Identified(t) /\ (t.target \notin exists => t.wrote = {})
  BY <1>t DEF OrphanInv, NoOrphanVms, Task
<1>release. ASSUME Release(r) PROVE Goal
  <2>1. task'[r].pc = "idle" /\ task'[r].wrote = {}
    BY <1>release, Now DEF Release, Idle
  <2>2. QED
    BY <2>1 DEF Identified
<1>same. ASSUME NEW u, Becomes(r, u), u.target = t.target, u.pc # "flush",
                u.wrote = t.wrote \/ u.wrote = {},
                u.at # 0
         PROVE  Goal
  BY <1>same, <1>was, Now DEF Identified
<1>abandon. ASSUME Abandon(r), t.pc \notin {"idle", "attempt", "found"} PROVE Goal
  <2>1. /\ task'[r].wrote = {} /\ task'[r].pc \in {"done", "mark"}
        /\ task'[r].at = t.at
    BY <1>abandon, AbandonShape
  <2>2. QED
    BY <2>1, <1>abandon, <1>was DEF Identified
<1>0. CASE Find(r)
  <2>1. ASSUME t.target \in exists
        PROVE  task'[r].pc = "found" /\ task'[r].target = t.target
    BY <1>0, <2>1, <1>t, Now DEF Find, Task
  <2>2. QED
    BY <1>0, <2>1, <1>release DEF Find, Identified
<1>1. CASE AttemptRead(r)
  <2>1. clock + 1 # 0
    BY DEF TypeOK
  <2>2. QED
    BY <1>1, <2>1, <1>t, <1>same DEF AttemptRead, Task
<1>2. CASE AttemptWrite(r)
  BY <1>2, <1>t, <1>was, <1>release, <1>same DEF AttemptWrite, Identified, Task
<1>3. CASE Load(r)
  <2>1. clock + 1 # 0
    BY DEF TypeOK
  <2>2. QED
    BY <1>3, <2>1, <1>t, <1>was, <1>same DEF Load, Identified, Task
<1>4. CASE Connect(r) \/ ConnectFails(r)
  BY <1>4, <1>t, <1>was, <1>same DEF Connect, ConnectFails, Identified, Task
<1>5. CASE FillBatch(r)
  <2>1. PICK batch \in SUBSET t.listing :
          Becomes(r, [t EXCEPT !.pc = "flush", !.listing = @ \ batch,
                               !.batch = batch,
                               !.fresh = Unidentified(t, batch)])
    BY <1>5 DEF FillBatch
  <2> DEFINE u == [t EXCEPT !.pc = "flush", !.listing = @ \ batch,
                            !.batch = batch, !.fresh = Unidentified(t, batch)]
  <2>now. task'[r] = u
    BY <2>1, Now
  <2> HIDE DEF t
  <2>shape. /\ u.target = t.target /\ u.wrote = t.wrote /\ u.at = t.at
        /\ u.batch = batch /\ u.fresh = Unidentified(t, batch)
    BY <1>t DEF Task
  <2> HIDE DEF u
  <2>2. /\ task'[r].target = t.target /\ task'[r].wrote = t.wrote
        /\ task'[r].at = t.at /\ task'[r].batch = batch
        /\ task'[r].fresh = Unidentified(t, batch)
    BY <2>now, <2>shape
  <2> USE DEF t
  <2>3. t.pc = "listing" /\ seen' = seen
    BY <1>5 DEF FillBatch
  <2>4. QED
    BY <2>2, <2>3, <1>was DEF Identified, Unidentified
<1>6. CASE Flush(r)
  <2> DEFINE u == [t EXCEPT !.pc = "listing", !.batch = {}, !.fresh = {},
                            !.wrote = @ \cup t.batch]
  <2>now. task'[r] = u
    BY <1>6, Now DEF Flush
  <2>shape. /\ u.target = t.target /\ u.pc = "listing" /\ u.at = t.at
            /\ u.wrote = t.wrote \cup t.batch
    BY <1>t DEF Task
  <2> HIDE DEF u
  <2>1. /\ task'[r].target = t.target /\ task'[r].pc = "listing"
        /\ task'[r].wrote = t.wrote \cup t.batch /\ task'[r].at = t.at
    BY <2>now, <2>shape
  <2>2. t.pc = "flush" /\ ~Violates(r)
    BY <1>6 DEF Flush
  <2>3. ASSUME t.target \notin exists PROVE t.wrote \cup t.batch = {}
    <3>1. t.fresh = {} /\ t.wrote = {}
      BY <2>2, <2>3, <1>was DEF Violates
    <3>2. \A v \in t.batch : v \in Vms /\ seen[t.target][v] = 0
      BY <2>3, <1>t DEF OrphanInv, NoOrphanVms, Task
    <3>3. QED
      BY <2>2, <3>1, <3>2, <1>was DEF Identified
  <2>4. QED
    BY <2>1, <2>2, <2>3, <1>was DEF Identified
<1>7. CASE FlushViolates(r) \/ FlushDeadlocked(r) \/ Exception(r)
           \/ RecordFails(r)
  BY <1>7, <1>abandon
  DEF FlushViolates, FlushDeadlocked, InRing, Exception, RecordFails
<1>8. CASE EndListing(r) \/ AuthLost(r) \/ MarkRead(r)
  BY <1>8, <1>t, <1>was, <1>same
  DEF EndListing, AuthLost, MarkRead, Identified, Task
<1>9. CASE MarkFlush(r)
  BY <1>9, <1>t, <1>was, <1>same, <1>abandon DEF MarkFlush, Identified, Task
<1>10. CASE Commit(r)
  BY <1>10, <1>t, <1>was, <1>same DEF Commit, Identified, Task
<1>11. CASE Finish(r) \/ AttemptFails(r)
  BY <1>11, <1>release DEF Finish, AttemptFails
<1>12. QED
  BY <1>0, <1>1, <1>2, <1>3, <1>4, <1>5, <1>6, <1>7, <1>8, <1>9, <1>10, <1>11
  DEF Advance, Fault

LEMMA OrphanStep ==
  ASSUME TypeOK, OrphanInv, [Next]_vars
  PROVE  OrphanInv'
<1>idle. Idle.pc = "idle" /\ Idle.wrote = {}
  BY DEF Idle
<1>1. CASE UNCHANGED vars
  BY <1>1 DEF OrphanInv, NoOrphanVms, Identified, vars
<1>2. ASSUME NEW r \in Reqs, Advance(r) \/ Fault(r) PROVE OrphanInv'
  <2>1. \A q \in Reqs \ {r} : task'[q] = task[q]
    BY <1>2, AdvanceAlone, CollectionAssumption
  <2>2. \A q \in Reqs : task[q].target \in Conns /\ task[q].batch \subseteq Vms
    BY DEF TypeOK, Task
  <2>3. \A q \in Reqs : Identified(task[q])'
    BY <1>2, <2>1, <2>2, RowsStay, WriterStep DEF OrphanInv, Identified
  <2>4. NoOrphanVms'
    BY <1>2, <2>1, RowsStay, WriterStep DEF OrphanInv, NoOrphanVms
  <2>5. QED
    BY <2>3, <2>4 DEF OrphanInv
<1>3. ASSUME NEW r \in Reqs, NEW w \in Workers, NEW c \in Conns, Start(r, w, c)
      PROVE  OrphanInv'
  <2>1. task'[r].pc = "attempt" /\ task'[r].wrote = {}
    BY <1>3, StartShape
  <2>2. \A q \in Reqs \ {r} : task'[q] = task[q]
    BY <1>3, StartShape
  <2>3. UNCHANGED <<exists, seen>>
    BY <1>3 DEF Start
  <2>4. QED
    BY <2>1, <2>2, <2>3 DEF OrphanInv, NoOrphanVms, Identified
<1>4. ASSUME NEW c \in Conns, DeleteCount(c) \/ DeleteRow(c) PROVE OrphanInv'
  <2>1. UNCHANGED <<seen, task>>
    BY <1>4 DEF DeleteCount, DeleteRow
  <2>2. \/ exists' = exists
        \/ exists' = exists \ {c} /\ Deletable(c) /\ ~HeldByInsert(c)
    BY <1>4 DEF DeleteCount, DeleteRow
  <2>3. ASSUME Deletable(c), ~HeldByInsert(c)
        PROVE  /\ \A v \in Vms : seen[c][v] = 0
               /\ \A r \in Reqs : task[r].target = c => task[r].wrote = {}
    BY <2>3 DEF Deletable, HeldByInsert, TypeOK, Task
  <2>4. QED
    BY <2>1, <2>2, <2>3 DEF OrphanInv, NoOrphanVms, Identified
<1>5. ASSUME NEW w \in Workers, Crash(w) PROVE OrphanInv'
  <2>1. UNCHANGED <<exists, seen>>
    BY <1>5 DEF Crash
  <2>2. \A q \in Reqs : task'[q] = task[q] \/ task'[q] = Idle
    BY <1>5 DEF Crash
  <2>3. QED
    BY <2>1, <2>2, <1>idle DEF OrphanInv, NoOrphanVms, Identified
<1>6. ASSUME NEW w \in Workers, NEW c \in Conns, StartRaises(w, c)
      PROVE  OrphanInv'
  BY <1>6 DEF StartRaises, OrphanInv, NoOrphanVms, Identified
<1>7. QED
  BY <1>1, <1>2, <1>3, <1>4, <1>5, <1>6 DEF Next

\* However deletions and collections interleave, no VM refers to a connection
\* that is gone: the delete that counted no VM is refused by the foreign key
\* once one is committed, it waits for the transaction that inserts one, and a
\* batch without an insert has nothing to write for a connection without VMs.
THEOREM NoOrphans == Spec => []NoOrphanVms
<1>1. Init => OrphanInv
  BY DEF Init, OrphanInv, NoOrphanVms, Identified, Idle
<1>2. TypeOK /\ OrphanInv /\ [Next]_vars => OrphanInv'
  BY OrphanStep
<1>3. OrphanInv => NoOrphanVms
  BY DEF OrphanInv
<1>4. QED
  BY <1>1, <1>2, <1>3, TypeCorrect, PTL DEF Spec

-----------------------------------------------------------------------------
(* What one worker process gives: the columns of a connection              *)

\* No committed time is ahead of the clock.
Past ==
    \A c \in Conns : /\ row[c].success <= clock
                     /\ row[c].attempt <= clock
                     /\ \A v \in Vms : seen[c][v] <= clock

\* The time of a collection is not older than anything its connection shows,
\* and until its end it is later than the last success.
Newest(t) ==
    t.pc \notin {"idle", "attempt", "found"} =>
        /\ t.at <= clock
        /\ row[t.target].success <= t.at
        /\ t.pc # "done" => row[t.target].success < t.at
        /\ row[t.target].attempt <= t.at
        /\ \A v \in Vms : seen[t.target][v] <= t.at

\* The row a collection loaded in order to write it is the committed one.
Accurate(t) ==
    t.pc \in {"attempting", "marking", "commit"} /\ t.target \in exists =>
        t.loaded = row[t.target]

\* Until it marks, a collection has no failure to record.
Undecided(t) ==
    t.pc \in {"attempt", "found", "attempting", "queued", "connect", "listing",
              "flush"} => t.result = "active"

Steady(t) == Newest(t) /\ Accurate(t) /\ Undecided(t)

AloneInv == Past /\ ColumnsTellTheTruth /\ \A r \in Reqs : Steady(task[r])

LEMMA UpdatedAlone ==
  ASSUME NEW current \in ConnRow, NEW wanted \in ConnRow
  PROVE  Updated(current, current, wanted) = wanted
BY DEF Updated, ConnRow

LEMMA MarkedTypes ==
  ASSUME NEW loaded \in ConnRow, NEW at \in Nat,
         NEW result \in Failures \cup {"active"}
  PROVE  /\ Attempted(loaded, at) \in ConnRow
         /\ Marked(loaded, result, at) \in ConnRow
BY DEF Attempted, Marked, ConnRow

\* The columns a collection writes, once it is the only one that writes them.
AttemptCommitted(t, c) ==
    /\ t.pc = "attempting" /\ c \in exists
    /\ row'[c] = Attempted(row[c], t.at)
    /\ seen'[c] = seen[c]

ResultCommitted(t, c) ==
    /\ t.pc = "commit"
    /\ row'[c] = IF c \in exists THEN Marked(row[c], t.result, t.at) ELSE row[c]
    /\ \A v \in Vms : seen'[c][v] = IF v \in t.wrote THEN t.at ELSE seen[c][v]

\* A step of a collection writes its own connection, in two places only, and
\* what it writes is what it means to write.
LEMMA Committed ==
  ASSUME TypeOK, NEW r \in Reqs, Accurate(task[r]), Advance(r) \/ Fault(r)
  PROVE  /\ exists' = exists /\ clock <= clock'
         /\ \A c \in Conns \ {task[r].target} :
              row'[c] = row[c] /\ seen'[c] = seen[c]
         /\ \/ UNCHANGED <<row, seen>>
            \/ AttemptCommitted(task[r], task[r].target)
            \/ ResultCommitted(task[r], task[r].target)
<1> DEFINE t == task[r]
<1>t. t \in Task /\ t.target \in Conns /\ clock <= clock + 1
  BY DEF TypeOK, Task
<1>row. /\ row[t.target] \in ConnRow /\ t.at \in Nat
        /\ t.result \in Failures \cup {"active"}
  BY <1>t DEF TypeOK, Task
<1>1. CASE AttemptWrite(r) /\ t.target \in exists
  <2>1. t.loaded = row[t.target]
    BY <1>1 DEF AttemptWrite, Accurate
  <2>2. row' = [row EXCEPT ![t.target] =
                  Updated(@, t.loaded, Attempted(t.loaded, t.at))]
    BY <1>1 DEF AttemptWrite
  <2>3. row'[t.target] = Attempted(row[t.target], t.at)
    BY <2>1, <2>2, <1>t, <1>row, UpdatedAlone, MarkedTypes DEF TypeOK
  <2>4. UNCHANGED <<exists, seen, clock>> /\ t.pc = "attempting"
    BY <1>1 DEF AttemptWrite
  <2>5. QED
    BY <1>1, <1>t, <2>2, <2>3, <2>4 DEF AttemptCommitted, TypeOK
<1>2. CASE Commit(r)
  <2>1. t.pc = "commit" /\ UNCHANGED <<exists, clock>>
    BY <1>2 DEF Commit
  <2>2. row' = IF t.target \in exists
               THEN [row EXCEPT ![t.target] =
                       Updated(@, t.loaded, Marked(t.loaded, t.result, t.at))]
               ELSE row
    BY <1>2 DEF Commit
  <2>3. t.target \in exists => t.loaded = row[t.target]
    BY <2>1 DEF Accurate
  <2>4. row'[t.target] = IF t.target \in exists
                         THEN Marked(row[t.target], t.result, t.at)
                         ELSE row[t.target]
    BY <2>2, <2>3, <1>t, <1>row, UpdatedAlone, MarkedTypes DEF TypeOK
  <2>5. seen' = [seen EXCEPT ![t.target] =
                   [v \in Vms |-> IF v \in t.wrote THEN t.at ELSE @[v]]]
    BY <1>2 DEF Commit
  <2>6. QED
    BY <1>t, <2>1, <2>2, <2>4, <2>5 DEF ResultCommitted, TypeOK
<1>3. CASE /\ ~(AttemptWrite(r) /\ t.target \in exists)
           /\ ~Commit(r)
  <2>1. UNCHANGED <<exists, row, seen>>
    BY <1>3 DEF Advance, Fault, Find, AttemptRead, AttemptWrite, Load, Connect,
       ConnectFails, FillBatch, Flush, FlushViolates, FlushDeadlocked,
       EndListing, AuthLost, MarkRead, MarkFlush, Finish, AttemptFails,
       Exception, RecordFails
  <2>2. clock' \in {clock, clock + 1}
    BY <1>3 DEF Advance, Fault, Find, AttemptRead, AttemptWrite, Load, Connect,
       ConnectFails, FillBatch, Flush, FlushViolates, FlushDeadlocked,
       EndListing, AuthLost, MarkRead, MarkFlush, Finish, AttemptFails,
       Exception, RecordFails
  <2>3. QED
    BY <2>1, <2>2, <1>t DEF TypeOK
<1>4. QED
  BY <1>1, <1>2, <1>3

\* Of a connection whose times are not ahead of the collection that writes it,
\* no time goes back, and its columns tell the truth about what it wrote.
LEMMA ColumnsStep ==
  ASSUME TypeOK, AloneInv, NEW r \in Reqs, Advance(r) \/ Fault(r)
  PROVE  /\ ColumnsTellTheTruth'
         /\ \A c \in Conns : /\ row'[c].success >= row[c].success
                             /\ \A v \in Vms : seen'[c][v] >= seen[c][v]
<1> DEFINE t == task[r]
           d == task[r].target
<1>t. /\ d \in Conns /\ t.wrote \subseteq Vms /\ t.at \in Nat
      /\ t.result \in Failures \cup {"active"}
  BY DEF TypeOK, Task
<1>steady. Newest(t) /\ Accurate(t)
  BY DEF AloneInv, Steady
<1>row. \A c \in Conns : /\ row[c] \in ConnRow
                         /\ row[c].success \in Nat
                         /\ \A v \in Vms : seen[c][v] \in Nat
  BY DEF TypeOK, ConnRow
<1>truth. ColumnsTellTheTruth
  BY DEF AloneInv
<1>com. /\ exists' = exists
        /\ \A c \in Conns \ {d} : row'[c] = row[c] /\ seen'[c] = seen[c]
        /\ \/ UNCHANGED <<row, seen>>
           \/ AttemptCommitted(t, d)
           \/ ResultCommitted(t, d)
  BY <1>steady, Committed
<1>sub. exists \subseteq Conns
  BY DEF TypeOK
<1> DEFINE Told(c) == /\ row'[c].status = "active" =>
                           \A v \in Vms : seen'[c][v] <= row'[c].success
                      /\ row'[c].error # "none" => row'[c].status = row'[c].error
           Kept(c) == /\ row'[c].success >= row[c].success
                      /\ \A v \in Vms : seen'[c][v] >= seen[c][v]
<1>goal. ASSUME d \in exists => Told(d), Kept(d)
         PROVE  /\ ColumnsTellTheTruth'
                /\ \A c \in Conns : Kept(c)
  <2>1. \A c \in Conns \ {d} : Kept(c)
    BY <1>com, <1>row
  <2>2. \A c \in exists \ {d} : Told(c)
    BY <1>com, <1>truth, <1>sub DEF ColumnsTellTheTruth
  <2>3. QED
    BY <1>goal, <2>1, <2>2, <1>com DEF ColumnsTellTheTruth
<1>1. CASE UNCHANGED <<row, seen>>
  BY <1>1, <1>goal, <1>truth, <1>row, <1>t DEF ColumnsTellTheTruth
<1>2. CASE AttemptCommitted(t, d)
  <2>1. /\ row'[d].status = row[d].status /\ row'[d].error = "none"
        /\ row'[d].success = row[d].success /\ seen'[d] = seen[d]
    BY <1>2, <1>t, <1>row DEF AttemptCommitted, Attempted, ConnRow
  <2>2. QED
    BY <2>1, <1>goal, <1>truth, <1>row, <1>t DEF ColumnsTellTheTruth
<1>3. CASE ResultCommitted(t, d)
  <2>1. /\ row[d].success <= t.at
        /\ \A v \in Vms : seen[d][v] <= t.at
    BY <1>3, <1>steady DEF ResultCommitted, Newest
  <2>2. \A v \in Vms : seen'[d][v] >= seen[d][v] /\ seen'[d][v] <= t.at
    BY <1>3, <2>1, <1>t, <1>row DEF ResultCommitted
  <2>3. CASE d \notin exists
    BY <1>3, <2>2, <2>3, <1>goal, <1>t, <1>row DEF ResultCommitted
  <2>4. CASE d \in exists /\ t.result = "active"
    <3>1. /\ row'[d].success = t.at /\ row'[d].error = "none"
          /\ row'[d].status = "active"
      BY <1>3, <2>4, <1>t, <1>row DEF ResultCommitted, Marked, ConnRow
    <3>2. QED
      BY <3>1, <2>1, <2>2, <1>goal
  <2>5. CASE d \in exists /\ t.result # "active"
    <3>1. /\ row'[d].success = row[d].success /\ row'[d].error = t.result
          /\ row'[d].status = t.result
      BY <1>3, <2>5, <1>t, <1>row DEF ResultCommitted, Marked, ConnRow
    <3>2. QED
      BY <3>1, <2>2, <2>5, <1>goal, <1>t, <1>row
  <2>6. QED
    BY <2>3, <2>4, <2>5
<1>4. QED
  BY <1>1, <1>2, <1>3, <1>com

\* The clock covers what a step commits.
LEMMA PastStep ==
  ASSUME TypeOK, AloneInv, NEW r \in Reqs, Advance(r) \/ Fault(r)
  PROVE  Past'
<1> DEFINE t == task[r]
           d == task[r].target
<1>t. d \in Conns /\ t.wrote \subseteq Vms /\ t.at \in Nat
  BY DEF TypeOK, Task
<1>nat. clock \in Nat /\ clock' \in Nat
  BY AdvanceType, CollectionAssumption DEF TypeOK
<1>row. \A c \in Conns : /\ row[c] \in ConnRow
                         /\ row[c].success \in Nat /\ row[c].attempt \in Nat
                         /\ \A v \in Vms : seen[c][v] \in Nat
  BY DEF TypeOK, ConnRow
<1>steady. Newest(t) /\ Accurate(t) /\ Past
  BY DEF AloneInv, Steady
<1>com. /\ clock <= clock'
        /\ \A c \in Conns \ {d} : row'[c] = row[c] /\ seen'[c] = seen[c]
        /\ \/ UNCHANGED <<row, seen>>
           \/ AttemptCommitted(t, d)
           \/ ResultCommitted(t, d)
  BY <1>steady, Committed
<1> DEFINE Covered(c) == /\ row'[c].success <= clock'
                         /\ row'[c].attempt <= clock'
                         /\ \A v \in Vms : seen'[c][v] <= clock'
<1>others. \A c \in Conns : row'[c] = row[c] /\ seen'[c] = seen[c] => Covered(c)
  BY <1>com, <1>row, <1>nat, <1>steady DEF Past
<1>1. CASE UNCHANGED <<row, seen>>
  BY <1>1, <1>others DEF Past
<1>2. CASE AttemptCommitted(t, d)
  <2>1. /\ row'[d].success = row[d].success /\ row'[d].attempt = t.at
        /\ seen'[d] = seen[d] /\ t.at <= clock
    BY <1>2, <1>row, <1>t, <1>steady
    DEF AttemptCommitted, Attempted, Newest, ConnRow
  <2>2. Covered(d)
    BY <2>1, <1>com, <1>row, <1>nat, <1>t, <1>steady DEF Past
  <2>3. QED
    BY <2>2, <1>com, <1>others DEF Past
<1>3. CASE ResultCommitted(t, d)
  <2>1. t.at <= clock
    BY <1>3, <1>steady DEF ResultCommitted, Newest
  <2>2. /\ row'[d].success \in {row[d].success, t.at}
        /\ row'[d].attempt = row[d].attempt
    BY <1>3, <1>row, <1>t DEF ResultCommitted, Marked, ConnRow
  <2>3. \A v \in Vms : seen'[d][v] \in {seen[d][v], t.at}
    BY <1>3 DEF ResultCommitted
  <2>4. Covered(d)
    BY <2>1, <2>2, <2>3, <1>com, <1>row, <1>nat, <1>t, <1>steady DEF Past
  <2>5. QED
    BY <2>4, <1>com, <1>others DEF Past
<1>4. QED
  BY <1>1, <1>2, <1>3, <1>com

\* Where a step of a collection takes its task: what it loaded is the row, its
\* time is the clock's or the one it had, and no failure is decided before the
\* mark.
Moved(t, u) ==
    /\ t.pc \notin {"idle", "done"} /\ u.pc \notin {"idle", "attempt", "found"}
    /\ u.target = t.target
    /\ \/ u.at = clock' /\ clock' = clock + 1 /\ UNCHANGED row
       \/ t.pc \notin {"attempt", "found"} /\ u.at = t.at
    /\ t.pc = "commit" /\ u.pc # "done" => UNCHANGED row
    /\ u.pc \in {"attempting", "marking"} =>
         u.loaded = row[t.target] /\ UNCHANGED row
    /\ u.pc = "commit" /\ t.target \in exists =>
         t.pc = "marking" /\ u.loaded = t.loaded /\ UNCHANGED row
    /\ Undecided(u)

LEMMA TaskMoves ==
  ASSUME TypeOK, NEW r \in Reqs, Undecided(task[r]), Advance(r) \/ Fault(r)
  PROVE  \/ task'[r].pc = "idle"
         \/ task'[r].pc = "found" /\ task'[r].result = "active"
         \/ Moved(task[r], task'[r])
<1> DEFINE t == task[r]
           Goal == \/ task'[r].pc = "idle"
                   \/ task'[r].pc = "found" /\ task'[r].result = "active"
                   \/ Moved(t, task'[r])
<1>t. t \in Task
  BY DEF TypeOK
<1>was. Undecided(t)
  OBVIOUS
<1>release. Release(r) => Goal
  <2>1. Idle.pc = "idle"
    BY DEF Idle
  <2>2. QED
    BY <2>1, Now DEF Release
<1>abandon. ASSUME Abandon(r), t.pc \notin {"idle", "attempt", "found", "done"},
                   UNCHANGED row
            PROVE  Goal
  <2>1. /\ task'[r].pc \in {"done", "mark"} /\ task'[r].target = t.target
        /\ task'[r].at = t.at
    BY <1>abandon, AbandonShape
  <2>2. QED
    BY <2>1, <1>abandon DEF Moved, Undecided
<1>same. ASSUME NEW u, Becomes(r, u), t.pc \notin {"idle", "attempt", "found", "done"},
                u.target = t.target,
                \/ u.at = t.at
                \/ u.at = clock' /\ clock' = clock + 1 /\ UNCHANGED row,
                t.pc = "commit" => u.pc = "done",
                \/ u.pc \in {"queued", "connect", "listing", "flush"}
                   /\ u.result = "active"
                \/ u.pc \in {"mark", "done"}
                \/ u.pc = "marking" /\ u.loaded = row[t.target]
                   /\ UNCHANGED row
                \/ u.pc = "commit"
                   /\ (t.target \in exists =>
                         t.pc = "marking" /\ u.loaded = t.loaded /\ UNCHANGED row)
         PROVE  Goal
  BY <1>same, Now DEF Moved, Undecided
<1>0. CASE Find(r)
  <2>1. t.pc = "attempt"
    BY <1>0 DEF Find
  <2>2. ASSUME t.target \in exists
        PROVE  task'[r].pc = "found" /\ task'[r].result = t.result
    BY <1>0, <2>2, <1>t, Now DEF Find, Task
  <2>3. QED
    BY <1>0, <2>1, <2>2, <1>was, <1>release DEF Find, Undecided
<1>1. CASE AttemptRead(r)
  <2>1. t.pc = "found" /\ UNCHANGED row /\ clock' = clock + 1
    BY <1>1 DEF AttemptRead
  <2>2. CASE t.target \in exists
    <3> DEFINE u == [t EXCEPT !.pc = "attempting", !.at = clock + 1,
                              !.loaded = row[t.target]]
    <3>1. task'[r] = u
      BY <1>1, <2>2, Now DEF AttemptRead
    <3>2. /\ u.pc = "attempting" /\ u.target = t.target /\ u.at = clock + 1
          /\ u.loaded = row[t.target] /\ u.result = t.result
      BY <1>t DEF Task
    <3> HIDE DEF u
    <3>3. QED
      BY <1>was, <2>1, <3>1, <3>2 DEF Moved, Undecided
  <2>3. CASE t.target \notin exists
    <3> DEFINE u == [t EXCEPT !.pc = "queued", !.at = clock + 1]
    <3>1. task'[r] = u
      BY <1>1, <2>3, Now DEF AttemptRead
    <3>2. /\ u.pc = "queued" /\ u.target = t.target /\ u.at = clock + 1
          /\ u.result = t.result
      BY <1>t DEF Task
    <3> HIDE DEF u
    <3>3. QED
      BY <1>was, <2>1, <3>1, <3>2 DEF Moved, Undecided
  <2>4. QED
    BY <2>2, <2>3
<1>2. CASE AttemptWrite(r)
  BY <1>2, <1>t, <1>was, <1>release, <1>same DEF AttemptWrite, Undecided, Task
<1>3. CASE Load(r) \/ Connect(r) \/ ConnectFails(r)
  BY <1>3, <1>t, <1>was, <1>same
  DEF Load, Connect, ConnectFails, Undecided, Task
<1>4. CASE FillBatch(r) \/ Flush(r)
  BY <1>4, <1>t, <1>was, <1>same DEF FillBatch, Flush, Undecided, Task
<1>5. CASE FlushViolates(r) \/ FlushDeadlocked(r) \/ Exception(r)
           \/ RecordFails(r)
  BY <1>5, <1>abandon
  DEF FlushViolates, FlushDeadlocked, InRing, Exception, RecordFails
<1>6. CASE EndListing(r) \/ AuthLost(r)
  BY <1>6, <1>t, <1>same DEF EndListing, AuthLost, Task
<1>7. CASE MarkRead(r)
  BY <1>7, <1>t, <1>same DEF MarkRead, Task
<1>8. CASE MarkFlush(r)
  BY <1>8, <1>t, <1>same, <1>abandon DEF MarkFlush, Task
<1>9. CASE Commit(r)
  BY <1>9, <1>t, <1>same DEF Commit, Task
<1>10. CASE Finish(r) \/ AttemptFails(r)
  BY <1>10, <1>release DEF Finish, AttemptFails
<1>11. QED
  BY <1>0, <1>1, <1>2, <1>3, <1>4, <1>5, <1>6, <1>7, <1>8, <1>9, <1>10
  DEF Advance, Fault

\* The task that took the step stays steady.
LEMMA SteadyStep ==
  ASSUME TypeOK, AloneInv, NEW r \in Reqs, Advance(r) \/ Fault(r)
  PROVE  Steady(task[r])'
<1> DEFINE t == task[r]
           u == task'[r]
           d == task[r].target
<1>t. d \in Conns /\ t.wrote \subseteq Vms /\ t.at \in Nat
  BY DEF TypeOK, Task
<1>row. \A c \in Conns : /\ row[c] \in ConnRow
                         /\ row[c].success \in Nat /\ row[c].attempt \in Nat
                         /\ \A v \in Vms : seen[c][v] \in Nat
  BY DEF TypeOK, ConnRow
<1>nat. clock \in Nat /\ clock' \in Nat
  BY AdvanceType, CollectionAssumption DEF TypeOK
<1>was. Newest(t) /\ Accurate(t) /\ Undecided(t) /\ Past
  BY DEF AloneInv, Steady
<1>com. /\ exists' = exists /\ clock <= clock'
        /\ \/ UNCHANGED <<row, seen>>
           \/ AttemptCommitted(t, d)
           \/ ResultCommitted(t, d)
  BY <1>was, Committed
<1>past. Past'
  BY PastStep
<1>1. CASE u.pc = "idle" \/ (u.pc = "found" /\ u.result = "active")
  BY <1>1 DEF Steady, Newest, Accurate, Undecided
<1>2. CASE Moved(t, u)
  <2>1. Undecided(task[r])'
    BY <1>2 DEF Moved, Undecided
  <2>2. Accurate(task[r])'
    BY <1>2, <1>was, <1>com DEF Moved, Accurate
  <2>3. Newest(task[r])'
    <3>1. /\ u.target = d /\ t.pc \notin {"idle", "done"}
          /\ \/ u.at = clock' /\ clock' = clock + 1 /\ UNCHANGED row
             \/ t.pc \notin {"attempt", "found"} /\ u.at = t.at
          /\ t.pc = "commit" /\ u.pc # "done" => UNCHANGED row
      BY <1>2 DEF Moved
    <3>2. CASE u.at = clock' /\ clock' = clock + 1 /\ UNCHANGED row
      <4>1. row'[d].success < u.at
        BY <3>2, <1>was, <1>nat, <1>t, <1>row DEF Past
      <4>2. QED
        BY <3>1, <3>2, <4>1, <1>past, <1>nat, <1>t DEF Newest, Past
    <3>3. CASE t.pc \notin {"attempt", "found"} /\ u.at = t.at
      <4>1. /\ t.at <= clock' /\ row[d].success <= t.at
            /\ row[d].attempt <= t.at /\ \A v \in Vms : seen[d][v] <= t.at
        BY <3>1, <3>3, <1>was, <1>com, <1>nat, <1>t DEF Newest
      <4>2. row'[d].success \in {row[d].success, t.at}
        BY <1>com, <1>row, <1>t
        DEF AttemptCommitted, ResultCommitted, Attempted, Marked, ConnRow
      <4>3. row'[d].attempt \in {row[d].attempt, t.at}
        BY <1>com, <1>row, <1>t
        DEF AttemptCommitted, ResultCommitted, Attempted, Marked, ConnRow
      <4>4. \A v \in Vms : seen'[d][v] \in {seen[d][v], t.at}
        BY <1>com DEF AttemptCommitted, ResultCommitted
      <4>5. ASSUME u.pc # "done" PROVE row'[d].success < t.at
        <5>1. row[d].success < t.at
          BY <3>1, <3>3, <1>was DEF Newest
        <5>2. row'[d].success = row[d].success
          <6>1. CASE t.pc = "commit"
            BY <3>1, <4>5, <6>1
          <6>2. CASE t.pc # "commit"
            BY <6>2, <1>com, <1>row, <1>t
            DEF AttemptCommitted, ResultCommitted, Attempted, ConnRow
          <6>3. QED
            BY <6>1, <6>2
        <5>3. QED
          BY <5>1, <5>2
      <4>6. QED
        BY <3>1, <3>3, <4>1, <4>2, <4>3, <4>4, <4>5, <1>t DEF Newest
    <3>4. QED
      BY <3>1, <3>2, <3>3
  <2>4. QED
    BY <2>1, <2>2, <2>3 DEF Steady
<1>3. \/ u.pc = "idle"
      \/ u.pc = "found" /\ u.result = "active"
      \/ Moved(t, u)
  BY <1>was, TaskMoves
<1>4. QED
  BY <1>1, <1>2, <1>3

\* A task that collects another connection, or none, stays steady too.
LEMMA OthersSteady ==
  ASSUME TypeOK, AloneInv, NEW r \in Reqs, Advance(r) \/ Fault(r),
         NEW q \in Reqs, ~Live(q) \/ task[q].target # task[r].target,
         task'[q] = task[q]
  PROVE  Steady(task[q])'
<1>q. task[q].target \in Conns /\ task[q].at \in Nat
  BY DEF TypeOK, Task
<1>nat. clock \in Nat /\ clock' \in Nat
  BY AdvanceType, CollectionAssumption DEF TypeOK
<1>was. Steady(task[q]) /\ Accurate(task[r])
  BY DEF AloneInv, Steady
<1>com. /\ exists' = exists /\ clock <= clock'
        /\ \A c \in Conns \ {task[r].target} :
             row'[c] = row[c] /\ seen'[c] = seen[c]
  BY <1>was, Committed
<1>1. CASE ~Live(q)
  BY <1>1 DEF Live, Steady, Newest, Accurate, Undecided
<1>2. CASE task[q].target # task[r].target
  <2>1. /\ row'[task[q].target] = row[task[q].target]
        /\ seen'[task[q].target] = seen[task[q].target]
    BY <1>2, <1>q, <1>com
  <2>2. QED
    BY <2>1, <1>was, <1>com, <1>q, <1>nat
    DEF Steady, Newest, Accurate, Undecided
<1>3. QED
  BY <1>1, <1>2

\* Every step of a process that never collects a connection twice at a time
\* keeps the invariant, and lets no time go back.
LEMMA AloneStep ==
  ASSUME TypeOK, OneCollectionPerConnection, AloneInv, [Next]_vars
  PROVE  /\ AloneInv'
         /\ \A c \in Conns : /\ row'[c].success >= row[c].success
                             /\ \A v \in Vms : seen'[c][v] >= seen[c][v]
<1> DEFINE Kept == \A c \in Conns : /\ row'[c].success >= row[c].success
                                    /\ \A v \in Vms : seen'[c][v] >= seen[c][v]
<1>row. \A c \in Conns : /\ row[c].success \in Nat
                         /\ \A v \in Vms : seen[c][v] \in Nat
  BY DEF TypeOK, ConnRow
<1>kept. UNCHANGED <<row, seen>> => Kept
  BY <1>row
<1>resting. ASSUME UNCHANGED <<row, seen, clock>>, exists' \subseteq exists,
                   \A q \in Reqs : \/ task'[q] = task[q]
                                   \/ task'[q].pc = "idle"
                                   \/ /\ task'[q].pc = "attempt"
                                      /\ task'[q].result = "active"
            PROVE  AloneInv' /\ Kept
  <2>1. \A q \in Reqs : Steady(task[q])'
    BY <1>resting DEF AloneInv, Steady, Newest, Accurate, Undecided
  <2>2. Past' /\ ColumnsTellTheTruth'
    BY <1>resting DEF AloneInv, Past, ColumnsTellTheTruth
  <2>3. QED
    BY <2>1, <2>2, <1>kept, <1>resting DEF AloneInv
<1>1. CASE UNCHANGED vars
  BY <1>1, <1>resting DEF vars
<1>2. ASSUME NEW r \in Reqs, Advance(r) \/ Fault(r)
      PROVE  AloneInv' /\ Kept
  <2>1. \A q \in Reqs \ {r} : task'[q] = task[q]
    BY <1>2, AdvanceAlone, CollectionAssumption
  <2>2. Live(r)
    BY <1>2, AdvanceShape, CollectionAssumption DEF GoesOn
  <2>3. \A q \in Reqs \ {r} : ~Live(q) \/ task[q].target # task[r].target
    BY <2>2 DEF OneCollectionPerConnection
  <2>4. \A q \in Reqs \ {r} : Steady(task[q])'
    BY <1>2, <2>1, <2>3, OthersSteady
  <2>5. Steady(task[r])'
    BY <1>2, SteadyStep
  <2>6. QED
    BY <1>2, <2>4, <2>5, PastStep, ColumnsStep DEF AloneInv
<1>3. ASSUME NEW r \in Reqs, NEW w \in Workers, NEW c \in Conns, Start(r, w, c)
      PROVE  AloneInv' /\ Kept
  <2>1. task'[r].pc = "attempt" /\ task'[r].result = "active"
    BY <1>3, StartShape
  <2>2. \A q \in Reqs \ {r} : task'[q] = task[q]
    BY <1>3, StartShape
  <2>3. UNCHANGED <<exists, row, seen, clock>>
    BY <1>3 DEF Start
  <2>4. QED
    BY <2>1, <2>2, <2>3, <1>resting
<1>4. ASSUME NEW c \in Conns, DeleteCount(c) \/ DeleteRow(c)
      PROVE  AloneInv' /\ Kept
  BY <1>4, <1>resting DEF DeleteCount, DeleteRow
<1>5. ASSUME NEW w \in Workers, Crash(w) PROVE AloneInv' /\ Kept
  <2>1. Idle.pc = "idle"
    BY DEF Idle
  <2>2. \A q \in Reqs : task'[q] = task[q] \/ task'[q] = Idle
    BY <1>5 DEF Crash
  <2>3. UNCHANGED <<exists, row, seen, clock>>
    BY <1>5 DEF Crash
  <2>4. QED
    BY <2>1, <2>2, <2>3, <1>resting
<1>6. ASSUME NEW w \in Workers, NEW c \in Conns, StartRaises(w, c)
      PROVE  AloneInv' /\ Kept
  BY <1>6, <1>resting DEF StartRaises
<1>7. QED
  BY <1>1, <1>2, <1>3, <1>4, <1>5, <1>6 DEF Next

LEMMA AloneInvariant ==
  ASSUME NEW w, Workers = {w}
  PROVE  Spec => []AloneInv
<1>1. Init => AloneInv
  BY DEF Init, AloneInv, Past, ColumnsTellTheTruth, Steady, Newest, Accurate,
     Undecided, Idle, NewRow
<1>2. TypeOK /\ OneCollectionPerConnection /\ AloneInv /\ [Next]_vars
        => AloneInv'
  BY AloneStep
<1>3. Spec => []OneCollectionPerConnection
  BY OneWorkerCollectsOnce
<1>4. QED
  BY <1>1, <1>2, <1>3, TypeCorrect, PTL DEF Spec

\* With one worker process, whatever fails and whenever it dies, a connection
\* that reads as active was last collected successfully when its freshest
\* machine was seen, and last_error and status tell the same failure
\* (mark_attempt, mark_success, mark_failure).
THEOREM OneWorkerTellsTheTruth ==
  ASSUME NEW w, Workers = {w}
  PROVE  Spec => []ColumnsTellTheTruth
<1>1. AloneInv => ColumnsTellTheTruth
  BY DEF AloneInv
<1>2. Spec => []AloneInv
  BY AloneInvariant
<1>3. QED
  BY <1>1, <1>2, PTL

\* With one worker process neither last_success_at nor the last_seen_at of a
\* machine ever goes back, however collections, deletions, exceptions and
\* crashes follow one another.
THEOREM OneWorkerNeverGoesBack ==
  ASSUME NEW w, Workers = {w}
  PROVE  Spec => AgeNeverGoesBack
<1> DEFINE Kept == \A c \in Conns : /\ row'[c].success >= row[c].success
                                    /\ \A v \in Vms : seen'[c][v] >= seen[c][v]
<1>1. TypeOK /\ OneCollectionPerConnection /\ AloneInv /\ [Next]_vars
        => [Kept]_vars
  BY AloneStep
<1>2. Spec => []AloneInv
  BY AloneInvariant
<1>3. Spec => []OneCollectionPerConnection
  BY OneWorkerCollectsOnce
<1>4. QED
  BY <1>1, <1>2, <1>3, TypeCorrect, PTL DEF Spec, AgeNeverGoesBack

-----------------------------------------------------------------------------
(* What one worker process gives: an attempt that reads as pending is worked on *)

Answers(r, c) == task[r].target = c /\ task[r].pc \in Working

Owed == \A c \in Conns : Pending(c) => \E r \in Reqs : Answers(r, c)

\* A collection that works goes on working until it commits a result, unless
\* its connection is gone or its failure cannot be recorded.
LEMMA WorkGoesOn ==
  ASSUME TypeOK, "record" \notin Faults, NEW r \in Reqs, Undecided(task[r]),
         NEW c \in Conns, Answers(r, c), Advance(r) \/ Fault(r)
  PROVE  \/ Answers(r, c)'
         \/ Commit(r)
         \/ c \notin exists /\ exists' = exists
<1> DEFINE t == task[r]
           Goal == \/ Answers(r, c)'
                   \/ Commit(r)
                   \/ c \notin exists /\ exists' = exists
<1>t. t \in Task /\ t.target = c /\ t.pc \in Working
  BY DEF TypeOK, Answers
<1>same. ASSUME NEW u, Becomes(r, u), u.target = t.target,
                u.pc \in {"queued", "connect", "listing", "flush", "mark",
                          "marking", "commit"}
         PROVE  Goal
  BY <1>same, <1>t, Now DEF Answers, Working
<1>abandon. ASSUME Abandon(r), t.result # "collection_error" PROVE Goal
  <2>1. task'[r].pc = "mark" /\ task'[r].target = c
    BY <1>abandon, <1>t, AbandonShape
  <2>2. QED
    BY <2>1 DEF Answers, Working
<1>1. CASE Load(r)
  BY <1>1, <1>t, <1>same DEF Load, Task
<1>2. CASE Connect(r) \/ ConnectFails(r)
  BY <1>2, <1>t, <1>same DEF Connect, ConnectFails, Task
<1>3. CASE FillBatch(r) \/ Flush(r)
  BY <1>3, <1>t, <1>same DEF FillBatch, Flush, Task
<1>4. CASE FlushViolates(r) \/ FlushDeadlocked(r)
  <2>1. t.pc = "flush"
    BY <1>4 DEF FlushViolates, FlushDeadlocked, InRing
  <2>2. t.result # "collection_error"
    BY <2>1 DEF Undecided
  <2>3. QED
    BY <1>4, <2>2, <1>abandon DEF FlushViolates, FlushDeadlocked
<1>5. CASE Exception(r) \/ RecordFails(r)
  BY <1>5, <1>abandon DEF Exception, RecordFails
<1>6. CASE EndListing(r) \/ AuthLost(r) \/ MarkRead(r)
  BY <1>6, <1>t, <1>same DEF EndListing, AuthLost, MarkRead, Task
<1>7. CASE MarkFlush(r)
  BY <1>7, <1>t, <1>same DEF MarkFlush, Task
<1>8. CASE Commit(r)
  BY <1>8
<1>9. CASE \/ Find(r) \/ AttemptRead(r) \/ AttemptWrite(r)
           \/ Finish(r) \/ AttemptFails(r)
  BY <1>9, <1>t DEF Find, AttemptRead, AttemptWrite, Finish, AttemptFails,
     Working
<1>10. QED
  BY <1>1, <1>2, <1>3, <1>4, <1>5, <1>6, <1>7, <1>8, <1>9
  DEF Advance, Fault

\* A collection begins to work by committing its attempt.
LEMMA WorkBegins ==
  ASSUME TypeOK, NEW r \in Reqs, task[r].pc \notin Working,
         NEW c \in Conns, task[r].target = c, Advance(r) \/ Fault(r)
  PROVE  Answers(r, c)' \/ UNCHANGED <<exists, row>>
<1> DEFINE t == task[r]
<1>t. t \in Task
  BY DEF TypeOK
<1>1. CASE AttemptWrite(r) /\ t.target \in exists
  <2> DEFINE u == [t EXCEPT !.pc = "queued"]
  <2>1. task'[r] = u
    BY <1>1, Now DEF AttemptWrite
  <2>2. u.pc = "queued" /\ u.target = t.target
    BY <1>t DEF Task
  <2> HIDE DEF u
  <2>3. QED
    BY <2>1, <2>2 DEF Answers, Working
<1>2. CASE ~(AttemptWrite(r) /\ t.target \in exists)
  BY <1>2 DEF Advance, Fault, Find, AttemptRead, AttemptWrite, Load, Connect,
     ConnectFails, FillBatch, Flush, FlushViolates, FlushDeadlocked,
     EndListing, AuthLost, MarkRead, MarkFlush, Commit, Finish, AttemptFails,
     Exception, RecordFails, Working
<1>3. QED
  BY <1>1, <1>2

\* A committed result answers the attempt.
LEMMA CommitAnswers ==
  ASSUME TypeOK, AloneInv, NEW r \in Reqs, NEW d \in Conns,
         task[r].target = d, Commit(r)
  PROVE  ~Pending(d)'
<1> DEFINE t == task[r]
<1>t. t.at \in Nat /\ t.result \in Failures \cup {"active"}
  BY DEF TypeOK, Task
<1>row. row[d] \in ConnRow /\ row[d].attempt \in Nat
  BY DEF TypeOK, ConnRow
<1>1. Newest(t) /\ Accurate(t)
  BY DEF AloneInv, Steady
<1>2. t.pc = "commit" /\ exists' = exists
  BY DEF Commit
<1>3. row[d].attempt <= t.at
  BY <1>1, <1>2 DEF Newest
<1>4. ASSUME d \in exists PROVE row'[d] = Marked(row[d], t.result, t.at)
  <2>1. t.loaded = row[d]
    BY <1>1, <1>2, <1>4 DEF Accurate
  <2>2. row' = [row EXCEPT ![d] = Updated(@, t.loaded,
                                          Marked(t.loaded, t.result, t.at))]
    BY <1>4 DEF Commit
  <2>3. QED
    BY <2>1, <2>2, <1>t, <1>row, UpdatedAlone, MarkedTypes DEF TypeOK
<1>5. ASSUME d \in exists
      PROVE  \/ row'[d].error # "none"
             \/ row'[d].success = t.at /\ row'[d].attempt = row[d].attempt
  BY <1>4, <1>5, <1>t, <1>row DEF Marked, ConnRow, Failures
<1>6. ASSUME d \in exists
      PROVE  ~(row'[d].error = "none" /\ row'[d].success < row'[d].attempt)
  BY <1>5, <1>6, <1>3, <1>t, <1>row
<1>7. QED
  BY <1>2, <1>6 DEF Pending

LEMMA OwedStep ==
  ASSUME TypeOK, OneCollectionPerConnection, AloneInv, Owed, [Next]_vars,
         "record" \notin Faults, "crash" \notin Faults
  PROVE  Owed'
<1>resting. ASSUME UNCHANGED row, exists' \subseteq exists,
                   \A q \in Reqs : task'[q] = task[q] \/ ~Live(q)
            PROVE  Owed'
  <2>1. \A c \in Conns : Pending(c)' => Pending(c)
    BY <1>resting DEF Pending
  <2>2. \A q \in Reqs, c \in Conns : Answers(q, c) => Answers(q, c)'
    BY <1>resting DEF Answers, Live, Working
  <2>3. QED
    BY <2>1, <2>2 DEF Owed
<1>1. CASE UNCHANGED vars
  BY <1>1, <1>resting DEF vars
<1>2. ASSUME NEW r \in Reqs, Advance(r) \/ Fault(r) PROVE Owed'
  <2>target. PICK d \in Conns : task[r].target = d
    BY DEF TypeOK, Task
  <2>1. \A q \in Reqs \ {r} : task'[q] = task[q]
    BY <1>2, AdvanceAlone, CollectionAssumption
  <2>2. Undecided(task[r]) /\ Accurate(task[r])
    BY DEF AloneInv, Steady
  <2>3. exists' = exists /\ \A c \in Conns \ {d} : row'[c] = row[c]
    BY <1>2, <2>2, <2>target, Committed
  <2>4. ASSUME NEW c \in Conns \ {d}, Pending(c)'
        PROVE  \E q \in Reqs : Answers(q, c)'
    <3>1. Pending(c)
      BY <2>3, <2>4 DEF Pending
    <3>2. PICK q \in Reqs : Answers(q, c)
      BY <3>1 DEF Owed
    <3>3. task'[q] = task[q]
      BY <3>2, <2>target, <2>1 DEF Answers
    <3>4. QED
      BY <3>2, <3>3 DEF Answers, Working
  <2>5. ASSUME Pending(d)'
        PROVE  Answers(r, d)'
    <3>1. CASE task[r].pc \in Working
      <4>1. d \in exists'
        BY <2>5 DEF Pending
      <4>2. ~Commit(r)
        BY <2>5, <2>target, CommitAnswers
      <4>3. Answers(r, d)
        BY <2>target, <3>1 DEF Answers
      <4>4. QED
        BY <1>2, <4>1, <4>2, <4>3, <2>2, <2>3, WorkGoesOn
    <3>2. CASE task[r].pc \notin Working
      <4>1. Live(r)
        BY <1>2, AdvanceShape, CollectionAssumption DEF GoesOn
      <4>2. ~Pending(d)
        <5>1. SUFFICES ASSUME Pending(d) PROVE FALSE
          OBVIOUS
        <5>2. PICK q \in Reqs : Answers(q, d)
          BY <5>1, <2>5 DEF Owed
        <5>3. Live(q) /\ task[q].target = d /\ q # r
          BY <5>2, <3>2 DEF Answers, Live, Working
        <5>4. QED
          BY <5>3, <4>1, <2>target DEF OneCollectionPerConnection
      <4>3. ~UNCHANGED <<exists, row>>
        BY <4>2, <2>5 DEF Pending
      <4>4. QED
        BY <1>2, <2>target, <3>2, <4>3, WorkBegins
    <3>3. QED
      BY <3>1, <3>2
  <2>6. QED
    BY <2>4, <2>5 DEF Owed
<1>3. ASSUME NEW r \in Reqs, NEW w \in Workers, NEW c \in Conns, Start(r, w, c)
      PROVE  Owed'
  <2>1. \A q \in Reqs \ {r} : task'[q] = task[q]
    BY <1>3, StartShape
  <2>2. UNCHANGED <<exists, row>> /\ ~Live(r)
    BY <1>3 DEF Start
  <2>3. QED
    BY <2>1, <2>2, <1>resting
<1>4. ASSUME NEW c \in Conns, DeleteCount(c) \/ DeleteRow(c) PROVE Owed'
  BY <1>4, <1>resting DEF DeleteCount, DeleteRow
<1>5. ASSUME NEW w \in Workers, NEW c \in Conns, StartRaises(w, c)
      PROVE  Owed'
  BY <1>5, <1>resting DEF StartRaises
<1>6. QED
  BY <1>1, <1>2, <1>3, <1>4, <1>5 DEF Next, Crash

\* With one worker process that does not die and whose failures can be
\* recorded, a connection that reads as being collected is: no path through a
\* collection, whatever exception it meets, forgets to answer the attempt
\* (_mark_unexpected_failure).
THEOREM OneWorkerAnswers ==
  ASSUME NEW w, Workers = {w}, "record" \notin Faults, "crash" \notin Faults
  PROVE  Spec => []PendingHasTask
<1>1. Init => Owed
  BY DEF Init, Owed, Pending, NewRow
<1>2. TypeOK /\ OneCollectionPerConnection /\ AloneInv /\ Owed /\ [Next]_vars
        => Owed'
  BY OwedStep
<1>3. Owed => PendingHasTask
  BY DEF Owed, PendingHasTask, Answers, Working, Live
<1>4. Spec => []OneCollectionPerConnection
  BY OneWorkerCollectsOnce
<1>5. Spec => []AloneInv
  BY AloneInvariant
<1>6. QED
  BY <1>1, <1>2, <1>3, <1>4, <1>5, TypeCorrect, PTL DEF Spec

-----------------------------------------------------------------------------
(* What one worker process gives: a collection that happens at once        *)

\* What an exception rolled back is not written by the transaction that
\* records it.
RolledBack(t) == t.result = "collection_error" => t.wrote = {}

AtOnceInv ==
    /\ GuardIsExact
    /\ OneCollectionPerConnection
    /\ OrphanInv
    /\ AloneInv
    /\ \A r \in Reqs : RolledBack(task[r])

LEMMA RolledBackStep ==
  ASSUME TypeOK, NEW r \in Reqs, Undecided(task[r]), RolledBack(task[r]),
         Advance(r) \/ Fault(r)
  PROVE  RolledBack(task'[r])
<1> DEFINE t == task[r]
           Goal == RolledBack(task'[r])
<1>t. t \in Task
  BY DEF TypeOK
<1>release. Release(r) => Goal
  <2>1. Idle.wrote = {}
    BY DEF Idle
  <2>2. QED
    BY <2>1, Now DEF Release, RolledBack
<1>abandon. Abandon(r) => Goal
  BY AbandonShape DEF RolledBack
<1>same. ASSUME NEW u, Becomes(r, u),
                \/ u.result = t.result /\ (u.wrote = t.wrote \/ u.wrote = {})
                \/ u.result # "collection_error"
         PROVE  Goal
  BY <1>same, Now DEF RolledBack
<1>1. CASE Find(r) \/ AttemptRead(r) \/ AttemptWrite(r)
  BY <1>1, <1>t, <1>release, <1>same
  DEF Find, AttemptRead, AttemptWrite, Task
<1>2. CASE Load(r)
  BY <1>2, <1>t, <1>same DEF Load, Task
<1>3. CASE Connect(r)
  <2>1. PICK listing \in SUBSET Vms :
          Becomes(r, [t EXCEPT !.pc = "listing", !.open = TRUE,
                               !.listing = listing])
    BY <1>3, Zenon DEF Connect
  <2> DEFINE u == [t EXCEPT !.pc = "listing", !.open = TRUE,
                            !.listing = listing]
  <2>2. u.result = t.result /\ u.wrote = t.wrote
    BY <1>t DEF Task
  <2>3. Becomes(r, u)
    BY <2>1
  <2> HIDE DEF u
  <2>4. QED
    BY <2>2, <2>3, <1>same
<1>4. CASE ConnectFails(r)
  <2>1. PICK f \in {"credential_error", "permission_error", "unreachable"} :
          Becomes(r, [t EXCEPT !.pc = "mark", !.result = f])
    BY <1>4 DEF ConnectFails
  <2> DEFINE u == [t EXCEPT !.pc = "mark", !.result = f]
  <2>2. u.result = f
    BY <1>t DEF Task
  <2>3. Becomes(r, u)
    BY <2>1
  <2> HIDE DEF u
  <2>4. QED
    BY <2>2, <2>3, <1>same
<1>5. CASE FillBatch(r)
  <2>1. PICK batch \in SUBSET t.listing :
          Becomes(r, [t EXCEPT !.pc = "flush", !.listing = @ \ batch,
                               !.batch = batch,
                               !.fresh = Unidentified(t, batch)])
    BY <1>5 DEF FillBatch
  <2> DEFINE u == [t EXCEPT !.pc = "flush", !.listing = @ \ batch,
                            !.batch = batch, !.fresh = Unidentified(t, batch)]
  <2>2. u.result = t.result /\ u.wrote = t.wrote
    BY <1>t DEF Task
  <2>3. Becomes(r, u)
    BY <2>1
  <2> HIDE DEF u
  <2>4. QED
    BY <2>2, <2>3, <1>same
<1>6. CASE Flush(r)
  <2>1. t.result = "active"
    BY <1>6 DEF Flush, Undecided
  <2>2. QED
    BY <1>6, <2>1, <1>t, <1>same DEF Flush, Task
<1>7. CASE FlushViolates(r) \/ FlushDeadlocked(r) \/ Exception(r)
           \/ RecordFails(r)
  BY <1>7, <1>abandon
  DEF FlushViolates, FlushDeadlocked, Exception, RecordFails
<1>8. CASE EndListing(r) \/ AuthLost(r)
  BY <1>8, <1>t, <1>same DEF EndListing, AuthLost, Task
<1>9. CASE MarkRead(r)
  BY <1>9, <1>t, <1>same DEF MarkRead, Task
<1>10. CASE MarkFlush(r)
  BY <1>10, <1>t, <1>same, <1>abandon DEF MarkFlush, Task
<1>11. CASE Commit(r)
  BY <1>11, <1>t, <1>same DEF Commit, Task
<1>12. CASE Finish(r) \/ AttemptFails(r)
  BY <1>12, <1>release DEF Finish, AttemptFails
<1>13. QED
  BY <1>1, <1>2, <1>3, <1>4, <1>5, <1>6, <1>7, <1>8, <1>9, <1>10, <1>11, <1>12
  DEF Advance, Fault

LEMMA AllRolledBack ==
  ASSUME TypeOK, AtOnceInv, [Next]_vars
  PROVE  \A r \in Reqs : RolledBack(task'[r])
<1>idle. Idle.wrote = {}
  BY DEF Idle
<1>1. CASE UNCHANGED vars
  BY <1>1 DEF AtOnceInv, vars
<1>2. ASSUME NEW r \in Reqs, Advance(r) \/ Fault(r)
      PROVE  \A q \in Reqs : RolledBack(task'[q])
  <2>1. \A q \in Reqs \ {r} : task'[q] = task[q]
    BY <1>2, AdvanceAlone, CollectionAssumption
  <2>2. RolledBack(task'[r])
    BY <1>2, RolledBackStep DEF AtOnceInv, AloneInv, Steady
  <2>3. QED
    BY <2>1, <2>2 DEF AtOnceInv
<1>3. ASSUME NEW r \in Reqs, NEW w \in Workers, NEW c \in Conns, Start(r, w, c)
      PROVE  \A q \in Reqs : RolledBack(task'[q])
  <2>1. task'[r].wrote = {} /\ \A q \in Reqs \ {r} : task'[q] = task[q]
    BY <1>3, StartShape
  <2>2. QED
    BY <2>1 DEF AtOnceInv, RolledBack
<1>4. ASSUME NEW c \in Conns, DeleteCount(c) \/ DeleteRow(c)
      PROVE  \A q \in Reqs : RolledBack(task'[q])
  BY <1>4 DEF DeleteCount, DeleteRow, AtOnceInv
<1>5. ASSUME NEW w \in Workers, Crash(w)
      PROVE  \A q \in Reqs : RolledBack(task'[q])
  <2>1. \A q \in Reqs : task'[q] = task[q] \/ task'[q] = Idle
    BY <1>5 DEF Crash
  <2>2. QED
    BY <2>1, <1>idle DEF AtOnceInv, RolledBack
<1>6. ASSUME NEW w \in Workers, NEW c \in Conns, StartRaises(w, c)
      PROVE  \A q \in Reqs : RolledBack(task'[q])
  BY <1>6 DEF StartRaises, AtOnceInv
<1>7. QED
  BY <1>1, <1>2, <1>3, <1>4, <1>5, <1>6 DEF Next

\* The stage of a connection is where the only task that works on it stands.
LEMMA StageAlone ==
  ASSUME TypeOK, OneCollectionPerConnection, NEW r \in Reqs, Live(r)
  PROVE  /\ task[r].target \in Conns
         /\ Stages[task[r].target] = StageOf(task[r].pc)
<1>1. task[r].target \in Conns
  BY DEF TypeOK, Task
<1>2. ASSUME NEW q \in Reqs, task[q].target = task[r].target,
             StageOf(task[q].pc) # "none"
      PROVE  q = r
  <2>1. Live(q)
    BY <1>2 DEF Live, StageOf, Working
  <2>2. QED
    BY <1>2, <2>1 DEF OneCollectionPerConnection
<1>3. StageOf(task[r].pc) \in {"starting", "running", "none"}
  BY DEF StageOf
<1>4. Stage(task[r].target) = StageOf(task[r].pc)
  BY <1>2, <1>3 DEF Stage
<1>5. QED
  BY <1>1, <1>4 DEF Stages

\* A step of one task moves the stage of its connection and no other.
LEMMA StageMoves ==
  ASSUME TypeOK, OneCollectionPerConnection, NEW r \in Reqs, Live(r),
         NEW d \in Conns, task[r].target = d,
         task'[r].pc = "idle" \/ task'[r].target = d,
         \A q \in Reqs \ {r} : task'[q] = task[q]
  PROVE  Stages' = [Stages EXCEPT ![d] = StageOf(task'[r].pc)]
<1>idle. StageOf("idle") = "none"
  BY DEF StageOf, Working
<1>1. \A q \in Reqs \ {r} : task[q].target = d => StageOf(task[q].pc) = "none"
  BY <1>idle DEF OneCollectionPerConnection, Live
<1>2. StageOf(task'[r].pc) \in {"starting", "running", "none"}
  BY DEF StageOf
<1>3. Stage(d)' = StageOf(task'[r].pc)
  BY <1>1, <1>2, <1>idle DEF Stage
<1>4. ASSUME NEW c \in Conns \ {d}
      PROVE  Stage(c)' = Stage(c)
  <2>1. \A q \in Reqs : \A s \in {"starting", "running"} :
          task'[q].target = c /\ StageOf(task'[q].pc) = s
            <=> task[q].target = c /\ StageOf(task[q].pc) = s
    BY <1>4, <1>idle
  <2>2. QED
    BY <2>1 DEF Stage
<1>5. Stages' = [c \in Conns |-> IF c = d THEN StageOf(task'[r].pc)
                                ELSE Stage(c)]
  BY <1>3, <1>4 DEF Stages
<1>6. QED
  BY <1>5 DEF Stages

\* The database after the transaction of a collection.
LEMMA CommitShape ==
  ASSUME TypeOK, NEW r \in Reqs, Accurate(task[r]), Commit(r),
         task[r].target \in exists
  PROVE  LET t == task[r] IN
         /\ row' = [row EXCEPT ![t.target] =
                      Marked(row[t.target], t.result, t.at)]
         /\ seen' = [seen EXCEPT ![t.target] =
                       [v \in Vms |-> IF v \in t.wrote THEN t.at
                                      ELSE seen[t.target][v]]]
<1> DEFINE t == task[r]
<1>t. t \in Task /\ t.target \in Conns /\ row[t.target] \in ConnRow
      /\ t.at \in Nat /\ t.result \in Failures \cup {"active"}
  BY DEF TypeOK, Task
<1>1. t.loaded = row[t.target]
  BY DEF Commit, Accurate
<1>2. row' = [row EXCEPT ![t.target] =
                Updated(@, t.loaded, Marked(t.loaded, t.result, t.at))]
  BY DEF Commit
<1>3. Updated(row[t.target], t.loaded, Marked(t.loaded, t.result, t.at))
        = Marked(row[t.target], t.result, t.at)
  BY <1>1, <1>t, UpdatedAlone, MarkedTypes
<1>4. seen' = [seen EXCEPT ![t.target] =
                 [v \in Vms |-> IF v \in t.wrote THEN t.at ELSE @[v]]]
  BY DEF Commit
<1>5. QED
  BY <1>2, <1>3, <1>4

\* The time of a collection is one the promise allows.
LEMMA MomentOfTask ==
  ASSUME TypeOK, NEW r \in Reqs, Newest(task[r]),
         task[r].pc \notin {"idle", "attempt", "found"}
  PROVE  task[r].at \in Promise!Moments(task[r].target)
<1>1. task[r].at \in Nat /\ clock \in Nat
  BY DEF TypeOK, Task
<1>2. QED
  BY <1>1 DEF Promise!Moments, Newest

\* The commit of a collection is the one step that ends it.
LEMMA CommitKeepsPromise ==
  ASSUME TypeOK, AtOnceInv, NEW r \in Reqs, Commit(r)
  PROVE  Promise!Next
<1> DEFINE t == task[r]
           d == task[r].target
<1>t. /\ t \in Task /\ t.wrote \subseteq Vms
      /\ t.result \in Failures \cup {"active"}
  BY DEF TypeOK, Task
<1>was. /\ Newest(t) /\ Accurate(t) /\ RolledBack(t)
        /\ OneCollectionPerConnection /\ NoOrphanVms
  BY DEF AtOnceInv, AloneInv, Steady, OrphanInv
<1>com. t.pc = "commit" /\ UNCHANGED <<exists, clock>>
  BY DEF Commit
<1>live. Live(r)
  BY <1>com DEF Live
<1>stage. d \in Conns /\ Stages[d] = "running"
  <2>1. StageOf("commit") = "running"
    BY DEF StageOf, Working
  <2>2. QED
    BY <2>1, <1>com, <1>live, <1>was, StageAlone
<1>done. Stages' = [Stages EXCEPT ![d] = "none"]
  <2> DEFINE u == [t EXCEPT !.pc = "done", !.wrote = {}]
  <2>1. Becomes(r, u)
    BY DEF Commit
  <2>2. u.pc = "done" /\ u.target = d
    BY <1>t DEF Task
  <2> HIDE DEF u
  <2>3. task'[r].pc = "done" /\ task'[r].target = d
    BY <2>1, <2>2, Now
  <2>4. \A q \in Reqs \ {r} : task'[q] = task[q]
    BY <2>1 DEF Becomes, TypeOK
  <2>5. StageOf("done") = "none"
    BY DEF StageOf, Working
  <2>6. QED
    BY <2>3, <2>4, <2>5, <1>live, <1>was, <1>stage, StageMoves
<1>ends. Promise!Ends(d)
  BY <1>com, <1>stage, <1>done DEF Promise!Ends
<1>moment. t.at \in Promise!Moments(d)
  BY <1>com, <1>was, MomentOfTask
<1>1. CASE d \notin exists
  <2>1. t.wrote = {}
    BY <1>1, <1>stage, <1>was DEF NoOrphanVms
  <2>2. row' = row
    BY <1>1 DEF Commit
  <2>3. seen' = [seen EXCEPT ![d] = [v \in Vms |-> seen[d][v]]]
    BY <2>1 DEF Commit
  <2>4. seen' = seen
    BY <2>3, <1>stage DEF TypeOK
  <2>5. Promise!Vanish(d)
    BY <1>1, <1>ends, <2>2, <2>4 DEF Promise!Vanish
  <2>6. QED
    BY <2>5, <1>stage DEF Promise!Next
<1>2. CASE d \in exists
  <2>row. row' = [row EXCEPT ![d] = Marked(row[d], t.result, t.at)]
    BY <1>2, <1>was, CommitShape
  <2>stored. Promise!Stored(d, t.wrote, t.at)
    BY <1>2, <1>was, CommitShape DEF Promise!Stored
  <2>1. CASE t.result = "active"
    <3>1. Promise!Succeeds(d, t.at)
      BY <2>row, <2>1 DEF Marked, Promise!Succeeds
    <3>2. row[d].success < t.at
      BY <1>com, <1>was DEF Newest
    <3>3. Promise!Succeed(d)
      BY <3>1, <3>2, <2>stored, <1>t, <1>2, <1>ends, <1>moment
      DEF Promise!Succeed
    <3>4. QED
      BY <3>3, <1>stage DEF Promise!Next
  <2>2. CASE t.result \in {"credential_error", "permission_error",
                           "unreachable"}
    <3>1. Promise!Fails(d, t.result)
      BY <2>row, <2>2 DEF Marked, Promise!Fails
    <3>2. Promise!Fail(d)
      BY <2>2, <3>1, <2>stored, <1>t, <1>2, <1>ends, <1>moment DEF Promise!Fail
    <3>3. QED
      BY <3>2, <1>stage DEF Promise!Next
  <2>3. CASE t.result = "collection_error"
    <3>1. Promise!Fails(d, "collection_error")
      BY <2>row, <2>3 DEF Marked, Promise!Fails
    <3>2. t.wrote = {}
      BY <2>3, <1>was DEF RolledBack
    <3>3. seen' = [seen EXCEPT ![d] = [v \in Vms |-> seen[d][v]]]
      BY <2>stored, <3>2 DEF Promise!Stored
    <3>4. seen' = seen
      BY <3>3, <1>stage DEF TypeOK
    <3>5. Promise!Break(d)
      BY <3>1, <3>4, <1>2, <1>ends DEF Promise!Break
    <3>6. QED
      BY <3>5, <1>stage DEF Promise!Next
  <2>4. QED
    BY <2>1, <2>2, <2>3, <1>t DEF Failures
<1>3. QED
  BY <1>1, <1>2

\* A task that goes on within a stage.
LEMMA SameStage ==
  ASSUME TypeOK, OneCollectionPerConnection, NEW r \in Reqs, Live(r),
         NEW d \in Conns, task[r].target = d,
         task'[r].target = d, StageOf(task'[r].pc) = StageOf(task[r].pc),
         \A q \in Reqs \ {r} : task'[q] = task[q]
  PROVE  Stages' = Stages
<1>1. Stages' = [Stages EXCEPT ![d] = StageOf(task'[r].pc)]
  BY StageMoves
<1>2. Stages[d] = StageOf(task'[r].pc)
  BY StageAlone
<1>3. QED
  BY <1>1, <1>2 DEF Stages

\* The request keeps the promise: it gives up, its attempt is recorded, or its
\* connection has gone before it was.
LEMMA RequestKeepsPromise ==
  ASSUME TypeOK, AtOnceInv, NEW r \in Reqs,
         Find(r) \/ AttemptRead(r) \/ AttemptWrite(r) \/ AttemptFails(r)
  PROVE  [Promise!Next]_(Promise!vars)
<1> DEFINE t == task[r]
<1>t. t \in Task
  BY DEF TypeOK
<1>d. PICK d \in Conns : task[r].target = d
  BY <1>t DEF Task
<1>was. Newest(t) /\ Accurate(t) /\ OneCollectionPerConnection
  BY DEF AtOnceInv, AloneInv, Steady
<1>pc. t.pc \in {"attempt", "found", "attempting"}
  BY DEF Find, AttemptRead, AttemptWrite, AttemptFails
<1>live. Live(r)
  BY <1>pc DEF Live
<1>others. \A q \in Reqs \ {r} : task'[q] = task[q]
  BY AdvanceAlone, CollectionAssumption DEF Advance, Fault
<1>stage. Stages[d] = "starting"
  <2>1. StageOf(t.pc) = "starting"
    BY <1>pc DEF StageOf
  <2>2. QED
    BY <2>1, <1>d, <1>live, <1>was, StageAlone
<1>giveup. ASSUME Release(r), UNCHANGED <<exists, row, seen, clock>>,
                  d \in exists => "exception" \in Faults
           PROVE  Promise!Next
  <2>1. task'[r].pc = "idle"
    BY <1>giveup, Now DEF Release, Idle
  <2>2. StageOf("idle") = "none"
    BY DEF StageOf, Working
  <2>3. Stages' = [Stages EXCEPT ![d] = "none"]
    BY <2>1, <2>2, <1>d, <1>live, <1>was, <1>others, StageMoves
  <2>4. Promise!GiveUp(d)
    BY <2>3, <1>giveup, <1>stage DEF Promise!GiveUp
  <2>5. QED
    BY <2>4 DEF Promise!Next
<1>1. CASE AttemptRead(r) /\ d \in exists
  <2> DEFINE u == [t EXCEPT !.pc = "attempting", !.at = clock + 1,
                            !.loaded = row[t.target]]
  <2>1. task'[r] = u
    BY <1>1, <1>d, Now DEF AttemptRead
  <2>2. u.pc = "attempting" /\ u.target = d
    BY <1>t, <1>d DEF Task
  <2> HIDE DEF u
  <2>3. StageOf(u.pc) = StageOf(t.pc)
    BY <2>2, <1>pc DEF StageOf
  <2>4. Stages' = Stages
    BY <2>1, <2>2, <2>3, <1>d, <1>live, <1>was, <1>others, SameStage
  <2>5. Promise!Tick
    BY <1>1, <1>d, <2>4 DEF AttemptRead, Promise!Tick
  <2>6. QED
    BY <2>5 DEF Promise!Next
<1>2. CASE AttemptWrite(r) /\ d \in exists
  <2> DEFINE u == [t EXCEPT !.pc = "queued"]
  <2>1. task'[r] = u
    BY <1>2, <1>d, Now DEF AttemptWrite
  <2>2. u.pc = "queued" /\ u.target = d
    BY <1>t, <1>d DEF Task
  <2> HIDE DEF u
  <2>3. StageOf("queued") = "running"
    BY DEF StageOf, Working
  <2>4. Stages' = [Stages EXCEPT ![d] = "running"]
    BY <2>1, <2>2, <2>3, <1>d, <1>live, <1>was, <1>others, StageMoves
  <2>5. t.pc = "attempting" /\ UNCHANGED <<exists, seen, clock>>
    BY <1>2, <1>d DEF AttemptWrite
  <2>6. t.at \in Promise!Moments(d)
    BY <2>5, <1>d, <1>was, MomentOfTask
  <2>7. row' = [row EXCEPT ![d] = Updated(@, t.loaded,
                                          Attempted(t.loaded, t.at))]
    BY <1>2, <1>d DEF AttemptWrite
  <2>8. Updated(row[d], t.loaded, Attempted(t.loaded, t.at))
          = Attempted(row[d], t.at)
    <3>1. t.loaded = row[d]
      BY <1>2, <2>5, <1>d, <1>was DEF Accurate
    <3>2. row[d] \in ConnRow /\ t.at \in Nat
      BY <1>t DEF TypeOK, Task
    <3>3. QED
      BY <3>1, <3>2, UpdatedAlone, MarkedTypes
  <2>9. row' = [row EXCEPT ![d] = Attempted(row[d], t.at)]
    BY <2>7, <2>8
  <2>10. Promise!Recorded(d, t.at)
    BY <2>9 DEF Attempted, Promise!Recorded
  <2>11. Promise!Attempt(d)
    BY <1>2, <2>4, <2>5, <2>6, <2>10, <1>stage DEF Promise!Attempt
  <2>12. QED
    BY <2>11 DEF Promise!Next
<1>3. CASE AttemptFails(r)
  BY <1>3, <1>giveup DEF AttemptFails
<1>4. CASE d \notin exists /\ (Find(r) \/ AttemptWrite(r))
  BY <1>4, <1>d, <1>giveup DEF Find, AttemptWrite
<1>5. CASE Find(r) /\ d \in exists
  <2> DEFINE u == [t EXCEPT !.pc = "found"]
  <2>1. task'[r] = u
    BY <1>5, <1>d, Now DEF Find
  <2>2. u.pc = "found" /\ u.target = d
    BY <1>t, <1>d DEF Task
  <2> HIDE DEF u
  <2>3. StageOf(u.pc) = StageOf(t.pc)
    BY <2>2, <1>pc DEF StageOf
  <2>4. Stages' = Stages
    BY <2>1, <2>2, <2>3, <1>d, <1>live, <1>was, <1>others, SameStage
  <2>5. QED
    BY <1>5, <2>4 DEF Find, Promise!vars
<1>6. CASE AttemptRead(r) /\ d \notin exists
  <2> DEFINE u == [t EXCEPT !.pc = "queued", !.at = clock + 1]
  <2>1. task'[r] = u
    BY <1>6, <1>d, Now DEF AttemptRead
  <2>2. u.pc = "queued" /\ u.target = d
    BY <1>t, <1>d DEF Task
  <2> HIDE DEF u
  <2>3. StageOf("queued") = "running"
    BY DEF StageOf, Working
  <2>4. Stages' = [Stages EXCEPT ![d] = "running"]
    BY <2>1, <2>2, <2>3, <1>d, <1>live, <1>was, <1>others, StageMoves
  <2>5. Promise!Miss(d)
    BY <1>6, <2>4, <1>stage DEF AttemptRead, Promise!Miss
  <2>6. QED
    BY <2>5 DEF Promise!Next
<1>7. QED
  BY <1>1, <1>2, <1>3, <1>4, <1>5, <1>6

\* A collection that runs goes on running until it commits, unless its
\* connection is gone or its failure cannot be recorded.
LEMMA RunningShape ==
  ASSUME TypeOK, NEW r \in Reqs, Undecided(task[r]), task[r].pc \in Working,
         Advance(r) \/ Fault(r), ~Commit(r)
  PROVE  /\ UNCHANGED <<exists, row, seen>>
         /\ clock' \in {clock, clock + 1}
         /\ task'[r].target = task[r].target
         /\ \/ task'[r].pc \in Working
            \/ /\ task'[r].pc = "done" /\ UNCHANGED clock
               /\ task[r].target \notin exists \/ "record" \in Faults
<1> DEFINE t == task[r]
           Goal == /\ task'[r].target = t.target
                   /\ \/ task'[r].pc \in Working
                      \/ /\ task'[r].pc = "done" /\ UNCHANGED clock
                         /\ t.target \notin exists \/ "record" \in Faults
<1>t. t \in Task
  BY DEF TypeOK
<1>pc. t.pc \in {"queued", "connect", "listing", "flush", "mark", "marking",
                 "commit"}
  BY DEF Working
<1>kept. UNCHANGED <<exists, row, seen>> /\ clock' \in {clock, clock + 1}
  <2>1. CASE Load(r)
    BY <2>1 DEF Load
  <2>2. CASE Find(r) \/ AttemptRead(r) \/ AttemptWrite(r)
    BY <2>2, <1>pc DEF Find, AttemptRead, AttemptWrite
  <2>3. CASE ~(Load(r) \/ Find(r) \/ AttemptRead(r) \/ AttemptWrite(r))
    <3>1. Connect(r) \/ ConnectFails(r) \/ FillBatch(r)
            => UNCHANGED <<exists, row, seen, clock>>
      BY Zenon DEF Connect, ConnectFails, FillBatch
    <3>2. Flush(r) \/ FlushViolates(r) \/ FlushDeadlocked(r)
            => UNCHANGED <<exists, row, seen, clock>>
      BY DEF Flush, FlushViolates, FlushDeadlocked
    <3>3. EndListing(r) \/ AuthLost(r) \/ MarkRead(r) \/ MarkFlush(r)
            => UNCHANGED <<exists, row, seen, clock>>
      BY DEF EndListing, AuthLost, MarkRead, MarkFlush
    <3>4. Finish(r) \/ Fault(r) => UNCHANGED <<exists, row, seen, clock>>
      BY DEF Finish, Fault, AttemptFails, Exception, RecordFails
    <3>5. QED
      BY <2>3, <3>1, <3>2, <3>3, <3>4 DEF Advance
  <2>4. QED
    BY <2>1, <2>2, <2>3
<1>same. ASSUME NEW u, Becomes(r, u), u.target = t.target,
                u.pc \in {"connect", "listing", "flush", "mark", "marking",
                          "commit"}
         PROVE  Goal
  BY <1>same, Now DEF Working
<1>abandon. ASSUME Abandon(r), UNCHANGED clock,
                   \/ t.result # "collection_error"
                   \/ t.target \notin exists
                   \/ "record" \in Faults
            PROVE  Goal
  BY <1>abandon, AbandonShape DEF Working
<1> SUFFICES Goal
  BY <1>kept
<1> HIDE DEF Goal
<1>1. CASE Load(r) /\ t.target \in exists
  BY <1>1, <1>t, <1>same DEF Load, Task
<1>2. CASE Load(r) /\ t.target \notin exists
  <2> DEFINE u == [t EXCEPT !.pc = "done"]
  <2>1. task'[r] = u /\ UNCHANGED clock
    BY <1>2, Now DEF Load
  <2>2. u.pc = "done" /\ u.target = t.target
    BY <1>t DEF Task
  <2> HIDE DEF u
  <2>3. QED
    BY <1>2, <1>kept, <2>1, <2>2 DEF Goal
<1>3. CASE Connect(r)
  <2>1. PICK listing \in SUBSET Vms :
          Becomes(r, [t EXCEPT !.pc = "listing", !.open = TRUE,
                               !.listing = listing])
    BY <1>3, Zenon DEF Connect
  <2> DEFINE u == [t EXCEPT !.pc = "listing", !.open = TRUE,
                            !.listing = listing]
  <2>2. u.pc = "listing" /\ u.target = t.target
    BY <1>t DEF Task
  <2>3. Becomes(r, u)
    BY <2>1
  <2> HIDE DEF u
  <2>4. QED
    BY <2>2, <2>3, <1>same
<1>4. CASE ConnectFails(r)
  <2>1. PICK f \in {"credential_error", "permission_error", "unreachable"} :
          Becomes(r, [t EXCEPT !.pc = "mark", !.result = f])
    BY <1>4 DEF ConnectFails
  <2> DEFINE u == [t EXCEPT !.pc = "mark", !.result = f]
  <2>2. u.pc = "mark" /\ u.target = t.target
    BY <1>t DEF Task
  <2>3. Becomes(r, u)
    BY <2>1
  <2> HIDE DEF u
  <2>4. QED
    BY <2>2, <2>3, <1>same
<1>5. CASE FillBatch(r)
  <2>1. PICK batch \in SUBSET t.listing :
          Becomes(r, [t EXCEPT !.pc = "flush", !.listing = @ \ batch,
                               !.batch = batch,
                               !.fresh = Unidentified(t, batch)])
    BY <1>5, Zenon DEF FillBatch
  <2> DEFINE u == [t EXCEPT !.pc = "flush", !.listing = @ \ batch,
                            !.batch = batch, !.fresh = Unidentified(t, batch)]
  <2>2. u.pc = "flush" /\ u.target = t.target
    BY <1>t DEF Task
  <2>3. Becomes(r, u)
    BY <2>1
  <2> HIDE DEF u
  <2>4. QED
    BY <2>2, <2>3, <1>same
<1>6. CASE Flush(r)
  BY <1>6, <1>t, <1>same DEF Flush, Task
<1>7. CASE FlushViolates(r) \/ FlushDeadlocked(r)
  <2>1. t.pc = "flush"
    BY <1>7 DEF FlushViolates, FlushDeadlocked, InRing
  <2>2. t.result # "collection_error"
    BY <2>1 DEF Undecided
  <2>3. QED
    BY <1>7, <2>2, <1>kept, <1>abandon DEF FlushViolates, FlushDeadlocked
<1>8. CASE Exception(r) \/ RecordFails(r)
  BY <1>8, <1>kept, <1>abandon DEF Exception, RecordFails
<1>9. CASE EndListing(r) \/ AuthLost(r) \/ MarkRead(r)
  BY <1>9, <1>t, <1>same DEF EndListing, AuthLost, MarkRead, Task
<1>10. CASE MarkFlush(r)
  BY <1>10, <1>t, <1>kept, <1>same, <1>abandon DEF MarkFlush, Task
<1>11. CASE \/ Find(r) \/ AttemptRead(r) \/ AttemptWrite(r)
            \/ Finish(r) \/ AttemptFails(r)
  BY <1>11, <1>pc DEF Find, AttemptRead, AttemptWrite, Finish, AttemptFails
<1>12. QED
  BY <1>1, <1>2, <1>3, <1>4, <1>5, <1>6, <1>7, <1>8, <1>9, <1>10, <1>11
  DEF Advance, Fault

LEMMA TaskKeepsPromise ==
  ASSUME TypeOK, AtOnceInv, NEW r \in Reqs, Advance(r) \/ Fault(r)
  PROVE  [Promise!Next]_(Promise!vars)
<1> DEFINE t == task[r]
<1>d. PICK d \in Conns : task[r].target = d
  BY DEF TypeOK, Task
<1>was. Undecided(t) /\ OneCollectionPerConnection
  BY DEF AtOnceInv, AloneInv, Steady
<1>live. Live(r)
  BY AdvanceShape, CollectionAssumption DEF GoesOn
<1>others. \A q \in Reqs \ {r} : task'[q] = task[q]
  BY AdvanceAlone, CollectionAssumption
<1>1. CASE Find(r) \/ AttemptRead(r) \/ AttemptWrite(r) \/ AttemptFails(r)
  BY <1>1, RequestKeepsPromise
<1>2. CASE Commit(r)
  BY <1>2, CommitKeepsPromise
<1>3. CASE Finish(r)
  <2>1. t.pc = "done" /\ task'[r].pc = "idle"
    BY <1>3, Now DEF Finish, Release, Idle
  <2>2. StageOf("done") = "none" /\ StageOf("idle") = "none"
    BY DEF StageOf, Working
  <2>3. Stages' = [Stages EXCEPT ![d] = "none"] /\ Stages[d] = "none"
    BY <2>1, <2>2, <1>d, <1>live, <1>was, <1>others, StageMoves, StageAlone
  <2>4. Stages' = Stages
    BY <2>3 DEF Stages
  <2>5. QED
    BY <1>3, <2>4 DEF Finish, Promise!vars
<1>4. CASE t.pc \in Working /\ ~Commit(r)
  <2>shape. /\ UNCHANGED <<exists, row, seen>>
            /\ clock' \in {clock, clock + 1}
            /\ task'[r].target = d
            /\ \/ task'[r].pc \in Working
               \/ /\ task'[r].pc = "done" /\ UNCHANGED clock
                  /\ d \notin exists \/ "record" \in Faults
    BY <1>4, <1>was, <1>d, RunningShape
  <2>running. StageOf(t.pc) = "running"
    BY <1>4 DEF StageOf, Working
  <2>1. CASE task'[r].pc \in Working
    <3>1. StageOf(task'[r].pc) = "running"
      BY <2>1 DEF StageOf, Working
    <3>2. Stages' = Stages
      BY <3>1, <2>shape, <2>running, <1>d, <1>live, <1>was, <1>others, SameStage
    <3>3. UNCHANGED Promise!vars \/ Promise!Tick
      BY <3>2, <2>shape DEF Promise!vars, Promise!Tick
    <3>4. QED
      BY <3>3 DEF Promise!Next
  <2>2. CASE task'[r].pc = "done" /\ UNCHANGED clock
    <3>1. StageOf("done") = "none"
      BY DEF StageOf, Working
    <3>2. Stages' = [Stages EXCEPT ![d] = "none"]
      BY <3>1, <2>2, <2>shape, <1>d, <1>live, <1>was, <1>others, StageMoves
    <3>3. Stages[d] = "running"
      BY <2>running, <1>d, <1>live, <1>was, StageAlone
    <3>4. CASE d \notin exists
      <4>1. Promise!Vanish(d)
        BY <3>2, <3>3, <3>4, <2>shape, <2>2 DEF Promise!Vanish, Promise!Ends
      <4>2. QED
        BY <4>1 DEF Promise!Next
    <3>5. CASE "record" \in Faults
      <4>1. Stages' = [c \in Conns |-> IF c \in {d} THEN "none" ELSE Stages[c]]
        BY <3>2 DEF Stages
      <4>2. Promise!Lose
        BY <4>1, <3>5, <2>shape, <2>2 DEF Promise!Lose
      <4>3. QED
        BY <4>2 DEF Promise!Next
    <3>6. QED
      BY <2>2, <2>shape, <3>4, <3>5 DEF Working
  <2>3. QED
    BY <2>1, <2>2, <2>shape
<1>5. \/ Find(r) \/ AttemptRead(r) \/ AttemptWrite(r) \/ AttemptFails(r)
      \/ Finish(r) \/ t.pc \in Working
  <2>1. FlushDeadlocked(r) => t.pc = "flush"
    BY DEF FlushDeadlocked, InRing
  <2>2. CASE Advance(r)
    <3>1. Load(r) \/ Connect(r) \/ ConnectFails(r)
            => t.pc \in {"queued", "connect"}
      BY Zenon DEF Load, Connect, ConnectFails
    <3>2. FillBatch(r) \/ Flush(r) \/ FlushViolates(r)
            => t.pc \in {"listing", "flush"}
      BY Zenon DEF FillBatch, Flush, FlushViolates
    <3>3. EndListing(r) \/ AuthLost(r) => t.pc \in Working
      BY DEF EndListing, AuthLost, Working
    <3>4. MarkRead(r) \/ MarkFlush(r) \/ Commit(r) => t.pc \in Working
      BY DEF MarkRead, MarkFlush, Commit, Working
    <3>5. QED
      BY <2>1, <2>2, <3>1, <3>2, <3>3, <3>4 DEF Advance, Working
  <2>3. CASE Fault(r)
    BY <2>3 DEF Fault, Exception, RecordFails, Working
  <2>4. QED
    BY <2>2, <2>3
<1>6. QED
  BY <1>1, <1>2, <1>3, <1>4, <1>5

\* A request the guard admits is the only one for its connection.
LEMMA StartKeepsPromise ==
  ASSUME NEW w, Workers = {w}, TypeOK, GuardIsExact,
         NEW r \in Reqs, NEW c \in Conns, Start(r, w, c)
  PROVE  Promise!Next
<1>w. w \in Workers
  OBVIOUS
<1>idle. StageOf("idle") = "none" /\ StageOf("attempt") = "starting"
  BY DEF StageOf, Working
<1>1. /\ task[r].pc = "idle"
      /\ task'[r].pc = "attempt" /\ task'[r].target = c
      /\ \A q \in Reqs \ {r} : task'[q] = task[q]
  <2>1. task[r].pc = "idle"
    BY DEF Start, Live
  <2>2. QED
    BY <2>1, <1>w, StartShape
<1>2. \A q \in Reqs : task[q].target = c => task[q].pc = "idle"
  <2>1. c \notin running[w] /\ w \notin BadKey
    BY DEF Start, MayStart
  <2>2. \A q \in Reqs : task[q].home = w
    BY DEF TypeOK, Task
  <2>3. QED
    BY <2>1, <2>2, <1>w DEF GuardIsExact, Live
<1>3. Stages[c] = "none"
  BY <1>2, <1>idle DEF Stages, Stage
<1>4. Stage(c)' = "starting"
  BY <1>1, <1>idle DEF Stage
<1>5. ASSUME NEW d \in Conns \ {c}
      PROVE  Stage(d)' = Stage(d)
  <2>1. \A q \in Reqs : \A s \in {"starting", "running"} :
          task'[q].target = d /\ StageOf(task'[q].pc) = s
            <=> task[q].target = d /\ StageOf(task[q].pc) = s
    BY <1>1, <1>idle, <1>5
  <2>2. QED
    BY <2>1 DEF Stage
<1>6. Stages' = [d \in Conns |-> IF d = c THEN "starting" ELSE Stage(d)]
  BY <1>4, <1>5 DEF Stages
<1>7. Stages' = [Stages EXCEPT ![c] = "starting"]
  BY <1>6 DEF Stages
<1>8. Promise!Begin(c)
  BY <1>3, <1>7 DEF Start, Promise!Begin
<1>9. QED
  BY <1>8 DEF Promise!Next

\* Every step of the only worker process is a step of the promise, or one that
\* nobody who reads the database can see.
LEMMA StepKeepsPromise ==
  ASSUME NEW w, Workers = {w}, TypeOK, AtOnceInv, [Next]_vars
  PROVE  [Promise!Next]_(Promise!vars)
<1>idle. StageOf("idle") = "none" /\ Idle.pc = "idle"
  BY DEF StageOf, Working, Idle
<1>1. CASE UNCHANGED vars
  <2>1. Stages' = Stages
    BY <1>1 DEF vars, Stages, Stage
  <2>2. QED
    BY <1>1, <2>1 DEF vars, Promise!vars
<1>2. ASSUME NEW r \in Reqs, Advance(r) \/ Fault(r)
      PROVE  [Promise!Next]_(Promise!vars)
  BY <1>2, TaskKeepsPromise
<1>3. ASSUME NEW r \in Reqs, NEW v \in Workers, NEW c \in Conns, Start(r, v, c)
      PROVE  [Promise!Next]_(Promise!vars)
  BY <1>3, StartKeepsPromise DEF AtOnceInv
<1>4. ASSUME NEW c \in Conns, DeleteCount(c) \/ DeleteRow(c)
      PROVE  [Promise!Next]_(Promise!vars)
  <2>1. UNCHANGED <<row, seen, task, clock>>
    BY <1>4 DEF DeleteCount, DeleteRow
  <2>2. Stages' = Stages
    BY <2>1 DEF Stages, Stage
  <2>3. CASE exists' = exists
    BY <2>1, <2>2, <2>3 DEF Promise!vars
  <2>4. CASE exists' # exists
    <3>1. Promise!Delete(c)
      BY <1>4, <2>1, <2>2, <2>4 DEF DeleteCount, DeleteRow, Deletable,
         Promise!Delete
    <3>2. QED
      BY <3>1 DEF Promise!Next
  <2>5. QED
    BY <2>3, <2>4
<1>5. ASSUME NEW v \in Workers, Crash(v)
      PROVE  [Promise!Next]_(Promise!vars)
  <2>1. \A q \in Reqs : task[q].home = v
    BY DEF TypeOK, Task
  <2>2. \A q \in Reqs : task'[q] = Idle
    BY <1>5, <2>1 DEF Crash
  <2>3. Stages' = [c \in Conns |-> "none"]
    BY <2>2, <1>idle DEF Stages, Stage
  <2>4. Stages' = [c \in Conns |-> IF c \in Conns THEN "none" ELSE Stages[c]]
    BY <2>3
  <2>5. Promise!Lose
    BY <1>5, <2>4 DEF Crash, Promise!Lose
  <2>6. QED
    BY <2>5 DEF Promise!Next
<1>6. ASSUME NEW v \in Workers, NEW c \in Conns, StartRaises(v, c)
      PROVE  [Promise!Next]_(Promise!vars)
  <2>1. Stages' = Stages
    BY <1>6 DEF StartRaises, Stages, Stage
  <2>2. QED
    BY <1>6, <2>1 DEF StartRaises, Promise!vars
<1>7. QED
  BY <1>1, <1>2, <1>3, <1>4, <1>5, <1>6 DEF Next

\* With one worker process, whatever fails and whenever it dies, collections
\* do what Collecting says: each happens at once to those who read the rows of
\* its connection and of its machines.  An end that tells nothing needs a
\* failure that cannot be recorded or a process that dies.
THEOREM OneWorkerKeepsPromise ==
  ASSUME NEW w, Workers = {w}
  PROVE  Spec => ImplementsPromise
<1>1. Init => Promise!Init
  <2>1. ASSUME Init PROVE Stages = [c \in Conns |-> "none"]
    BY <2>1 DEF Init, Idle, Stages, Stage, StageOf, Working
  <2>2. QED
    BY <2>1 DEF Init, NewRow, Promise!Init, Promise!NewRow
<1>2. Init => OrphanInv /\ \A r \in Reqs : RolledBack(task[r])
  BY DEF Init, OrphanInv, NoOrphanVms, Identified, RolledBack, Idle
<1>3. TypeOK /\ OrphanInv /\ [Next]_vars => OrphanInv'
  BY OrphanStep
<1>4. TypeOK /\ AtOnceInv /\ [Next]_vars
        => (\A r \in Reqs : RolledBack(task[r]))'
  BY AllRolledBack
<1>5. TypeOK /\ AtOnceInv /\ [Next]_vars => [Promise!Next]_(Promise!vars)
  BY StepKeepsPromise
<1>6. Spec => []GuardIsExact /\ []OneCollectionPerConnection /\ []AloneInv
  BY GuardExact, OneWorkerCollectsOnce, AloneInvariant
<1> DEFINE Clean == \A r \in Reqs : RolledBack(task[r])
<1>7. Spec => []AtOnceInv
  <2>1. AtOnceInv <=> /\ GuardIsExact /\ OneCollectionPerConnection
                      /\ OrphanInv /\ AloneInv /\ Clean
    BY DEF AtOnceInv
  <2> HIDE DEF Clean
  <2>2. Init => OrphanInv /\ Clean
    BY <1>2 DEF Clean
  <2>3. TypeOK /\ AtOnceInv /\ [Next]_vars => Clean'
    BY <1>4 DEF Clean
  <2>4. QED
    BY <1>3, <1>6, <2>1, <2>2, <2>3, TypeCorrect, PTL DEF Spec
<1>8. QED
  BY <1>1, <1>5, <1>7, TypeCorrect, PTL
  DEF Spec, ImplementsPromise, Promise!Spec
-----------------------------------------------------------------------------
(* Transactions that wait for each other                                   *)

\* Who waits takes no step: Waits is no weaker than the guards of Advance.
LEMMA WaitingTakesNoStep ==
  ASSUME NEW r \in Reqs, Waits(r)
  PROVE  ~Advance(r)
<1>1. CASE task[r].pc \in {"attempting", "marking"}
  <2>1. RowLocked(task[r].target) /\ task[r].target \in exists
    BY <1>1 DEF Waits
  <2>2. ~AttemptWrite(r) /\ ~MarkFlush(r)
    BY <2>1 DEF AttemptWrite, MarkFlush
  <2>3. ~FlushDeadlocked(r)
    BY <1>1 DEF FlushDeadlocked, InRing
  <2>4. /\ task[r].pc \notin {"attempt", "found", "queued", "connect", "listing"}
        /\ task[r].pc \notin {"flush", "mark", "commit", "done"}
    BY <1>1
  <2>5. ~(Find(r) \/ AttemptRead(r) \/ Load(r) \/ Connect(r)
            \/ ConnectFails(r) \/ FillBatch(r) \/ Flush(r)
            \/ FlushViolates(r))
    BY <2>4, Zenon DEF Find, AttemptRead, Load, Connect, ConnectFails, FillBatch,
       Flush, FlushViolates
  <2>6. ~(EndListing(r) \/ AuthLost(r) \/ MarkRead(r) \/ Commit(r)
            \/ Finish(r))
    BY <2>4, Zenon DEF EndListing, AuthLost, MarkRead, Commit, Finish
  <2>7. QED
    BY <2>2, <2>3, <2>5, <2>6 DEF Advance
<1>2. CASE task[r].pc = "flush"
  <2>1. Blockers(r) # {} /\ ~InRing(r)
    BY <1>2 DEF Waits
  <2>2. ~Flush(r) /\ ~FlushViolates(r)
    BY <2>1 DEF Flush, FlushViolates
  <2>3. ~FlushDeadlocked(r)
    BY <2>1 DEF FlushDeadlocked, InRing
  <2>4. QED
    BY <1>2, <2>2, <2>3 DEF Advance, Find, AttemptRead, AttemptWrite, Load, Connect,
       ConnectFails, FillBatch, EndListing, AuthLost, MarkRead, MarkFlush,
       Commit, Finish
<1>3. QED
  BY <1>1, <1>2 DEF Waits

\* R holds the pairs of one who waits and one he waits for.
Blocked(T, R) == \A x \in T : \E y \in T : <<x, y>> \in R
Blocking(T, R) == \A x \in T : \E y \in T : <<y, x>> \in R

\* Among finitely many who each wait for another of them some wait in a ring:
\* a smallest set of them that is closed is one, for a member nobody waits for
\* could be left out.
LEMMA SomeWaitInARing ==
  ASSUME NEW S, IsFiniteSet(S), NEW F \in SUBSET S, F # {},
         NEW R, Blocked(F, R)
  PROVE  \E ring \in SUBSET F :
           ring # {} /\ Blocked(ring, R) /\ Blocking(ring, R)
<1> DEFINE Less == StrictSubsetOrdering(S)
           C == {T \in SUBSET F : T # {} /\ Blocked(T, R)}
<1>1. IsWellFoundedOn(Less, SUBSET S)
  BY FS_StrictSubsetOrderingWellFounded, FS_FiniteSubsetsOfFinite
<1>2. C \subseteq SUBSET S /\ F \in C
  OBVIOUS
<1>3. PICK T \in C : \A U \in C : ~(<<U, T>> \in Less)
  <2> HIDE DEF Less, C
  <2>1. C # {}
    BY <1>2
  <2>2. QED
    BY <1>1, <1>2, <2>1, WFMin
<1>4. T \in SUBSET F /\ T # {} /\ Blocked(T, R)
  OBVIOUS
<1>5. ASSUME NEW x \in T, \A y \in T : <<y, x>> \notin R
      PROVE  FALSE
  <2> DEFINE U == T \ {x}
  <2>1. U \in SUBSET F /\ Blocked(U, R)
    BY <1>4, <1>5 DEF Blocked
  <2>2. U # {}
    <3>1. PICK y \in T : <<x, y>> \in R
      BY <1>4 DEF Blocked
    <3>2. y # x
      BY <1>5, <3>1
    <3>3. QED
      BY <3>2
  <2>3. U \in C
    BY <2>1, <2>2
  <2>4. <<U, T>> \in Less
    BY <1>4, <1>5 DEF StrictSubsetOrdering
  <2>5. QED
    BY <1>3, <2>3, <2>4
<1>6. Blocking(T, R)
  BY <1>5 DEF Blocking
<1>7. QED
  BY <1>4, <1>6

\* A transaction has written only while it is open.
Writing == {"listing", "flush", "mark", "marking", "commit"}

OpenWrites(t) == t.wrote # {} => t.pc \in Writing

LEMMA OpenWritesStep ==
  ASSUME CollectionAssumption, TypeOK, NEW r \in Reqs, OpenWrites(task[r]),
         Advance(r) \/ Fault(r)
  PROVE  OpenWrites(task'[r])
<1> DEFINE t == task[r]
<1>t. t \in Task
  BY DEF TypeOK
<1>idle. Idle.wrote = {}
  BY DEF Idle
<1>release. ASSUME Release(r) PROVE OpenWrites(task'[r])
  BY <1>release, <1>idle, Now DEF Release, OpenWrites
<1>abandon. ASSUME Abandon(r) PROVE OpenWrites(task'[r])
  BY <1>abandon, AbandonShape DEF OpenWrites
<1>open. ASSUME NEW u, Becomes(r, u), u.pc \in Writing
         PROVE  OpenWrites(task'[r])
  BY <1>open, Now DEF OpenWrites
<1>same. ASSUME t.pc \notin Writing, NEW u, Becomes(r, u), u.wrote = t.wrote
         PROVE  OpenWrites(task'[r])
  BY <1>same, Now DEF OpenWrites
<1>1. CASE Find(r) \/ AttemptRead(r) \/ AttemptWrite(r)
  BY <1>1, <1>t, <1>release, <1>same DEF Find, AttemptRead, AttemptWrite,
     Task, Writing
<1>2. CASE Load(r)
  BY <1>2, <1>t, <1>same DEF Load, Task, Writing
<1>3. CASE Connect(r) \/ ConnectFails(r)
  <2>1. "listing" \in Writing /\ "mark" \in Writing
    BY DEF Writing
  <2>2. CASE Connect(r)
    BY <2>2, <1>t, <1>open, <2>1 DEF Connect, Task
  <2>3. CASE ConnectFails(r)
    BY <2>3, <1>t, <1>open, <2>1 DEF ConnectFails, Task
  <2>4. QED
    BY <1>3, <2>2, <2>3
<1>4. CASE FillBatch(r) \/ Flush(r)
  <2>1. "listing" \in Writing /\ "flush" \in Writing
    BY DEF Writing
  <2>2. CASE FillBatch(r)
    BY <2>2, <1>t, <1>open, <2>1 DEF FillBatch, Task
  <2>3. CASE Flush(r)
    BY <2>3, <1>t, <1>open, <2>1 DEF Flush, Task
  <2>4. QED
    BY <1>4, <2>2, <2>3
<1>5. CASE EndListing(r) \/ AuthLost(r) \/ MarkRead(r)
  BY <1>5, <1>t, <1>open DEF EndListing, AuthLost, MarkRead, Task, Writing
<1>6. CASE MarkFlush(r)
  BY <1>6, <1>t, <1>open, <1>abandon DEF MarkFlush, Task, Writing
<1>7. CASE Commit(r)
  <2>1. task'[r].wrote = {}
    BY <1>7, <1>t, Now DEF Commit, Task
  <2>2. QED
    BY <2>1 DEF OpenWrites
<1>8. CASE Finish(r) \/ AttemptFails(r)
  BY <1>8, <1>release DEF Finish, AttemptFails
<1>9. CASE FlushViolates(r) \/ FlushDeadlocked(r) \/ Exception(r)
           \/ RecordFails(r)
  BY <1>9, <1>abandon
  DEF FlushViolates, FlushDeadlocked, Exception, RecordFails
<1>10. QED
  BY <1>1, <1>2, <1>3, <1>4, <1>5, <1>6, <1>7, <1>8, <1>9 DEF Advance, Fault

\* In one state: if all that are under way wait, then all are at a flush and
\* each of them is blocked by another one, so that some wait in a ring.
LEMMA SomeoneDoesNotWait ==
  ASSUME IsFiniteSet(Reqs), TypeOK, \A r \in Reqs : OpenWrites(task[r])
  PROVE  NotAllWait
<1> SUFFICES ASSUME NEW p \in Reqs, Live(p),
                    \A r \in Reqs : Live(r) => Waits(r)
             PROVE  FALSE
  BY DEF NotAllWait
<1> DEFINE F == {r \in Reqs : task[r].pc = "flush"}
           R == {e \in Reqs \X Reqs : e[2] \in Blockers(e[1])}
<1>1. ASSUME NEW r \in Reqs PROVE task[r].pc # "commit"
  BY <1>1 DEF Waits, Live
<1>2. ASSUME NEW r \in Reqs, Live(r)
      PROVE  task[r].pc = "flush" /\ Blockers(r) # {} /\ ~InRing(r)
  <2>1. ~RowLocked(task[r].target)
    BY <1>1 DEF RowLocked
  <2>2. QED
    BY <1>2, <2>1 DEF Waits
<1>3. ASSUME NEW r \in F PROVE \E q \in F : <<r, q>> \in R
  <2>1. PICK q \in Blockers(r) : TRUE
    BY <1>2, <1>3 DEF Live
  <2>2. q \in Reqs /\ task[q].wrote # {}
    BY <2>1 DEF Blockers
  <2>3. Live(q)
    BY <2>2 DEF OpenWrites, Writing, Live
  <2>4. q \in F
    BY <2>2, <2>3, <1>2
  <2>5. QED
    BY <2>1, <2>4, <1>3
<1>4. p \in F
  BY <1>2
<1>5. PICK ring \in SUBSET F :
        ring # {} /\ Blocked(ring, R) /\ Blocking(ring, R)
  <2>1. F \in SUBSET Reqs /\ F # {}
    BY <1>4
  <2>2. Blocked(F, R)
    BY <1>3 DEF Blocked
  <2> HIDE DEF F, R
  <2>3. QED
    BY <2>1, <2>2, SomeWaitInARing
<1>6. PICK r \in ring : TRUE
  BY <1>5
<1>7. InRing(r)
  <2>1. ring \in SUBSET Reqs /\ \A x \in ring : task[x].pc = "flush"
    BY <1>5
  <2>2. \A x, y : <<x, y>> \in R => y \in Blockers(x)
    OBVIOUS
  <2> HIDE DEF F, R
  <2>3. \A x \in ring : /\ \E y \in ring : y \in Blockers(x)
                       /\ \E y \in ring : x \in Blockers(y)
    BY <1>5, <2>2 DEF Blocked, Blocking
  <2>4. QED
    BY <1>6, <2>1, <2>3, Zenon DEF InRing
<1>8. QED
  BY <1>2, <1>5, <1>6, <1>7 DEF Live

\* However many worker processes and requests there are, and whatever fails,
\* the collections under way never all wait: the locks of rows are held for one
\* step, and batches that wait for each other, in a ring of whatever length,
\* are a ring PostgreSQL finds (upsert_virtual_machines, mark_success).
THEOREM NeverAllWait ==
  ASSUME IsFiniteSet(Reqs)
  PROVE  Spec => []NotAllWait
<1> DEFINE Inv == \A r \in Reqs : OpenWrites(task[r])
<1>idle. OpenWrites(Idle)
  BY DEF OpenWrites, Idle
<1>1. Init => Inv
  BY <1>idle DEF Init
<1>2. TypeOK /\ Inv /\ [Next]_vars => Inv'
  <2> SUFFICES ASSUME TypeOK, Inv, [Next]_vars PROVE Inv'
    OBVIOUS
  <2>1. CASE UNCHANGED vars
    BY <2>1 DEF vars
  <2>2. ASSUME NEW r \in Reqs, Advance(r) \/ Fault(r) PROVE Inv'
    BY <2>2, OpenWritesStep, AdvanceAlone, CollectionAssumption
  <2>3. ASSUME NEW r \in Reqs, NEW w \in Workers, NEW c \in Conns,
               Start(r, w, c)
        PROVE  Inv'
    BY <2>3, StartShape DEF OpenWrites
  <2>4. ASSUME NEW c \in Conns, DeleteCount(c) \/ DeleteRow(c) PROVE Inv'
    BY <2>4 DEF DeleteCount, DeleteRow
  <2>5. ASSUME NEW w \in Workers, Crash(w) PROVE Inv'
    BY <2>5, <1>idle DEF Crash
  <2>6. ASSUME NEW w \in Workers, NEW c \in Conns, StartRaises(w, c)
        PROVE  Inv'
    BY <2>6 DEF StartRaises
  <2>7. QED
    BY <2>1, <2>2, <2>3, <2>4, <2>5, <2>6 DEF Next
<1>3. TypeOK /\ Inv => NotAllWait
  BY SomeoneDoesNotWait
<1>4. QED
  BY <1>1, <1>2, <1>3, TypeCorrect, PTL DEF Spec

-----------------------------------------------------------------------------
(* What is told to who polls                                               *)

\* The entry of a connection in the report, field by field.
LEMMA ReportOf ==
  ASSUME NEW c \in Conns
  PROVE  Reported[c] = [there |-> IF c \in exists THEN "there" ELSE "gone",
                        success |-> row[c].success,
                        error |-> IF row[c].error = "none"
                                  THEN "none" ELSE "told",
                        job |-> Stages[c],
                        machines |-> {v \in Vms : seen[c][v] # 0}]
BY DEF Reported

\* An entry of the report, and the answers as entries.
Entry(there, success, error, job, machines) ==
    [there |-> there, success |-> success, error |-> error, job |-> job,
     machines |-> machines]

LEMMA AttemptReported ==
  ASSUME NEW s, NEW x, NEW m
  PROVE  Report!Attempts(Entry("there", s, x, "starting", m),
                         Entry("there", s, "none", "running", m))
<1> DEFINE e == Entry("there", s, x, "starting", m)
<1>1. [e EXCEPT !.job = "running", !.error = "none"]
        = [k \in DOMAIN e |-> IF k = "job" THEN "running"
                              ELSE IF k = "error" THEN "none" ELSE e[k]]
  OBVIOUS
<1>2. @ = Entry("there", s, "none", "running", m)
  BY DEF Entry
<1>3. e.job = "starting" /\ e.there = "there"
  BY DEF Entry
<1>4. QED
  BY <1>1, <1>2, <1>3 DEF Report!Attempts

LEMMA SuccessReported ==
  ASSUME NEW s, NEW x, NEW m, NEW u, s < u, NEW n, m \subseteq n
  PROVE  Report!Succeeds(Entry("there", s, x, "running", m),
                         Entry("there", u, "none", "none", n))
<1> DEFINE e == Entry("there", s, x, "running", m)
           f == Entry("there", u, "none", "none", n)
<1>1. [e EXCEPT !.job = "none", !.error = "none", !.success = u,
                !.machines = n]
        = [k \in DOMAIN e |-> IF k = "job" THEN "none"
                              ELSE IF k = "error" THEN "none"
                              ELSE IF k = "success" THEN u
                              ELSE IF k = "machines" THEN n ELSE e[k]]
  OBVIOUS
<1>2. @ = f
  BY DEF Entry
<1>3. /\ e.job = "running" /\ e.there = "there" /\ e.machines = m
      /\ f.success = u /\ f.machines = n /\ e.success = s
  BY DEF Entry
<1> HIDE DEF e, f
<1>4. Report!Succeeds(e, f)
  BY <1>1, <1>2, <1>3 DEF Report!Succeeds, Report!Ends
<1>5. QED
  BY <1>4 DEF e, f

LEMMA FailureReported ==
  ASSUME NEW s, NEW x, NEW m, NEW n, m \subseteq n
  PROVE  Report!Fails(Entry("there", s, x, "running", m),
                      Entry("there", s, "told", "none", n))
<1> DEFINE e == Entry("there", s, x, "running", m)
           f == Entry("there", s, "told", "none", n)
<1>1. [e EXCEPT !.job = "none", !.error = "told", !.machines = n]
        = [k \in DOMAIN e |-> IF k = "job" THEN "none"
                              ELSE IF k = "error" THEN "told"
                              ELSE IF k = "machines" THEN n ELSE e[k]]
  OBVIOUS
<1>2. @ = f
  BY DEF Entry
<1>3. /\ e.job = "running" /\ e.there = "there" /\ e.machines = m
      /\ f.machines = n
  BY DEF Entry
<1> HIDE DEF e, f
<1>4. Report!Fails(e, f)
  BY <1>1, <1>2, <1>3 DEF Report!Fails, Report!Ends
<1>5. QED
  BY <1>4 DEF e, f

\* A step that moves the entry of one connection and leaves the others.
LEMMA ReportMoves ==
  ASSUME NEW c \in Conns, Report!Moves(Reported[c], Reported'[c]),
         \A d \in Conns \ {c} : /\ d \in exists' <=> d \in exists
                                /\ row'[d] = row[d] /\ seen'[d] = seen[d]
                                /\ Stages'[d] = Stages[d]
  PROVE  Report!Next
<1>1. \A d \in Conns \ {c} : Reported'[d] = Reported[d]
  BY DEF Reported
<1>2. Reported' = [d \in Conns |-> Reported'[d]]
      /\ Reported = [d \in Conns |-> Reported[d]]
  BY DEF Reported
<1>3. Reported' = [Reported EXCEPT ![c] = Reported'[c]]
  BY <1>1, <1>2
<1>4. Report!Move(c)
  BY <1>3 DEF Report!Move
<1>5. QED
  BY <1>4 DEF Report!Next

\* What is stored later than all there is takes no machine away.
LEMMA MachinesGrow ==
  ASSUME TypeOK, NEW c \in Conns, NEW vms \in SUBSET Vms,
         NEW t \in Promise!Moments(c), Promise!Stored(c, vms, t)
  PROVE  /\ {v \in Vms : seen[c][v] # 0} \subseteq {v \in Vms : seen'[c][v] # 0}
         /\ \A d \in Conns \ {c} : seen'[d] = seen[d]
<1>1. \A v \in Vms : seen[c][v] \in Nat /\ seen[c][v] <= t
  BY DEF TypeOK, Promise!Moments
<1>2. t \in Nat
  BY DEF TypeOK, Promise!Moments
<1>3. \A v \in Vms : seen'[c][v] = IF v \in vms THEN t ELSE seen[c][v]
  BY DEF TypeOK, Promise!Stored
<1>4. \A d \in Conns \ {c} : seen'[d] = seen[d]
  BY DEF TypeOK, Promise!Stored
<1>5. QED
  BY <1>1, <1>2, <1>3, <1>4

\* The steps of a connection's collection before its end, and its deletion.
LEMMA StagesReport ==
  ASSUME TypeOK, NEW c \in Conns,
         \/ Promise!Begin(c) \/ Promise!GiveUp(c) \/ Promise!Attempt(c)
         \/ Promise!Miss(c) \/ Promise!Vanish(c) \/ Promise!Delete(c)
  PROVE  Report!Next
<1> DEFINE e == Reported[c]
           f == Reported'[c]
<1>e. e = [there |-> IF c \in exists THEN "there" ELSE "gone",
           success |-> row[c].success,
           error |-> IF row[c].error = "none" THEN "none" ELSE "told",
           job |-> Stages[c], machines |-> {v \in Vms : seen[c][v] # 0}]
  BY ReportOf
<1>f. f = [there |-> IF c \in exists' THEN "there" ELSE "gone",
           success |-> row'[c].success,
           error |-> IF row'[c].error = "none" THEN "none" ELSE "told",
           job |-> Stages'[c], machines |-> {v \in Vms : seen'[c][v] # 0}]
  BY DEF Reported
<1>types. row \in [Conns -> ConnRow] /\ DOMAIN Stages = Conns
  BY DEF TypeOK, Stages
<1>1. CASE Promise!Begin(c)
  <2>1. /\ UNCHANGED <<exists, row, seen>> /\ Stages[c] = "none"
        /\ Stages'[c] = "starting"
        /\ \A d \in Conns \ {c} : Stages'[d] = Stages[d]
    BY <1>1, <1>types DEF Promise!Begin
  <2>2. Report!Begins(e, f)
    BY <1>e, <1>f, <2>1 DEF Report!Begins
  <2>3. QED
    BY <2>1, <2>2, ReportMoves DEF Report!Moves
<1>2. CASE Promise!GiveUp(c)
  <2>1. /\ UNCHANGED <<exists, row, seen>> /\ Stages[c] = "starting"
        /\ c \in exists => "exception" \in Faults
        /\ Stages'[c] = "none"
        /\ \A d \in Conns \ {c} : Stages'[d] = Stages[d]
    BY <1>2, <1>types DEF Promise!GiveUp
  <2>2. Report!GivesUp(e, f)
    BY <1>e, <1>f, <2>1 DEF Report!GivesUp
  <2>3. QED
    BY <2>1, <2>2, ReportMoves DEF Report!Moves
<1>3. CASE Promise!Attempt(c)
  <2>1. PICK t \in Promise!Moments(c) : Promise!Recorded(c, t)
    BY <1>3 DEF Promise!Attempt
  <2>2. /\ UNCHANGED <<exists, seen>> /\ Stages[c] = "starting" /\ c \in exists
        /\ Stages'[c] = "running"
        /\ \A d \in Conns \ {c} : Stages'[d] = Stages[d]
    BY <1>3, <1>types DEF Promise!Attempt
  <2>3. /\ row'[c] = [row[c] EXCEPT !.attempt = t, !.error = "none"]
        /\ \A d \in Conns \ {c} : row'[d] = row[d]
    BY <2>1, <1>types DEF Promise!Recorded
  <2>4. row'[c].success = row[c].success /\ row'[c].error = "none"
    BY <2>3, <1>types DEF ConnRow
  <2>5. /\ e = Entry("there", row[c].success, e.error, "starting", e.machines)
        /\ f = Entry("there", row[c].success, "none", "running", e.machines)
    BY <1>e, <1>f, <2>2, <2>4 DEF Entry
  <2>7. Report!Attempts(e, f)
    <3> HIDE DEF e, f
    <3>1. QED
      BY <2>5, AttemptReported
  <2>8. QED
    BY <2>2, <2>3, <2>7, ReportMoves DEF Report!Moves
<1>4. CASE Promise!Vanish(c)
  <2>1. /\ UNCHANGED <<exists, row, seen>> /\ Stages[c] = "running"
        /\ c \notin exists /\ Stages'[c] = "none"
        /\ \A d \in Conns \ {c} : Stages'[d] = Stages[d]
    BY <1>4, <1>types DEF Promise!Vanish, Promise!Ends
  <2>2. Report!Vanishes(e, f)
    BY <1>e, <1>f, <2>1 DEF Report!Vanishes
  <2>3. QED
    BY <2>1, <2>2, ReportMoves DEF Report!Moves
<1>5. CASE Promise!Delete(c)
  <2>1. /\ UNCHANGED <<row, seen, Stages>> /\ c \in exists
        /\ exists' = exists \ {c} /\ \A v \in Vms : seen[c][v] = 0
    BY <1>5 DEF Promise!Delete
  <2>2. {v \in Vms : seen[c][v] # 0} = {}
    BY <2>1
  <2>3. Report!Deleted(e, f)
    BY <1>e, <1>f, <2>1, <2>2 DEF Report!Deleted
  <2>4. QED
    BY <2>1, <2>3, ReportMoves DEF Report!Moves
<1>6. CASE Promise!Miss(c)
  <2>1. /\ UNCHANGED <<exists, row, seen>> /\ Stages[c] = "starting"
        /\ c \notin exists /\ Stages'[c] = "running"
        /\ \A d \in Conns \ {c} : Stages'[d] = Stages[d]
    BY <1>6, <1>types DEF Promise!Miss
  <2>2. Report!Misses(e, f)
    BY <1>e, <1>f, <2>1 DEF Report!Misses
  <2>3. QED
    BY <2>1, <2>2, ReportMoves DEF Report!Moves
<1>7. QED
  BY <1>1, <1>2, <1>3, <1>4, <1>5, <1>6

\* The ends that tell something.
LEMMA EndsReport ==
  ASSUME TypeOK, NEW c \in Conns,
         Promise!Succeed(c) \/ Promise!Fail(c) \/ Promise!Break(c)
  PROVE  Report!Next
<1> DEFINE e == Reported[c]
           f == Reported'[c]
<1>e. e = [there |-> IF c \in exists THEN "there" ELSE "gone",
           success |-> row[c].success,
           error |-> IF row[c].error = "none" THEN "none" ELSE "told",
           job |-> Stages[c], machines |-> {v \in Vms : seen[c][v] # 0}]
  BY ReportOf
<1>f. f = [there |-> IF c \in exists' THEN "there" ELSE "gone",
           success |-> row'[c].success,
           error |-> IF row'[c].error = "none" THEN "none" ELSE "told",
           job |-> Stages'[c], machines |-> {v \in Vms : seen'[c][v] # 0}]
  BY DEF Reported
<1>types. row \in [Conns -> ConnRow] /\ DOMAIN Stages = Conns
  BY DEF TypeOK, Stages
<1>ends. /\ UNCHANGED exists /\ Stages[c] = "running" /\ c \in exists
         /\ Stages'[c] = "none"
         /\ \A d \in Conns \ {c} : Stages'[d] = Stages[d]
  BY <1>types DEF Promise!Succeed, Promise!Fail, Promise!Break, Promise!Ends
<1>1. CASE Promise!Succeed(c)
  <2>1. PICK t \in Promise!Moments(c), vms \in SUBSET Vms :
          row[c].success < t /\ Promise!Succeeds(c, t)
            /\ Promise!Stored(c, vms, t)
    BY <1>1 DEF Promise!Succeed
  <2>2. /\ row'[c] = [row[c] EXCEPT !.success = t, !.error = "none",
                                    !.status = "active"]
        /\ \A d \in Conns \ {c} : row'[d] = row[d]
    BY <2>1, <1>types DEF Promise!Succeeds
  <2>3. row'[c].success = t /\ row'[c].error = "none"
    BY <2>2, <1>types DEF ConnRow
  <2>4. /\ e.machines \subseteq f.machines
        /\ \A d \in Conns \ {c} : seen'[d] = seen[d]
    BY <1>e, <1>f, <2>1, MachinesGrow
  <2>5. /\ e = Entry("there", e.success, e.error, "running", e.machines)
        /\ f = Entry("there", f.success, "none", "none", f.machines)
    BY <1>e, <1>f, <1>ends, <2>3 DEF Entry
  <2>6. /\ e.job = "running" /\ e.there = "there"
        /\ e.success < f.success
    BY <1>e, <1>f, <1>ends, <2>1, <2>3
  <2>7. Report!Succeeds(e, f)
    <3> HIDE DEF e, f
    <3>1. QED
      BY <2>4, <2>5, <2>6, SuccessReported
  <2>8. QED
    BY <1>ends, <2>2, <2>4, <2>7, ReportMoves DEF Report!Moves
<1>2. CASE Promise!Fail(c)
  <2>1. PICK kind \in {"credential_error", "permission_error",
                       "unreachable"} : Promise!Fails(c, kind)
    BY <1>2 DEF Promise!Fail
  <2>2. PICK t \in Promise!Moments(c), vms \in SUBSET Vms :
          Promise!Stored(c, vms, t)
    BY <1>2 DEF Promise!Fail
  <2>3. /\ row'[c] = [row[c] EXCEPT !.error = kind, !.status = kind]
        /\ \A d \in Conns \ {c} : row'[d] = row[d]
    BY <2>1, <1>types DEF Promise!Fails
  <2>4. row'[c].success = row[c].success /\ row'[c].error # "none"
    BY <2>3, <1>types DEF ConnRow
  <2>5. /\ e.machines \subseteq f.machines
        /\ \A d \in Conns \ {c} : seen'[d] = seen[d]
    BY <1>e, <1>f, <2>2, MachinesGrow
  <2>6. /\ e = Entry("there", e.success, e.error, "running", e.machines)
        /\ f = Entry("there", e.success, "told", "none", f.machines)
    BY <1>e, <1>f, <1>ends, <2>4 DEF Entry
  <2>8. Report!Fails(e, f)
    <3> HIDE DEF e, f
    <3>1. QED
      BY <2>5, <2>6, FailureReported
  <2>9. QED
    BY <1>ends, <2>3, <2>5, <2>8, ReportMoves DEF Report!Moves
<1>3. CASE Promise!Break(c)
  <2>1. /\ row'[c] = [row[c] EXCEPT !.error = "collection_error",
                                    !.status = "collection_error"]
        /\ \A d \in Conns \ {c} : row'[d] = row[d]
        /\ seen' = seen
    BY <1>3, <1>types DEF Promise!Break, Promise!Fails
  <2>2. row'[c].success = row[c].success /\ row'[c].error # "none"
    BY <2>1, <1>types DEF ConnRow
  <2>3. /\ e = Entry("there", e.success, e.error, "running", e.machines)
        /\ f = Entry("there", e.success, "told", "none", e.machines)
    BY <1>e, <1>f, <1>ends, <2>1, <2>2 DEF Entry
  <2>5. Report!Fails(e, f)
    <3> HIDE DEF e, f
    <3>1. QED
      BY <2>3, FailureReported
  <2>6. QED
    BY <1>ends, <2>1, <2>5, ReportMoves DEF Report!Moves
<1>4. QED
  BY <1>1, <1>2, <1>3

\* A step of the promise is a step of the report or leaves it as it is.
LEMMA PromiseReports ==
  ASSUME TypeOK, [Promise!Next]_(Promise!vars)
  PROVE  [Report!Next]_Reported
<1>1. CASE UNCHANGED Promise!vars \/ Promise!Tick
  BY <1>1 DEF Promise!vars, Promise!Tick, Reported
<1>2. CASE Promise!Lose
  <2>1. PICK gone \in SUBSET Conns :
          Stages' = [c \in Conns |-> IF c \in gone THEN "none" ELSE Stages[c]]
    BY <1>2 DEF Promise!Lose
  <2>2. UNCHANGED <<exists, row, seen>>
        /\ Faults \cap {"record", "crash"} # {}
    BY <1>2 DEF Promise!Lose
  <2>3. ASSUME NEW c \in Conns
        PROVE  Reported'[c] = IF c \in gone
                              THEN [Reported[c] EXCEPT !.job = "none"]
                              ELSE Reported[c]
    BY <2>1, <2>2 DEF Reported
  <2>4. Reported' = [c \in Conns |-> IF c \in gone
                                     THEN [Reported[c] EXCEPT !.job = "none"]
                                     ELSE Reported[c]]
    BY <2>3 DEF Reported
  <2>5. Report!Lose
    BY <2>2, <2>4 DEF Report!Lose
  <2>6. QED
    BY <2>5 DEF Report!Next
<1>3. ASSUME NEW c \in Conns,
             \/ Promise!Begin(c) \/ Promise!GiveUp(c) \/ Promise!Attempt(c)
             \/ Promise!Miss(c) \/ Promise!Vanish(c) \/ Promise!Delete(c)
      PROVE  [Report!Next]_Reported
  BY <1>3, StagesReport
<1>4. ASSUME NEW c \in Conns,
             Promise!Succeed(c) \/ Promise!Fail(c) \/ Promise!Break(c)
      PROVE  [Report!Next]_Reported
  BY <1>4, EndsReport
<1>5. QED
  BY <1>1, <1>2, <1>3, <1>4 DEF Promise!Next

\* With one worker process, whoever polls GET /connections can tell the end of
\* each collection by last_success_at and last_error, unless a failure cannot
\* be recorded or the process dies: an attempt clears the error, its end sets
\* one or moves the success on, and nothing else does either.
THEOREM OneWorkerReports ==
  ASSUME NEW w, Workers = {w}
  PROVE  Spec => ImplementsReport
<1>1. Init => Report!Init
  <2>1. ASSUME Init, NEW c \in Conns
        PROVE  /\ Reported[c].there = "there" /\ Reported[c].success = 0
               /\ Reported[c].error = "none" /\ Reported[c].job = "none"
    <3>1. Stages[c] = "none"
      BY <2>1 DEF Init, Idle, Stages, Stage, StageOf, Working
    <3>2. row[c].success = 0 /\ row[c].error = "none" /\ c \in exists
      BY <2>1 DEF Init, NewRow
    <3>3. /\ Reported[c].there = IF c \in exists THEN "there" ELSE "gone"
          /\ Reported[c].success = row[c].success
          /\ Reported[c].error
               = IF row[c].error = "none" THEN "none" ELSE "told"
          /\ Reported[c].job = Stages[c]
      BY <2>1 DEF Reported
    <3>4. QED
      BY <3>1, <3>2, <3>3
  <2>2. QED
    BY <2>1 DEF Report!Init
<1>2. TypeOK /\ [Promise!Next]_(Promise!vars) => [Report!Next]_Reported
  BY PromiseReports
<1>3. Spec => [][Promise!Next]_(Promise!vars)
  BY OneWorkerKeepsPromise, PTL DEF ImplementsPromise, Promise!Spec
<1>4. QED
  BY <1>1, <1>2, <1>3, TypeCorrect, PTL
  DEF Spec, ImplementsReport, Report!Spec
=============================================================================
