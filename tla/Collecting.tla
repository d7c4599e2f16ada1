------------------------------ MODULE Collecting ------------------------------
(***************************************************************************)
(* What the inventory collection of a connection promises to those who read *)
(* its row and its machines: it starts, its attempt is recorded, and it     *)
(* ends in one step, which tells how it ended and brings everything it      *)
(* stored, as of one moment.  Collection is the detailed specification,     *)
(* with its awaits, batches, locks, rollbacks and failures.                 *)
(***************************************************************************)
EXTENDS Naturals

CONSTANTS
    Conns,      \* registered hypervisor connections
    Vms,        \* identities of the virtual machines a hypervisor may list
    Failing,    \* TRUE: an attempt may fail to be recorded
    Unreliable  \* TRUE: a collection may end and leave no answer

VARIABLES
    exists,  \* connections whose row is in the database
    row,     \* columns of each connection
    seen,    \* last_seen_at of each VM, 0: there is no row
    stage,   \* how far the collection of each connection is
    clock    \* datetime.now(UTC)

vars == <<exists, row, seen, stage, clock>>

NewRow == [error |-> "none", status |-> "active", success |-> 0, attempt |-> 0]

Init ==
    /\ exists = Conns
    /\ row = [c \in Conns |-> NewRow]
    /\ seen = [c \in Conns |-> [v \in Vms |-> 0]]
    /\ stage = [c \in Conns |-> "none"]
    /\ clock = 0

\* The moments a collection may give to what it writes: in the past, and not
\* before anything its connection shows.
Moments(c) == {t \in 0 .. clock : /\ row[c].success <= t
                                  /\ row[c].attempt <= t
                                  /\ \A v \in Vms : seen[c][v] <= t}

-----------------------------------------------------------------------------
(* What is told and what is stored: mark_attempt, mark_success,            *)
(* mark_failure, upsert_virtual_machines                                   *)

Recorded(c, t) == row' = [row EXCEPT ![c] = [@ EXCEPT !.attempt = t,
                                                      !.error = "none"]]

Succeeds(c, t) == row' = [row EXCEPT ![c] = [@ EXCEPT !.success = t,
                                                      !.error = "none",
                                                      !.status = "active"]]

Fails(c, kind) == row' = [row EXCEPT ![c] = [@ EXCEPT !.error = kind,
                                                      !.status = kind]]

\* Some machines of c, all of them as of t.
Stored(c, vms, t) ==
    seen' = [seen EXCEPT ![c] =
               [v \in Vms |-> IF v \in vms THEN t ELSE seen[c][v]]]

-----------------------------------------------------------------------------
Tick ==
    /\ clock' = clock + 1
    /\ UNCHANGED <<exists, row, seen, stage>>

Begin(c) ==
    /\ stage[c] = "none"
    /\ stage' = [stage EXCEPT ![c] = "starting"]
    /\ UNCHANGED <<exists, row, seen, clock>>

\* The request fails before anything is recorded: the connection is gone, or
\* the database fails.
GiveUp(c) ==
    /\ stage[c] = "starting"
    /\ c \in exists => Failing
    /\ stage' = [stage EXCEPT ![c] = "none"]
    /\ UNCHANGED <<exists, row, seen, clock>>

Attempt(c) ==
    /\ stage[c] = "starting"
    /\ c \in exists
    /\ \E t \in Moments(c) : Recorded(c, t)
    /\ stage' = [stage EXCEPT ![c] = "running"]
    /\ UNCHANGED <<exists, seen, clock>>

\* The connection goes while its attempt is being recorded: time passes, nothing
\* is recorded, and the collection finds out later.
Miss(c) ==
    /\ stage[c] = "starting"
    /\ c \notin exists
    /\ stage' = [stage EXCEPT ![c] = "running"]
    /\ clock' = clock + 1
    /\ UNCHANGED <<exists, row, seen>>

\* The collection of c ends, at most once for each attempt.
Ends(c) ==
    /\ stage[c] = "running"
    /\ stage' = [stage EXCEPT ![c] = "none"]
    /\ UNCHANGED <<exists, clock>>

\* A success is later than the one it replaces: whoever polls sees it.
Succeed(c) ==
    /\ Ends(c)
    /\ c \in exists
    /\ \E t \in Moments(c), vms \in SUBSET Vms :
         /\ row[c].success < t
         /\ Succeeds(c, t)
         /\ Stored(c, vms, t)

\* The hypervisor fails, and what it had listed by then is stored.
Fail(c) ==
    /\ Ends(c)
    /\ c \in exists
    /\ \E kind \in {"credential_error", "permission_error", "unreachable"} :
         Fails(c, kind)
    /\ \E t \in Moments(c), vms \in SUBSET Vms : Stored(c, vms, t)

\* Something else fails, and nothing is stored.
Break(c) ==
    /\ Ends(c)
    /\ c \in exists
    /\ Fails(c, "collection_error")
    /\ UNCHANGED seen

\* The connection is gone: there is nothing to tell and nobody to tell it to.
Vanish(c) ==
    /\ Ends(c)
    /\ c \notin exists
    /\ UNCHANGED <<row, seen>>

\* The process ends, or cannot reach the database: the collections of some
\* connections are over, and nothing tells how.
Lose ==
    /\ Unreliable
    /\ \E gone \in SUBSET Conns :
         stage' = [c \in Conns |-> IF c \in gone THEN "none" ELSE stage[c]]
    /\ UNCHANGED <<exists, row, seen, clock>>

\* A connection without machines may be deleted, also during a collection.
Delete(c) ==
    /\ c \in exists
    /\ \A v \in Vms : seen[c][v] = 0
    /\ exists' = exists \ {c}
    /\ UNCHANGED <<row, seen, stage, clock>>

-----------------------------------------------------------------------------
Next ==
    \/ Tick
    \/ Lose
    \/ \E c \in Conns : \/ Begin(c) \/ GiveUp(c) \/ Attempt(c) \/ Miss(c)
                        \/ Succeed(c) \/ Fail(c) \/ Break(c) \/ Vanish(c)
                        \/ Delete(c)

Spec == Init /\ [][Next]_vars
=============================================================================
