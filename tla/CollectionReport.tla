--------------------------- MODULE CollectionReport ---------------------------
(***************************************************************************)
(* What GET /connections tells somebody who polls it to learn that a       *)
(* collection has ended, by last_success_at and last_error: an attempt     *)
(* clears the error, and the end that follows it sets one or moves the     *)
(* success on.  Collection and Browser both implement it, so that what the *)
(* page is told by the server of its model is what collections tell.       *)
(***************************************************************************)
EXTENDS Naturals

CONSTANTS
    Ids,        \* connection_id
    Failing,    \* TRUE: an attempt may fail to be recorded
    Unreliable  \* TRUE: a collection may end and tell nothing

VARIABLE
    report  \* of each connection: its row, its collection and its machines

\* there : {"unborn", "there", "gone"}, success : a time,
\* error : {"none", "told"}, job : {"none", "starting", "running"},
\* machines : those stored
Init ==
    \A c \in Ids : /\ report[c].there \in {"unborn", "there"}
                   /\ report[c].success \in Nat
                   /\ report[c].error \in {"none", "told"}
                   /\ report[c].job = "none"

-----------------------------------------------------------------------------
(* What may become of the entry `e'                                        *)

Begins(e, f) ==
    /\ e.job = "none" /\ e.there # "unborn"
    /\ f = [e EXCEPT !.job = "starting"]

\* The registration is taken back: the row is gone, or the database failed.
GivesUp(e, f) ==
    /\ e.job = "starting"
    /\ e.there = "there" => Failing
    /\ f = [e EXCEPT !.job = "none"]

Attempts(e, f) ==
    /\ e.job = "starting" /\ e.there = "there"
    /\ f = [e EXCEPT !.job = "running", !.error = "none"]

\* The row goes while the attempt is being recorded: there is nothing to clear.
Misses(e, f) ==
    /\ e.job = "starting" /\ e.there # "there"
    /\ f = [e EXCEPT !.job = "running"]

\* An end comes with what it stored, and nothing that was stored goes away.
Ends(e, f) ==
    /\ e.job = "running" /\ e.there = "there"
    /\ e.machines \subseteq f.machines

Succeeds(e, f) ==
    /\ Ends(e, f)
    /\ e.success < f.success
    /\ f = [e EXCEPT !.job = "none", !.error = "none", !.success = f.success,
                     !.machines = f.machines]

Fails(e, f) ==
    /\ Ends(e, f)
    /\ f = [e EXCEPT !.job = "none", !.error = "told", !.machines = f.machines]

Vanishes(e, f) ==
    /\ e.job = "running" /\ e.there # "there"
    /\ f = [e EXCEPT !.job = "none"]

Created(e, f) ==
    /\ e.there = "unborn"
    /\ f = [e EXCEPT !.there = "there"]

Deleted(e, f) ==
    /\ e.there = "there" /\ e.machines = {}
    /\ f = [e EXCEPT !.there = "gone"]

Moves(e, f) ==
    \/ Begins(e, f) \/ GivesUp(e, f) \/ Attempts(e, f) \/ Misses(e, f)
    \/ Succeeds(e, f) \/ Fails(e, f) \/ Vanishes(e, f)
    \/ Created(e, f) \/ Deleted(e, f)

-----------------------------------------------------------------------------
\* The collections of some connections are lost, and their rows stay.
Lose ==
    /\ Unreliable
    /\ \E gone \in SUBSET Ids :
         report' = [c \in Ids |-> IF c \in gone
                                  THEN [report[c] EXCEPT !.job = "none"]
                                  ELSE report[c]]

\* One connection moves, the others stay as they are.
Move(c) ==
    /\ Moves(report[c], report'[c])
    /\ report' = [report EXCEPT ![c] = report'[c]]

Next == Lose \/ \E c \in Ids : Move(c)

Spec == Init /\ [][Next]_report
=============================================================================
