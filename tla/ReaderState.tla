----------------------------- MODULE ReaderState -----------------------------
(***************************************************************************)
(* What the inventory readers share: the hypervisor they look at, which    *)
(* changes while they look, and the reader object with its session and the *)
(* generator that list_virtual_machines returned.                          *)
(*                                                                         *)
(* A virtual machine is on one node, moves to another one, is created and  *)
(* removed whenever it likes.  The directory may stop accepting the stored *)
(* password and accept it again; a session that is open then may live on   *)
(* or be refused at its next call.                                         *)
(***************************************************************************)
EXTENDS Naturals, FiniteSets

CONSTANTS
    Vms,        \* virtual machines of the target
    Nodes,      \* Hyper-V hosts; a vCenter or SCVMM server has them too
    Gone,       \* where a machine is that does not exist
    MaxMoves    \* bound: moves of virtual machines

VARIABLES
    home,       \* the node each virtual machine is on
    accepts,    \* the target accepts the stored credentials
    moves,      \* moves so far
    reader      \* the reader of the job that runs, or of the last one

target == <<home, accepts, moves>>

-----------------------------------------------------------------------------
(* The reader object                                                       *)

ConnectionKind == {"vcenter", "hyperv-host", "hyperv-cluster", "scvmm"}
WinRm == ConnectionKind \ {"vcenter"}

NoNode == Gone
NoOutcome == [count |-> 0, failed |-> FALSE, error |-> "no outcome"]

\* CollectionOutcome; of the text, what it is about.
Outcome == [count : Nat, failed : BOOLEAN,
            error : {"no outcome", "none", "reason", "nodes", "excluded"}]

\* The awaits of list_virtual_machines and how it can be left.
Positions == {"none", "begin", "walk", "script", "rows", "page", "release",
              "ended", "refused", "dropped"}

Reader == [kind : ConnectionKind,
           open : BOOLEAN,              \* the session: a runspace pool, a login
           at : Positions,
           nodes : SUBSET Nodes,        \* nodes the walk has still to visit
           node : Nodes \cup {NoNode},  \* the node with a session of its own
           failed : SUBSET Nodes,       \* failed_nodes
           rest : SUBSET Vms,           \* on pages that were not fetched yet
           rows : SUBSET Vms,           \* fetched and not yet yielded
           total : Nat,
           view : BOOLEAN,              \* a ContainerView exists for us
           verdict : {"ok", "failed", "refused"},
           outcome : Outcome,
           \* history: what was given, what could not be, who answered
           given : [Vms -> Nat],
           yielded : Nat,
           excluded : SUBSET Vms,
           answered : SUBSET Nodes,
           moved : SUBSET Vms,
           refusals : Nat]

NewReader(kind) ==
    [kind |-> kind, open |-> FALSE, at |-> "none", nodes |-> {},
     node |-> NoNode, failed |-> {}, rest |-> {}, rows |-> {}, total |-> 0,
     view |-> FALSE, verdict |-> "ok", outcome |-> NoOutcome,
     given |-> [v \in Vms |-> 0], yielded |-> 0, excluded |-> {},
     answered |-> {}, moved |-> {}, refusals |-> 0]

\* A hyperv-host connection is an address: that of one host.
Host == CHOOSE n \in Nodes : TRUE

On(n) == {v \in Vms : home[v] = n}
Registered == {v \in Vms : home[v] # Gone}

\* _record, and the generator returns.
Ended(r, failed, error) ==
    [r EXCEPT !.at = "ended",
              !.outcome = [count |-> r.total, failed |-> failed,
                           error |-> error]]

\* An AuthenticationError leaves the generator.
Refused(r) == [r EXCEPT !.at = "refused", !.refusals = @ + 1]

-----------------------------------------------------------------------------
(* Sessions                                                                *)

\* The pool opens, or the login succeeds.
StartSession ==
    /\ ~reader.open /\ accepts
    /\ reader' = [reader EXCEPT !.open = TRUE]
    /\ UNCHANGED target

\* The credentials are refused; nothing stays open.
StartRefused ==
    /\ ~reader.open /\ ~accepts
    /\ reader' = [reader EXCEPT !.refusals = @ + 1]
    /\ UNCHANGED target

\* close_session of an open or a closed session, never an error.
CloseSession ==
    /\ reader' = [reader EXCEPT !.open = FALSE]
    /\ UNCHANGED target

-----------------------------------------------------------------------------
(* The generator and the consumer that reads from it                       *)

\* The consumer calls list_virtual_machines and asks for the first item.
Begin ==
    /\ reader.open /\ reader.at = "none"
    /\ reader' = [reader EXCEPT !.at = "begin", !.moved = {}]
    /\ UNCHANGED target

\* Mutant: the machine is counted when its row is fetched, not when given.
CountedAhead(r, v) ==
    [r EXCEPT !.rows = @ \ {v}, !.total = @ + Cardinality(r.rows),
              !.given[v] = @ + 1, !.yielded = @ + 1]

Counted(r, v) ==
    [r EXCEPT !.rows = @ \ {v}, !.total = @ + 1,
              !.given[v] = @ + 1, !.yielded = @ + 1]

\* One virtual machine is yielded.
Yield(v) ==
    /\ reader.at = "rows"
    /\ v \in reader.rows
    /\ reader' = Counted(reader, v)
    /\ UNCHANGED target

\* The consumer leaves its loop: the generator stays suspended at a yield.
Dropped(r) == [r EXCEPT !.at = "dropped"]

-----------------------------------------------------------------------------
(* The target                                                              *)

Move(v, n) ==
    /\ moves < MaxMoves
    /\ n # home[v]
    /\ home' = [home EXCEPT ![v] = n]
    /\ moves' = moves + 1
    /\ reader' = [reader EXCEPT !.moved = @ \cup {v}]
    /\ UNCHANGED accepts

\* The password is changed in the directory, or set back.
Rotate ==
    /\ accepts' = ~accepts
    /\ UNCHANGED <<home, moves, reader>>
=============================================================================
