-------------------------- MODULE ConnectionRegistry --------------------------
(***************************************************************************)
(* What the administration of connections promises: a target (address and  *)
(* user name) is registered once, a connection whose machines are known is *)
(* not deleted, and each of the two happens together with its audit event  *)
(* or not at all.                                                          *)
(***************************************************************************)
CONSTANTS Ids, Targets, NoRow

VARIABLES
    rows,       \* the target of each connection, NoRow: not registered
    vms,        \* connections of which virtual machines are known
    log         \* audit events of connections

vars == <<rows, vms, log>>

Init ==
    /\ rows = [i \in Ids |-> NoRow]
    /\ vms = {}
    /\ log = {}

Create(i, t) ==
    /\ rows[i] = NoRow
    /\ <<"create", i>> \notin log
    /\ \A j \in Ids : rows[j] # t
    /\ rows' = [rows EXCEPT ![i] = t]
    /\ log' = log \cup {<<"create", i>>}
    /\ UNCHANGED vms

Delete(i) ==
    /\ rows[i] # NoRow
    /\ i \notin vms
    /\ rows' = [rows EXCEPT ![i] = NoRow]
    /\ log' = log \cup {<<"delete", i>>}
    /\ UNCHANGED vms

Collect(i) ==
    /\ rows[i] # NoRow
    /\ vms' = vms \cup {i}
    /\ UNCHANGED <<rows, log>>

Next ==
    \E i \in Ids : Delete(i) \/ Collect(i) \/ \E t \in Targets : Create(i, t)

Spec == Init /\ [][Next]_vars
=============================================================================
