--------------------------- MODULE InventoryReader ---------------------------
(***************************************************************************)
(* What the port HypervisorInventoryReader promises to the services that   *)
(* use it: a session that is opened once and closed, and a stream of       *)
(* virtual machines that is read within the session, ends once, and leaves *)
(* an outcome that counts exactly what was given.  A refusal of the        *)
(* credentials ends the stream without an outcome, for good.               *)
(***************************************************************************)
EXTENDS Naturals

CONSTANT NoOutcome

VARIABLES
    session,    \* "closed" or "open"
    stream,     \* where the stream of virtual machines is
    count,      \* how many of them the consumer was given
    outcome     \* get_outcomes

vars == <<session, stream, count, outcome>>

Streams == {"none", "running", "ended", "refused", "dropped"}

Init ==
    /\ session = "closed"
    /\ stream = "none"
    /\ count = 0
    /\ outcome = NoOutcome

\* A service makes a reader for one job and forgets the one before.
New ==
    /\ session = "closed"
    /\ session' = "closed"
    /\ stream' = "none"
    /\ count' = 0
    /\ outcome' = NoOutcome

StartSession ==
    /\ session = "closed"
    /\ stream = "none"
    /\ session' = "open"
    /\ UNCHANGED <<stream, count, outcome>>

ListVirtualMachines ==
    /\ session = "open"
    /\ stream = "none"
    /\ stream' = "running"
    /\ UNCHANGED <<session, count, outcome>>

Yield ==
    /\ session = "open"
    /\ stream = "running"
    /\ count' = count + 1
    /\ UNCHANGED <<session, stream, outcome>>

\* Everything was given, or something failed; the outcome tells which.
End ==
    /\ stream = "running"
    /\ stream' = "ended"
    /\ \E failed \in BOOLEAN :
         outcome' = [count |-> count, failed |-> failed]
    /\ UNCHANGED <<session, count>>

Refuse ==
    /\ stream = "running"
    /\ stream' = "refused"
    /\ UNCHANGED <<session, count, outcome>>

\* The consumer stops reading.
Drop ==
    /\ stream = "running"
    /\ stream' = "dropped"
    /\ UNCHANGED <<session, count, outcome>>

CloseSession ==
    /\ session = "open"
    /\ stream # "running"
    /\ session' = "closed"
    /\ UNCHANGED <<stream, count, outcome>>

Next ==
    \/ New \/ StartSession \/ ListVirtualMachines \/ Yield
    \/ End \/ Refuse \/ Drop \/ CloseSession

Spec == Init /\ [][Next]_vars
=============================================================================
