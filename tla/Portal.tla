-------------------------------- MODULE Portal --------------------------------
(***************************************************************************)
(* The worker processes of the portal and the administration requests they *)
(* serve: a request is taken by a worker that has started, and is lost     *)
(* with its transaction when that process dies.                            *)
(***************************************************************************)
EXTENDS Bootstrap, ConnectionAdmin

ASSUME PortalAssumption ==
    /\ Workers # {} /\ Homes = Workers
    /\ AdminNamed \in BOOLEAN
    /\ Ids # {} /\ NoRow \notin Targets

vars == <<worker, users, rows, vms, log, req>>
bootVars == <<worker, users>>
adminVars == <<rows, vms, log, req>>

TypeOK == BootTypeOK /\ AdminTypeOK

Init == BootInit /\ AdminInit

Boot(w) == BootNext(w) /\ UNCHANGED adminVars

\* Signed in, with the permission CONNECTION_MANAGE: the bootstrap account, or
\* an administrator among those that were there before.
Take(r, w) ==
    /\ worker[w] = "serving" /\ users # {} /\ users # {"registered"}
    /\ BeginCreate(r, w) \/ BeginDelete(r, w)
    /\ UNCHANGED bootVars

Step(r) == Serve(r) /\ UNCHANGED bootVars

FirstVms(i) == Collected(i) /\ UNCHANGED bootVars

\* The process ends; PostgreSQL rolls back what its sessions had open.
Die(w) ==
    /\ StopWorker(w)
    /\ req' = [r \in Reqs |-> IF req[r].home = w THEN Idle ELSE req[r]]
    /\ UNCHANGED <<rows, vms, log>>

Next ==
    \/ \E w \in Workers : Boot(w) \/ Die(w) \/ \E r \in Reqs : Take(r, w)
    \/ \E r \in Reqs : Step(r)
    \/ \E i \in Ids : FirstVms(i)

Spec == Init /\ [][Next]_vars
=============================================================================
