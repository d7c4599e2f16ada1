------------------------------- MODULE VmUpsert -------------------------------
(***************************************************************************)
(* VirtualMachineRepository.upsert_virtual_machines: the rows of virtual   *)
(* machines and of their identity keys, as committed and as the open       *)
(* transaction of the collection sees them, and the step that writes one   *)
(* observed machine.  Of a row this keeps who it is, when it was seen and  *)
(* the guest values, each of them named by the collection that read it.    *)
(***************************************************************************)
EXTENDS Naturals, FiniteSets

CONSTANTS
    Natives,    \* native_id: a VM GUID, an instanceUuid, or a MoRef without it
    Ids,        \* resource_id, made by uuid4 and never reused
    NoRow

VARIABLES
    stored,     \* committed
    tx          \* as the transaction that collects sees it

-----------------------------------------------------------------------------
(* Guest values                                                            *)

\* GuestInfo: os and host are the collection the value was read in, 0 is
\* NULL; at is observed_at.
Guest == [available : BOOLEAN, os : Nat, host : Nat, at : Nat]

NoGuest == [available |-> FALSE, os |-> 0, host |-> 0, at |-> 0]

Reading(report, what, now) == IF what \in report THEN now ELSE 0

GuestOf(os, host, now) ==
    [available |-> TRUE, os |-> os, host |-> host, at |-> now]

\* map_guest_info of vCenter: a guest without a name and a system is unknown,
\* and the configured system stands in for the reported one.
VCenterGuest(report, now) ==
    IF report \cap {"os", "host"} = {} THEN NoGuest
    ELSE GuestOf(now, Reading(report, "host", now), now)

\* map_scvmm_guest: an address alone counts, and a name is never given.
ScvmmGuest(report, now) ==
    IF report \cap {"os", "ip"} = {} THEN NoGuest
    ELSE GuestOf(Reading(report, "os", now), 0, now)

\* map_guest_info of a Hyper-V host: an address alone counts.
HostGuest(report, now) ==
    IF report = {} THEN NoGuest
    ELSE GuestOf(Reading(report, "os", now), Reading(report, "host", now), now)

\* What a guest reports decides whether its values count as collected.
MapGuest(kind, report, now) ==
    CASE kind = "vcenter" -> VCenterGuest(report, now)
      [] kind = "scvmm" -> ScvmmGuest(report, now)
      [] OTHER -> HostGuest(report, now)

\* Mutant: the values are kept and their time is not.
WithFallbackNewTime(guest, previous) ==
    IF guest.available THEN guest
    ELSE [previous EXCEPT !.available = FALSE, !.at = guest.at]

\* with_fallback: a guest whose tools are silent keeps the values it had and
\* the time they were read at.
WithFallback(guest, previous) ==
    IF guest.available THEN guest
    ELSE [previous EXCEPT !.available = FALSE]

-----------------------------------------------------------------------------
(* Rows and identity keys                                                  *)

VmRow == [native : Natives, seen : Nat, guest : Guest]

\* virtual_machines and resource_identities.
Tables == [rows : [Ids -> VmRow \cup {NoRow}],
           idents : SUBSET (Ids \X Natives)]

Empty == [rows |-> [i \in Ids |-> NoRow], idents |-> {}]

\* The resources a key leads to; the first rule is the only one that is used.
FindByIdentity(d, native) == {i \in Ids : <<i, native>> \in d.idents}

\* Mutant: the old keys of the resource stay and the new ones are not added.
SyncNothing(d, i, native) == d.idents

\* _sync_identities: delete the keys of the resource, add the present ones.
SyncIdentities(d, i, native) ==
    {k \in d.idents : k[1] # i} \cup {<<i, native>>}

Merged(row, guest, now) ==
    [row EXCEPT !.seen = now, !.guest = WithFallback(guest, @)]

\* A key that leads to exactly one resource: load it, merge, update.
UpdateVm(vm, now) ==
    \E i \in Ids :
      /\ FindByIdentity(tx, vm.native) = {i}
      /\ tx.rows[i] # NoRow
      /\ tx' = [rows |-> [tx.rows EXCEPT ![i] = Merged(@, vm.guest, now)],
                idents |-> SyncIdentities(tx, i, vm.native)]

\* uq_vm_native: inserting such a row raises.
Taken(d, native) == \E i \in Ids : d.rows[i] # NoRow /\ d.rows[i].native = native

Unused(d) == {i \in Ids : d.rows[i] = NoRow}

\* A key that leads nowhere, or to more than one: a new resource.
InsertVm(vm, now) ==
    /\ Cardinality(FindByIdentity(tx, vm.native)) # 1
    /\ ~Taken(tx, vm.native)
    /\ \E i \in Unused(tx) :
         tx' = [rows |-> [tx.rows EXCEPT ![i] =
                   [native |-> vm.native, seen |-> now, guest |-> vm.guest]],
                idents |-> SyncIdentities(tx, i, vm.native)]

-----------------------------------------------------------------------------

\* Every row is found by its own key and by no other, and a key leads to one
\* row: otherwise the next collection breaks uq_vm_native or writes one
\* machine over another.
IdentityBijection(d) ==
    /\ \A i \in Ids : \A n \in Natives :
         <<i, n>> \in d.idents <=> d.rows[i] # NoRow /\ d.rows[i].native = n
    /\ \A i, j \in Ids : /\ d.rows[i] # NoRow /\ d.rows[j] # NoRow
                         /\ d.rows[i].native = d.rows[j].native
                         => i = j

\* What a guest shows is of one reading: no value is older or newer than the
\* time it is given with.
OneReading(guest) ==
    /\ guest.os \in {0, guest.at} /\ guest.host \in {0, guest.at}
    /\ guest.available => guest.at # 0
=============================================================================
