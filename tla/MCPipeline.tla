----------------------------- MODULE MCPipeline -----------------------------
(* Small instances of Pipeline for TLC. *)
EXTENDS Pipeline, TLC

CONSTANTS v1, v2, n1, n2, i1, i2, i3

VmsTwo == {v1, v2}
NodesTwo == {n1, n2}
IdsThree == {i1, i2, i3}
NativesOfTwo == VmsTwo \X {"uuid", "moref"}
MayMissUuid == {v1}
ReportsFew == {{}, {"ip"}, {"os", "host", "ip"}}

OnlyCluster == {"hyperv-cluster"}
Others == {"hyperv-host", "scvmm", "vcenter"}

\* Resource identifiers are interchangeable.
Symmetry == Permutations(IdsThree)
=============================================================================
