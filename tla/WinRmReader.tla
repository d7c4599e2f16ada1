----------------------------- MODULE WinRmReader -----------------------------
(***************************************************************************)
(* The readers that speak WinRM: HyperVHostInventoryReader, which lists    *)
(* one host or walks over the nodes of a cluster with a session for each,  *)
(* and ScvmmInventoryReader, which asks one management server.  A step is  *)
(* the code up to the next answer of a remote machine.  The rows are taken *)
(* before the session of the node is closed and yielded after it.          *)
(***************************************************************************)
EXTENDS ReaderState

Becomes(r) == reader' = r /\ UNCHANGED target

\* Whether a generator is at a position, in one of these readers.
AtWinRm(position) == reader.kind \in WinRm /\ reader.at = position

-----------------------------------------------------------------------------
(* The walk over a cluster                                                 *)

\* _resolve_nodes: the session of the cluster names the nodes and their
\* states.  A node that is not up is noted as failed and never visited.
ResolveNodes ==
    /\ AtWinRm("begin") /\ reader.kind = "hyperv-cluster"
    /\ \E down \in SUBSET Nodes :
         Becomes([reader EXCEPT !.at = "walk", !.nodes = Nodes \ down,
                                !.failed = down])

\* No answer, an answer without nodes or one that cannot be read.
ResolveFails ==
    /\ AtWinRm("begin") /\ reader.kind = "hyperv-cluster"
    /\ Becomes(Ended(reader, TRUE, "reason"))

ResolveRefused ==
    /\ AtWinRm("begin") /\ reader.kind = "hyperv-cluster" /\ ~accepts
    /\ Becomes(Refused(reader))

\* A session to the next node, with the credentials of the connection.
OpenNode(n) ==
    /\ AtWinRm("walk") /\ n \in reader.nodes /\ accepts
    /\ Becomes([reader EXCEPT !.at = "script", !.node = n,
                              !.nodes = @ \ {n}])

\* Mutant: a node that refuses the credentials is a node that failed.
NodeRefusedGoesOn(r, n) ==
    [r EXCEPT !.at = "walk", !.node = NoNode, !.nodes = @ \ {n},
              !.failed = @ \cup {n}, !.refusals = @ + 1]

\* The AuthenticationError ends the walk; the finally closes the session.
NodeRefused(r, n) ==
    Refused([r EXCEPT !.node = NoNode, !.nodes = @ \ {n}])

OpenNodeRefused(n) ==
    /\ AtWinRm("walk") /\ n \in reader.nodes /\ ~accepts
    /\ Becomes(NodeRefused(reader, n))

\* Mutant: the failure of a node is forgotten.
NodeFailedSilently(r, n) ==
    [r EXCEPT !.at = "walk", !.node = NoNode, !.nodes = @ \ {n}]

\* Any other PortalError: the node goes to failed_nodes, the walk goes on.
NodeFailed(r, n) ==
    [r EXCEPT !.at = "walk", !.node = NoNode, !.nodes = @ \ {n},
              !.failed = @ \cup {n}]

OpenNodeFails(n) ==
    /\ AtWinRm("walk") /\ n \in reader.nodes
    /\ Becomes(NodeFailed(reader, n))

\* Mutant: the session of the node is left open while its rows are yielded.
NodeListedOpen(r) ==
    [r EXCEPT !.at = "rows", !.rows = On(r.node), !.answered = @ \cup {r.node}]

\* The script of the node has answered, and its session is closed.
NodeListed(r) ==
    [r EXCEPT !.at = "rows", !.rows = On(r.node), !.node = NoNode,
              !.answered = @ \cup {r.node}]

ListNode ==
    /\ AtWinRm("script")
    /\ Becomes(NodeListed(reader))

ListNodeFails ==
    /\ AtWinRm("script")
    /\ Becomes(NodeFailed(reader, reader.node))

ListNodeRefused ==
    /\ AtWinRm("script") /\ ~accepts
    /\ Becomes(NodeRefused(reader, reader.node))

NextNode ==
    /\ AtWinRm("rows") /\ reader.kind = "hyperv-cluster"
    /\ reader.rows = {}
    /\ Becomes([reader EXCEPT !.at = "walk"])

\* The walk is over.  It failed when some node did and nothing was listed;
\* the error names the nodes that failed either way.
EndWalk ==
    /\ AtWinRm("walk")
    /\ reader.nodes = {}
    /\ Becomes(Ended(reader, reader.failed # {} /\ reader.total = 0,
                     IF reader.failed = {} THEN "none" ELSE "nodes"))

-----------------------------------------------------------------------------
(* One host, or one SCVMM server                                           *)

ListHost ==
    /\ AtWinRm("begin") /\ reader.kind = "hyperv-host"
    /\ Becomes([reader EXCEPT !.at = "rows", !.rows = On(Host),
                              !.answered = {Host}])

\* SCVMM knows machines that were never deployed and have no VMId.  They are
\* left out: without an identifier each collection would add them again.
ListScvmm ==
    /\ AtWinRm("begin") /\ reader.kind = "scvmm"
    /\ \E noId \in SUBSET Registered :
         Becomes([reader EXCEPT !.at = "rows", !.rows = Registered \ noId,
                                !.excluded = noId, !.answered = Nodes])

ListFails ==
    /\ AtWinRm("begin") /\ reader.kind # "hyperv-cluster"
    /\ Becomes(Ended(reader, TRUE, "reason"))

ListRefused ==
    /\ AtWinRm("begin") /\ reader.kind # "hyperv-cluster" /\ ~accepts
    /\ Becomes(Refused(reader))

EndList ==
    /\ AtWinRm("rows") /\ reader.kind # "hyperv-cluster"
    /\ reader.rows = {}
    /\ Becomes(Ended(reader, FALSE,
                     IF reader.excluded = {} THEN "none" ELSE "excluded"))

WinRmNext ==
    \/ ResolveNodes \/ ResolveFails \/ ResolveRefused
    \/ \E n \in Nodes : OpenNode(n) \/ OpenNodeRefused(n) \/ OpenNodeFails(n)
    \/ ListNode \/ ListNodeFails \/ ListNodeRefused
    \/ NextNode \/ EndWalk
    \/ ListHost \/ ListScvmm \/ ListFails \/ ListRefused \/ EndList
=============================================================================
