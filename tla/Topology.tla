------------------------------ MODULE Topology ------------------------------
(***************************************************************************)
(* The sealed topology graph (src/topology/graph.rs).  The bitmask of      *)
(* active nodes and the adjacency matrix are sets of zero-based indices    *)
(* and of index pairs.  No operation changes them once sealed, so they are *)
(* constants of the running kernel, built from the manifest's edges the    *)
(* way the boot loop builds them.                                          *)
(***************************************************************************)
EXTENDS Metabolism

CONSTANTS
    MaxNodes,         \* MAX_NODES, one bit per node in a u64
    ManifestEdges     \* the edges of the manifest, as pairs of node ids

ASSUME TopologyConstants ==
    /\ MaxNodes \in Nat
    /\ Nodes \subseteq Nat \ {0}
    /\ ManifestEdges \subseteq Nodes \X Nodes
    /\ \A e \in ManifestEdges : e[1] <= MaxNodes /\ e[2] <= MaxNodes

NodeIdx(id) == id - 1

InRange(id) == NodeIdx(id) < MaxNodes

active_nodes == UNION {{NodeIdx(e[1]), NodeIdx(e[2])} : e \in ManifestEdges}

edge_matrix == {<<NodeIdx(e[1]), NodeIdx(e[2])>> : e \in ManifestEdges}

\* Mutant: the matrix row and column are swapped.
TraverseInnerReversed(src, dst) ==
    IF /\ InRange(src) /\ InRange(dst)
       /\ NodeIdx(src) \in active_nodes
       /\ NodeIdx(dst) \in active_nodes
       /\ <<NodeIdx(dst), NodeIdx(src)>> \in edge_matrix
    THEN "Ok" ELSE "TopologyViolation"

TraverseInner(src, dst) ==
    IF /\ InRange(src) /\ InRange(dst)
       /\ NodeIdx(src) \in active_nodes
       /\ NodeIdx(dst) \in active_nodes
       /\ <<NodeIdx(src), NodeIdx(dst)>> \in edge_matrix
    THEN "Ok" ELSE "TopologyViolation"

\* What OperationalGraph::traverse returns.
TraverseResult(src, dst) ==
    LET verdict == TraverseInner(src, dst)
    IN  IF IsFull /\ verdict = "Ok" THEN "AuditFull" ELSE verdict

\* OperationalGraph::traverse.
Traverse(src, dst) ==
    /\ result' = TraverseResult(src, dst)
    /\ AppendEvent("TopologyTraverse", src, TraverseInner(src, dst),
                   TraverseResult(src, dst), <<dst>>)
=============================================================================
