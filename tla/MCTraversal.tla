---------------------------- MODULE MCTraversal ----------------------------
(***************************************************************************)
(* Small instances of Traversal: graphs on three or four entities, with    *)
(* relationships from an entity to itself.                                 *)
(***************************************************************************)
EXTENDS Traversal, TLC

AllGraphs == SUBSET Edge

SparseGraphs == {graph \in AllGraphs : Cardinality(graph) <= 4}

EntitySymmetry == Permutations(Entity)
=============================================================================
