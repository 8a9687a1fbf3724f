---------------------------- MODULE FringeTreeMC ----------------------------
(***************************************************************************)
(* FringeTree on all trees of a few nodes, empty subtrees included.        *)
(***************************************************************************)
EXTENDS FringeTree

CONSTANT MaxNodes        \* bound: nodes of a tree

RECURSIVE NodeCount(_)
NodeCount(t) == IF IsBranch(t) THEN 1 + NodeCount(t.left) + NodeCount(t.right) ELSE 1

SmallTree(t) == NodeCount(t) <= MaxNodes
=============================================================================
