------------------------ MODULE SequenceAlgorithmsMC ------------------------
(***************************************************************************)
(* The sequence algorithms on all small trees, sequence_equal on all pairs *)
(* of them.                                                                *)
(***************************************************************************)
EXTENDS SequenceAlgorithms

CONSTANTS MaxNodes,       \* bound: nodes of a tree that is compared
          MaxWalkNodes    \* bound: nodes of a tree that is read

\* The trees of n nodes, with their sequences.
TreesOf[n \in 1..MaxWalkNodes] ==
  IF n = 1
  THEN {[tree |-> Fringe!Empty, seq |-> <<>>]}
       \cup {[tree |-> Fringe!Leaf(v), seq |-> <<v>>] : v \in Value}
  ELSE UNION {{[tree |-> Fringe!Branch(l.tree, r.tree), seq |-> l.seq \o r.seq] :
                 l \in TreesOf[k], r \in TreesOf[n - 1 - k]} : k \in 1..n - 2}

SmallInputs == UNION {TreesOf[n] : n \in 1..MaxNodes}
SmallWalkInputs == UNION {TreesOf[n] : n \in 1..MaxWalkNodes}
=============================================================================
