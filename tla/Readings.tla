------------------------------ MODULE Readings ------------------------------
(***************************************************************************)
(* Reference definitions for the runs of the verbs: small trees, and the   *)
(* elements of a tree ordered by the positions they are at.  Nothing here  *)
(* folds a tree.                                                           *)
(*                                                                         *)
(* A tree is a record [value, left, right], NoTree for a missing child, or *)
(* a term: an alternative, an element or Absent, and a sequence of         *)
(* children.                                                               *)
(***************************************************************************)
EXTENDS Naturals, SequencesExt

CONSTANTS Absent, NoTree,
          MaxDepth          \* no position is deeper

Node(v, l, r) == [value |-> v, left |-> l, right |-> r]
Term(alt, element, children) == [alt |-> alt, element |-> element, children |-> children]

\* The binary trees of n nodes.
BinaryTrees(values, n) ==
  LET trees[k \in 0..n] ==
        IF k = 0 THEN {NoTree}
        ELSE UNION {{Node(v, l, r) : v \in values, l \in trees[j], r \in trees[k - 1 - j]} : j \in 0..k - 1}
  IN  trees[n]

\* The terms of at most h layers with the given leaves and the given
\* alternatives over two children.
BinaryTerms(leaves, alts, h) ==
  LET terms[k \in 1..h] ==
        IF k = 1 THEN leaves
        ELSE leaves \cup {Term(alt, Absent, <<l, r>>) : alt \in alts, l, r \in terms[k - 1]}
  IN  terms[h]

\* The terms of at most h layers in which nodes have up to w children.
WideTerms(values, w, h) ==
  LET terms[k \in 0..h] ==
        IF k = 0 THEN {}
        ELSE {Term("node", v, c) : v \in values, c \in UNION {[1..n -> terms[k - 1]] : n \in 0..w}}
  IN  terms[h]

-----------------------------------------------------------------------------
Child(t, i) ==
  IF "children" \in DOMAIN t THEN IF i \in DOMAIN t.children THEN t.children[i] ELSE NoTree
  ELSE IF i = 1 THEN t.left ELSE t.right

Subtree(t, path) == FoldLeft(LAMBDA u, i : IF u = NoTree THEN NoTree ELSE Child(u, i), t, path)

ElementAt(t, p) ==
  LET u == Subtree(t, p) IN IF "children" \in DOMAIN u THEN u.element ELSE u.value

Positions(t) ==
  {p \in UNION {[1..n -> {1, 2}] : n \in 0..MaxDepth} : Subtree(t, p) # NoTree}

\* Position p before q when a node ranks at `self` among its children, which
\* rank at 2 and 4.
Before(self, p, q) ==
  LET key(path) == [i \in 1..Len(path) |-> 2 * path[i]] \o <<self>>
  IN  \E k \in 1..Len(key(p)) : /\ k <= Len(key(q)) /\ key(p)[k] < key(q)[k]
                                /\ \A j \in 1..k - 1 : key(p)[j] = key(q)[j]

PreOrder == 1
InOrder == 3
PostOrder == 5

Ordered(t, self) ==
  LET earlier(p) == Cardinality({q \in Positions(t) : Before(self, q, p)})
  IN  [k \in 1..Cardinality(Positions(t)) |-> CHOOSE p \in Positions(t) : earlier(p) = k - 1]

Reading(t, self) ==
  LET elements == [p \in Positions(t) |-> ElementAt(t, p)]
      order    == Ordered(t, self)
  IN  SelectSeq([i \in DOMAIN order |-> elements[order[i]]], LAMBDA x : x # Absent)
=============================================================================
