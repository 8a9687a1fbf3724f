----------------------------- MODULE ArenaTree -----------------------------
(***************************************************************************)
(* arena_tree.hpp: a binary tree in one flat vector of nodes, children     *)
(* named by index.  A tree is a value; clients hold trees in variables     *)
(* (Register) and build them with empty, leaf and node, which takes its    *)
(* operands by value, so each one is copied or moved from.                 *)
(*                                                                         *)
(* Indices are unsigned machine integers: arithmetic on them is modulo     *)
(* IndexSpace (2^32 in the code) and the largest of them is npos.  The     *)
(* code puts no limit on the number of nodes; MaxNodes bounds the trees    *)
(* clients build here.  Node i of the code is nodes[i + 1].                *)
(***************************************************************************)
EXTENDS Integers, Sequences

CONSTANTS Register,       \* the clients' variables of type ArenaTree<T>
          Value,          \* T
          IndexSpace,     \* number of index values
          MaxNodes,       \* bound on the size of a tree
          NoTree          \* the empty tree as a term

ASSUME IndexAssumption == IndexSpace \in Nat /\ IndexSpace > 1 /\ MaxNodes \in Nat

Index == 0..IndexSpace - 1
npos == IndexSpace - 1
Cast(n) == n % IndexSpace           \* static_cast<index_type>

Node == [value : Value, left : Index, right : Index]
Arena == [nodes : Seq(Node), root : Index]

Size(t) == Len(t.nodes)
IsEmpty(t) == t.root = npos
At(t, i) == t.nodes[i + 1]

VARIABLES tree,       \* Register -> Arena
          moved,      \* history: the registers last moved from
          term        \* history: Register -> the tree as the client built it

vars == <<tree, moved, term>>

-----------------------------------------------------------------------------
EmptyArena == [nodes |-> <<>>, root |-> npos]

LeafArena(v) == [nodes |-> <<[value |-> v, left |-> npos, right |-> npos]>>, root |-> 0]

\* (mutants) The offset added to the sentinel too, with and without wrapping.
RebaseSentinel(child, offset) == Cast(child + offset)
RebaseWide(child, offset) == child + offset

\* An index of an absorbed arena in the numbering of the absorbing one.
Rebase(child, offset) == IF child = npos THEN npos ELSE Cast(child + offset)

RebaseNode(node, offset) ==
  [value |-> node.value,
   left  |-> Rebase(node.left, offset),
   right |-> Rebase(node.right, offset)]

\* tree.absorb(other): the nodes afterwards, and the index returned.
AbsorbedNodes(nodes, other) ==
  IF IsEmpty(other) THEN nodes
  ELSE nodes \o [i \in 1..Size(other) |-> RebaseNode(other.nodes[i], Cast(Len(nodes)))]

\* (a mutant) The absorbed root keeps its old number.
AbsorbedRootUnshifted(nodes, other) ==
  IF IsEmpty(other) THEN npos ELSE other.root

AbsorbedRoot(nodes, other) ==
  IF IsEmpty(other) THEN npos ELSE Cast(other.root + Cast(Len(nodes)))

\* ArenaTree::node: the left nodes, the right nodes, then the new root.
NodeArena(v, left, right) ==
  LET lefts == AbsorbedNodes(<<>>, left)
      both  == AbsorbedNodes(lefts, right)
      top   == [value |-> v,
                left  |-> AbsorbedRoot(<<>>, left),
                right |-> AbsorbedRoot(lefts, right)]
      all   == Append(both, top)
  IN  [nodes |-> all, root |-> Cast(Len(all) - 1)]

\* The defaulted move constructor empties the vector and copies the root.
Husk(t) == [nodes |-> <<>>, root |-> t.root]

NodeTerm(v, l, r) == [value |-> v, left |-> l, right |-> r]

-----------------------------------------------------------------------------
Init == /\ tree = [x \in Register |-> EmptyArena]
        /\ moved = {}
        /\ term = [x \in Register |-> NoTree]

\* Clients assign to a moved-from tree before they use it again.
Readable(x) == x \notin moved

\* Register x receives arena t, standing for term m, once the registers in
\* `from` have been moved from.
Assign(x, t, m, from) ==
  /\ tree' = [y \in Register |-> IF y = x THEN t
                                 ELSE IF y \in from THEN Husk(tree[y]) ELSE tree[y]]
  /\ moved' = (moved \cup from) \ {x}
  /\ term' = [term EXCEPT ![x] = m]

MakeEmpty(x) == Assign(x, EmptyArena, NoTree, {})

MakeLeaf(x, v) == Assign(x, LeafArena(v), NodeTerm(v, NoTree, NoTree), {})

\* x = node(v, y, z), the operands in `from` passed with std::move.  The
\* embedding of unfold_with is the case in which both are.
MakeNode(x, v, y, z, from) ==
  /\ Readable(y) /\ Readable(z)
  /\ y = z => from = {}
  /\ Size(tree[y]) + Size(tree[z]) + 1 <= MaxNodes
  /\ Assign(x, NodeArena(v, tree[y], tree[z]), NodeTerm(v, term[y], term[z]), from)

CopyTree(x, y) ==
  /\ x # y /\ Readable(y)
  /\ Assign(x, tree[y], term[y], {})

MoveTree(x, y) ==
  /\ x # y /\ Readable(y)
  /\ Assign(x, tree[y], term[y], {y})

Next ==
  \E x \in Register :
    \/ MakeEmpty(x)
    \/ \E v \in Value : MakeLeaf(x, v)
    \/ \E v \in Value, y, z \in Register : \E from \in SUBSET {y, z} :
          MakeNode(x, v, y, z, from)
    \/ \E y \in Register : CopyTree(x, y) \/ MoveTree(x, y)

Spec == Init /\ [][Next]_vars

-----------------------------------------------------------------------------
TypeOK == /\ tree \in [Register -> Arena]
          /\ moved \subseteq Register

\* The index of the child of t's node i on the given side.
Side == {"left", "right"}
Child(t, i, side) == At(t, i)[side]

\* The nodes of t form one tree: the root is the last node, a child comes
\* before its parent (so no chain of indices is a cycle), and every node
\* but the root is the child of exactly one node, on one side.
WellFormedArena(t) ==
  /\ t.root = IF t.nodes = <<>> THEN npos ELSE Size(t) - 1
  /\ Size(t) <= npos
  /\ \A i \in 0..Size(t) - 1, s \in Side : Child(t, i, s) = npos \/ Child(t, i, s) < i
  /\ \A j \in 0..Size(t) - 2 :
       /\ \E i \in 0..Size(t) - 1, s \in Side : Child(t, i, s) = j
       /\ \A i1, i2 \in 0..Size(t) - 1, s1, s2 \in Side :
            Child(t, i1, s1) = j /\ Child(t, i2, s2) = j => i1 = i2 /\ s1 = s2

\* However trees are copied, moved, absorbed and rebased, the arenas clients
\* may still read are well formed (arena_tree.hpp:97-104 and 134-144).
WellFormed == \A x \in Register : x \notin moved => WellFormedArena(tree[x])

\* What fold_with reads at cursor i of t, with the algebra that rebuilds
\* the term: an absent layer at npos, else a node over two cursors.
Read(t, i) ==
  LET at[j \in 0..Size(t) - 1 \cup {npos}] ==
        IF j = npos THEN NoTree
        ELSE NodeTerm(At(t, j).value, at[At(t, j).left], at[At(t, j).right])
  IN  at[i]

\* Every readable arena denotes the tree its client built: same shape, same
\* values, left and right not exchanged (arena_tree.hpp:97-104, 233-243).
Represents == \A x \in Register : x \notin moved => Read(tree[x], tree[x].root) = term[x]

\* "True when the tree holds no nodes." (arena_tree.hpp:106), of any tree.
EmptyMeansNoNodes == \A x \in Register : IsEmpty(tree[x]) <=> Size(tree[x]) = 0
=============================================================================
