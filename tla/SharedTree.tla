----------------------------- MODULE SharedTree -----------------------------
(***************************************************************************)
(* binary_tree.hpp: the class BinaryTree, a value and two shared_ptr       *)
(* children, on the memory of SharedHeap.  Copies, moves and assignments   *)
(* are the defaulted ones, member by member.                               *)
(***************************************************************************)
EXTENDS SharedHeap

Node(v, l, r) == [value |-> v, left |-> l, right |-> r]

\* BinaryTree x = BinaryTree::leaf(v)
MakeLeaf(x, v) == Copy(x, Node(v, Null, Null))

\* BinaryTree x = BinaryTree::node(v, l, r), with the variables M moved in: the
\* operands become new nodes, made in either order, whose own children they
\* share.  If there is no room for both, node throws.
MakeNode(x, v, l, r, M) ==
  LET m == Vacated(memory, M)
  IN  \/ \E p \in TwoFree(m) :
           Construct(Allocated(m, p, l, r), Vacated(made, M), x, Node(v, p[1], p[2]),
                     Node(v, TreeOf(memory, l), TreeOf(memory, r)))
      \/ /\ TwoFree(m) = {}
         /\ Thrown(Unwound(m, l, r), M) \/ Thrown(Unwound(m, r, l), M)

\* BinaryTree x = BinaryTree::from_children_ptrs(v, p, q), with pointers that
\* left_ptr() and right_ptr() gave, or null.
FromChildren(x, v, p, q) ==
  LET sub(r) == IF r = Null THEN Null ELSE TreeOf(memory, memory[r])
  IN  Construct(memory, made, x, Node(v, p, q), Node(v, sub(p), sub(q)))

BinaryNext ==
  \/ \E x \in Register, v \in Value :
       \/ MakeLeaf(x, v)
       \/ \E l, r \in {memory[o] : o \in Objects} : \E M \in Sources(l, r) : MakeNode(x, v, l, r, M)
       \/ \E p, q \in (Objects \cap Block) \cup {Null} : FromChildren(x, v, p, q)
  \/ \E x \in Register, o \in Objects : Copy(x, memory[o])
  \/ \E d \in InUse(memory), o \in Objects : MayAssign(d, o) /\ AssignMembers(d, o)
  \/ \E x, y \in Register : Move(x, y)
  \/ \E x \in Register : LeaveScope(x)

BinarySpec == SharedInit /\ [][BinaryNext]_sharedVars
=============================================================================
