---------------------------- MODULE SharedFringe ----------------------------
(***************************************************************************)
(* fringe_tree.hpp: the class FringeTree, a variant of Empty, Leaf and     *)
(* Branch whose branches hold two shared_ptr, on the memory of SharedHeap. *)
(* Copies, moves and assignments are the defaulted ones, which the         *)
(* standard defines alternative by alternative.                            *)
(*                                                                         *)
(* Views, cons, snoc and from_sequence are programs of these operations.   *)
(***************************************************************************)
EXTENDS SharedHeap

EmptyNode == [kind |-> "empty", left |-> Null, right |-> Null]
LeafNode(v) == [kind |-> "leaf", value |-> v, left |-> Null, right |-> Null]
BranchNode(n, l, r) == [kind |-> "branch", measure |-> n, left |-> l, right |-> r]

Measure(node) ==
  CASE node.kind = "empty"  -> 0
    [] node.kind = "leaf"   -> 1
    [] node.kind = "branch" -> node.measure

\* Moved-from branches have no children; they are assigned to, moved and
\* destroyed, never read.
IsHusk(node) == node.kind = "branch" /\ node.left = Null

Readable == {o \in Objects : ~IsHusk(memory[o])}

\* What clients pass to branch and concat: objects and temporaries.
Operands == {memory[o] : o \in Readable} \cup {LeafNode(v) : v \in Value} \cup {EmptyNode}

-----------------------------------------------------------------------------
\* FringeTree x = branch(l, r), with the variables M moved in: the operands
\* become new nodes, the left one first, whose own children they share, and are
\* counted.  If there is no room for both, branch throws.
Branch(x, l, r, M) ==
  LET m == Vacated(memory, M)
      n == Measure(l) + Measure(r)
  IN  \/ \E p \in TwoFree(m) :
           Construct(Allocated(m, p, l, r), Vacated(made, M), x, BranchNode(n, p[1], p[2]),
                     BranchNode(n, TreeOf(memory, l), TreeOf(memory, r)))
      \/ TwoFree(m) = {} /\ Thrown(Unwound(m, l, r), M)

\* FringeTree x = concat(l, r), which copies both.
Concat(x, l, r) ==
  IF l.kind = "empty" THEN Copy(x, r)
  ELSE IF r.kind = "empty" THEN Copy(x, l)
  ELSE Branch(x, l, r, {})

\* (a mutant) The branch keeps its own measure.
AssignUncounted(d, o) ==
  LET n == Reset(memory, d, "left", memory[o].left)
  IN  /\ memory[d].kind = "branch" /\ memory[o].kind = "branch"
      /\ IF o \in DOMAIN n THEN Assigned(d, o, Reset(n, d, "right", n[o].right)) ELSE ReadsDestroyed

\* d = o, both branches: member by member.
AssignBranch(d, o) ==
  /\ memory[d].kind = "branch" /\ memory[o].kind = "branch"
  /\ AssignMembers(d, o)

\* d = o, two leaves or two empty trees.
AssignValue(d, o) ==
  /\ memory[d].kind # "branch" /\ memory[d].kind = memory[o].kind
  /\ Assigned(d, o, Put(memory, d, memory[o]))

\* d = o, different alternatives: the old one is destroyed, and the new one
\* made from o, if o is still there.  (A leaf whose copy may throw is copied
\* first.)
AssignOther(d, o) ==
  LET m == Dropped(Put(memory, d, EmptyNode), memory[d])
  IN  /\ memory[d].kind # memory[o].kind
      /\ IF o \in DOMAIN m THEN Assigned(d, o, Put(m, d, m[o])) ELSE ReadsDestroyed

Assign(d, o) ==
  /\ MayAssign(d, o)
  /\ AssignBranch(d, o) \/ AssignValue(d, o) \/ AssignOther(d, o)

\* FringeTree x = empty() or leaf(v), or FringeTree x(o): Copy, of an operand.
FringeNext ==
  \/ \E x \in Register :
       \/ \E n \in Operands : Copy(x, n)
       \/ \E l, r \in Operands :
            (\E M \in Sources(l, r) : Branch(x, l, r, M)) \/ Concat(x, l, r)
       \/ \E y \in Register : Move(x, y)
       \/ LeaveScope(x)
  \/ \E d \in InUse(memory), o \in Readable : Assign(d, o)

FringeSpec == SharedInit /\ [][FringeNext]_sharedVars
=============================================================================
