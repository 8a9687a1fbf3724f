----------------------------- MODULE SharedHeap -----------------------------
(***************************************************************************)
(* Trees whose nodes share their subtrees by shared_ptr: what BinaryTree   *)
(* (binary_tree.hpp) and FringeTree (fringe_tree.hpp) have in common.  The *)
(* memory maps objects to nodes.  An object is a client's variable, which  *)
(* is a node itself, or a node below one, which many trees may share.  A   *)
(* node is a record with fields left and right, Null for no child.         *)
(*                                                                         *)
(* The count of a shared_ptr is the number of objects that hold it, so a   *)
(* node is destroyed when the last of them lets go.  Reading a destroyed   *)
(* node sets `lost`, after which nothing is known.  AliasedAssign says     *)
(* whether clients assign to a tree a part of it that nobody else holds.   *)
(***************************************************************************)
EXTENDS Ownership

CONSTANT Block       \* the memory: the nodes that make_shared can return

ASSUME BlockAssumption == IsFiniteSet(Block) /\ Block \cap (Register \cup {Null}) = {}

VARIABLES memory,    \* the objects there are: a function from them to nodes
          lost,      \* a destroyed node has been read
          made       \* history: the trees the clients made their variables

sharedVars == <<memory, lost, made>>

SharedInit == memory = << >> /\ lost = FALSE /\ made = << >>

-----------------------------------------------------------------------------
(* On any memory m.                                                         *)

InUse(m) == DOMAIN m \cap Register

Children(m, o) == {m[o].left, m[o].right} \ {Null}

Holders(m, a) == {o \in DOMAIN m : a \in Children(m, o)}

Reachable(m, o) ==
  LET within[n \in 0..Cardinality(Block)] ==
        IF n = 0 THEN {o}
        ELSE LET nearer == within[n - 1]
             IN  nearer \cup UNION {Children(m, p) : p \in nearer}
  IN  within[Cardinality(Block)]

\* The tree that a node is: itself, with trees for its children.  The depth
\* bound is never reached without a cycle.
TreeOf(m, node) ==
  LET below[n \in 0..Cardinality(Block)] ==
        [p \in Block \cup {Null} |->
           IF n = 0 \/ p \notin DOMAIN m THEN Null
           ELSE [m[p] EXCEPT !.left = below[n - 1][@], !.right = below[n - 1][@]]]
      tree == below[Cardinality(Block)]
  IN  [node EXCEPT !.left = tree[@], !.right = tree[@]]

Put(m, o, node) == [p \in DOMAIN m \cup {o} |-> IF p = o THEN node ELSE m[p]]

\* What is left of a node that has been moved from: it keeps its values and
\* loses its children.
Husk(node) == [node EXCEPT !.left = Null, !.right = Null]

\* The memory, or the history, f once the variables M have been moved from.
Vacated(f, M) == [o \in DOMAIN f |-> IF o \in M THEN Husk(f[o]) ELSE f[o]]

\* An object has let go of q: nodes nobody holds any more are destroyed, and
\* let go of their children in turn.
Released(m, q) ==
  LET dead[n \in 0..Cardinality(Block)] ==
        IF n = 0 THEN {a \in {q} \cap DOMAIN m : Holders(m, a) = {}}
        ELSE LET d == dead[n - 1]
             IN  d \cup {a \in UNION {Children(m, o) : o \in d} : Holders(m, a) \subseteq d}
  IN  Restrict(m, DOMAIN m \ dead[Cardinality(Block)])

\* The members left and right of a node that is no more let go of what they held.
Dropped(m, node) == Released(Released(m, node.left), node.right)

\* One shared_ptr member of object d receives pointer q.
Reset(m, d, s, q) == Released(Put(m, d, [m[d] EXCEPT ![s] = q]), m[d][s])

\* Two calls of make_shared: the nodes they take, if there are two.
TwoFree(m) ==
  {p \in Block \X Block :
     LET free == Block \ DOMAIN m
     IN  /\ free # {} /\ p[1] = CHOOSE a \in free : TRUE
         /\ free \ {p[1]} # {} /\ p[2] = CHOOSE b \in free \ {p[1]} : TRUE}

Allocated(m, p, first, second) == Put(Put(m, p[1], first), p[2], second)

\* (a mutant) The node of the first call stays.
UnwoundLeaking(m, first, second) ==
  IF Block \subseteq DOMAIN m THEN Dropped(Dropped(m, first), second)
  ELSE Dropped(Put(m, CHOOSE a \in Block \ DOMAIN m : TRUE, first), second)

\* One of the two calls throws.  The parameters `first` and `second` are
\* destroyed, and so is the node of the first call, if it is the second that
\* throws, with what it has taken over from its parameter.
Unwound(m, first, second) ==
  IF Block \subseteq DOMAIN m THEN Dropped(Dropped(m, first), second)
  ELSE LET a == CHOOSE a \in Block \ DOMAIN m : TRUE
       IN  Dropped(Released(Put(m, a, first), a), second)

-----------------------------------------------------------------------------
\* The objects a client can name: its variables and what left() and right()
\* lead to.
Objects == UNION {Reachable(memory, x) : x \in InUse(memory)}

\* o is a part of d's tree and of no other variable's.
OnlyPartOf(d, o) ==
  o \in Reachable(memory, d) /\ \A x \in InUse(memory) \ {d} : o \notin Reachable(memory, x)

MayAssign(d, o) == d # o /\ (AliasedAssign \/ ~OnlyPartOf(d, o))

Becomes(m) == ~lost /\ memory' = m /\ UNCHANGED lost

ReadsDestroyed == ~lost /\ lost' = TRUE /\ UNCHANGED <<memory, made>>

\* A new variable holds the given node; t are the trees of the others.
Construct(m, t, x, node, tree) ==
  x \notin DOMAIN m /\ Becomes(Put(m, x, node)) /\ made' = Put(t, x, tree)

\* A constructor or a copy constructor that allocates nothing.
Copy(x, node) == Construct(memory, made, x, node, TreeOf(memory, node))

\* The sets of variables that a client can move into parameters l and r, passed
\* by value; the rest is copied.
Sources(l, r) ==
  {M \in SUBSET InUse(memory) :
     \E f \in Injection(M, Side) : \A y \in M : memory[y] = IF f[y] = "left" THEN l ELSE r}

\* A constructor throws; variables M were moved from, and their trees are lost.
Thrown(m, M) == Becomes(m) /\ made' = Vacated(made, M)

\* d = o has the memory become m.
Assigned(d, o, m) == Becomes(m) /\ made' = Put(made, d, TreeOf(memory, memory[o]))

\* The defaulted d = o: the values, then left, then right.  Letting go of the
\* old left child may destroy o.
AssignMembers(d, o) ==
  LET m == Put(memory, d, [memory[o] EXCEPT !.left = memory[d].left, !.right = memory[d].right])
      n == Reset(m, d, "left", memory[o].left)
  IN  IF o \in DOMAIN n THEN Assigned(d, o, Reset(n, d, "right", n[o].right)) ELSE ReadsDestroyed

\* x(std::move(y)), or x = std::move(y) for an x in use, which lets go of its
\* children.
Move(x, y) ==
  LET m == Put(Put(memory, y, Husk(memory[y])), x, memory[y])
  IN  /\ x # y /\ y \in InUse(memory)
      /\ Becomes(IF x \in InUse(memory) THEN Dropped(m, memory[x]) ELSE m)
      /\ made' = Put(Put(made, y, Husk(made[y])), x, made[y])

\* x goes out of scope; a later variable may take its name.
LeaveScope(x) ==
  /\ x \in InUse(memory)
  /\ Becomes(Dropped(Restrict(memory, DOMAIN memory \ {x}), memory[x]))
  /\ made' = Restrict(made, DOMAIN made \ {x})

-----------------------------------------------------------------------------
\* Every pointer is to a live node, and every live node is part of some
\* client's tree: nothing is destroyed too early, nothing leaks
\* (binary_tree.hpp:69-71, fringe_tree.hpp:70-74).
Reclaimed ==
  /\ \A o \in DOMAIN memory : Children(memory, o) \subseteq DOMAIN memory
  /\ DOMAIN memory \subseteq Objects

\* "Sharing is structural: subtrees are held by shared_ptr, so copies are
\* cheap" (binary_tree.hpp:63-64, fringe_tree.hpp:60-61), and cannot be seen:
\* each variable is the tree its client made it, cached measures included,
\* whatever is done to trees that share nodes with it.
Persistent == ~lost /\ made = [x \in InUse(memory) |-> TreeOf(memory, memory[x])]
=============================================================================
