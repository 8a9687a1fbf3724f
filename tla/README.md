# tree_algorithms in TLA+

A verification development for `beman::tree_algorithms`: TLA+ models of the
library and of its examples, TLC runs on small instances, and theorems checked
by TLAPS. Paths are relative to the repository; headers without a directory are
in `include/beman/tree_algorithms/`. `PROJECT.json` lists the runs, the mutated
definitions each property was seen to reject, the source lines of every
definition, the hazards, the findings and the theorems.

Run a model with `tlc -config X.cfg M.tla` and check a proof with `tlapm M.tla`.

## 1. Inventory

The library has one idea, in two halves. *Verbs* (`fold_fix`, `unfold_fix`,
`refold`, `fold_with`, `unfold_with`) recurse; *representations* tell them how
to expose one layer of a tree (a projection), how to map over its children (a
functor instance), how to build one layer (an embedding), and how to combine
one layer's elements (a layer fold). Everything is synchronous, single-threaded
code without I/O, so there are no messages and no schedulers. What is hard:

* the recursion goes through callbacks: a verb calls `fmap`, which calls back
  into the verb, so the order of the calls and the matching of results to
  slots depend on both;
* ownership is written by hand or defaulted: a raw owning pointer (`Box`),
  `shared_ptr` spines that trees share, a vector of nodes with indices. Copies,
  moves, assignments between parts of one tree and throwing copies are where
  these can go wrong;
* cached and derived data (measures, indices rebased by an offset, a sentinel
  at the end of the index range) must agree with the tree they describe;
* contracts are stated by order (in order, pre-order, left to right) or by
  quotient (same sequence, any shape), which tests with commutative operations
  or with one shape cannot see.

| component | state | operations | interacts with | what makes it correct |
|---|---|---|---|---|
| verbs (`recursion_schemes.hpp`, `..._lookup.hpp`, `functor.hpp`) | the call stack | the five verbs | every representation, through `fmap`, projection, algebra | one answer, the solution of the defining equation; each result returns to the slot that asked; left to right; ends |
| `Box`, child slots, `Fix` (`box.hpp`, `child_slot.hpp`, `fix.hpp`) | heap nodes with one owner | construct, copy, move, assign, destroy, dereference | every Fix tree | no leak, no double delete, value semantics |
| binary tree (`binary_tree.hpp`) | heap nodes with counted owners | leaf, node, from_children_ptrs, defaulted copies, to_fix, from_fix | verbs, `Fix` | sharing is invisible; nothing is freed in use or leaked |
| arena tree (`arena_tree.hpp`) | vector of nodes, root index | empty, leaf, node (absorb, rebase), copies and moves | verbs, through cursors | one well-formed tree that denotes what the client built |
| fringe tree (`fringe_tree.hpp`) | shared nodes with cached measure | empty, leaf, branch, concat, cons, snoc, view_l, view_r, measure, flatten | verbs, sequence algorithms | a sequence, seen from both ends; measures exact |
| rose tree, expressions, naturals (`rose_tree.hpp`, `expression.hpp`, `functors.hpp`) | values | functor, layer fold, evaluation, conversions | verbs | contractual order; right values |
| `fold_map` (`fold_map.hpp`, `fold_map_lookup.hpp`) | none | layer fold as algebra | verbs, layer folds | each representation's order |
| `Cofree` (`cofree.hpp`) | annotated tree | annotate, fold_cofree | verbs | every node carries the fold of its own subtree |
| search tree example (`examples/search_tree_on_fix.cpp`) | a Fix tree of ints | insert, erase, contains, balanced, flatten, height | Box, verbs | a set of keys; a search tree |
| sequence algorithms example | fringe trees | sequence_equal, the view walk, from_range, fold_left, to_vector, reversed | views, fold_map | decides equality of sequences; a walk and a fold read the same sequence |
| expression algorithms example | values | length, for_each, validate, transform_if_large | verbs | all or nothing |
| annotations example (`examples/cofree_annotations.cpp`) | values | hash algebra, table, counts | Cofree | counts each common subexpression |
| fixpoint example (`examples/fixpoint_tree_example.cpp`) | heap nodes with one owner | the copy-and-swap `Box` | none: no header is included | as `Box`, for more clients |
| layout, adapter and `unique_ptr` examples | values | depth, flatten, shape, the range build | verbs | layouts agree; the shape is pinned |
| `examples/todo.cpp`, benchmarks, CMake, CI | none of their own | fixed inputs | the library | not modelled |

The hazards of this code, each at its line, are the `hazards` of `PROJECT.json`;
the properties below were chosen for them.

## 2. Modules, and how they correspond to the code

**Verb, Refold, RefoldMC, RefoldProof: the recursion verbs.** All verbs have
one body: get a layer, map over the slots with a recursive call, combine.
`Refold` is that body as a call-stack machine. `stack` is the stack of
activation records; a frame has its seed, its layer and the slots evaluated so
far (the partial result of `fmap`). `Invoke` is a client's call, `Descend` the
callback on an engaged slot, `PassAbsent` a disengaged slot
(`binary_tree.hpp:186-187`), `Return` the algebra and the return into the
caller's `fmap`. `Coalgebra` and `Algebra` are constants, so `fold_fix` is the
case `unwrap_fix`, `unfold_fix` the case `wrap_fix`, `fold_with` and
`unfold_with` the cases of a projection and an embedding. `Meaning` is any
solution of the defining equation `result(s) = algebra(fmap(result,
coalgebra(s)))`, and `Agenda` of the equations of the order in which a recursion
that goes left to right calls its callables. `Verb` is the abstract promise: one
call, one answer, `Meaning[root]`. `RefoldMC` instantiates the machine with every
tree up to a height, absent slots included, and an algebra that tells every
position apart.

**VerbClient, Representations, Readings, ExampleAlgorithms, CommonSubexpressions,
ProgramsMC: representations and example algebras under the verbs.** `VerbClient` is a
program that calls verbs one after the other, each on an argument or on an
earlier result, and *runs each call on the Refold machine*; a layer or a result
names the verb it belongs to.
`Representations` holds one operator per projection, coalgebra, embedding,
layer fold and rebuilding algebra of the library: `BinaryProject`,
`ArenaProject`, `ArenaEmbed`, `Annotate` and so on; the arena and fringe
embeddings use the operators of `ArenaTree` and `FringeTree` themselves.
`Readings` has reference definitions that do not fold: the elements of a tree
sorted by the positions they are at. The operands of `fold_map` are the free
monoid (an element to the sequence of itself, concatenation, the empty
sequence), of which every other monoid is an image.
`ExampleAlgorithms` has the other examples' algebras: the midpoint splits,
heights and depths, renderings (sequences of marks and values), the programs
that `fold_left` composes and then calls, and the effectful traversal with its
callers. `ProgramsMC` says which verbs there are (`TakeFrom`,
`MakeOf`) and which programs call them: `FirstCalls` on small inputs, and
`Script` for what a program does with the results; `TooSmall` and `Transformed` are
the early return and the result of `transform_if_large`. `CommonSubexpressions` is the
annotations example: `Mix` with 64-bit arithmetic on limbs of 16 bits, both
passes, the table and its counts; a rendering, fully parenthesised, is the term
it reads as.

**ArenaTree, ArenaTreeProof: the flat layout.** A tree is a
sequence of nodes and a root index. Index arithmetic is modulo `IndexSpace`
(2^32 in the code) as in `absorb`; `npos` is the last index. One action per
operation of a client, moves with their source recorded in `moved`, because the
defaulted move empties the vector and leaves the root index. `term` is a history
variable: the tree as the client built it. `Read` is the projection as
`fold_with` uses it.

**Deque, FringeTree, FringeTreeMC, FringeTreeProof: the sequence.** A fringe tree is immutable,
so it is a value here; each constructor is one action. `view_l` and `view_r`
recurse and are run frame by frame: `StartView`, `ViewCall` (the body up to the
recursive call), `ViewReturn` (the body after it: try the far child, or join the
far child to the rest), `ViewDone`. `Deque` is the abstract specification, the
"quotient contract" of `fringe_tree.hpp:183-193`: registers hold sequences, and
answers depend on nothing else. Its `pending` view, a running call in
`FringeTree`, is part of the mapping: an answer must be the answer to what was
asked, and cannot pass for another operation's. `Nodes` are the parts of a tree,
level by level down to an empty one; `Flatten` is `FringeTree::flatten` on them, and
`Compact` a tree without an empty part below a branch. The bound on trees of
`FringeTreeMC` is on nodes.

**SequenceAlgorithms, SequenceAlgorithmsMC, SequenceAlgorithmsProof: clients of the
views.** Two programs,
one action per statement, with the views' steps in between, using the actions of
`FringeTree` unchanged: the loop of `sequence_equal`, and the walk that takes a
tree apart with `view_l`, followed by a build of the elements with `from_range`
or with repeated `cons`, and `sequence_equal` of the result with the tree.

**Ownership, OwnershipMC: classes that own memory.** `Ownership` has what the
memory models share: clients' variables, values, and nodes with two children.
`AliasedAssign` says whether clients assign to a tree from a part of itself.
`OwnershipMC` runs the four classes below; `class` says which of them the clients
use, and the memory of the others stays as it began.

**Box, SwapBox, BoxProof: one owner.** `heap` maps the addresses in use to nodes,
`var` the variables to addresses; `fault` is set when a destroyed object is used,
and `term` is a history variable: the tree the client gave each variable. A place
is a client's variable or a child slot of a live node, because `operator*` and
`operator->` hand out access to child slots.
`new` fails when no address is free. Each operation runs up to its return or its
throw, with the assignments in the order of the code: delete, then read.
`ThrowingAssign` says whether clients assign a copy that memory may not suffice
for. `SwapBox` replaces the two assignments by the one of
`examples/fixpoint_tree_example.cpp:23-26`: its operand is made first, by a copy
or a move, and what the target held goes last. `SelfMove` says whether clients move a
tree into a part of itself, which the operator does not prevent.

**SharedHeap, SharedTree, SharedFringe, SharedProof: many owners.** `memory` maps
objects to nodes: a client's variable is a node itself, the others are `Block`s
below one; `lost` is set when a destroyed node is read, and `made` is the history
variable. Children are addresses, the count of a `shared_ptr` is the number of places
that hold it. What a variable keeps when it has been moved from is its `Husk`.
`node` and `branch` take their operands by value: a client may move variables into them
(`Sources`), and their two calls of `make_shared` may throw, the second one when the
first has taken over an operand's children, which `Unwound` lets go of again
(for `node` in either order, which C++ leaves open). `Reset` lets go of an old
pointee, `Released` destroys what nobody
holds any more, in cascade. `SharedTree` is `BinaryTree`, with its defaulted
assignment member by member. `SharedFringe` is `FringeTree`: its node is a
variant, whose assignment is member by member between two branches
(`AssignBranch`), and otherwise destroys one alternative before it makes the
other (`AssignOther`); a moved-from branch keeps its measure and has no children,
and no client reads it; measures and the empty operands of `concat` are those of
`FringeTree`. Views, `cons`, `snoc` and `from_sequence` are programs of these
operations. `AliasedAssign` matters here only for a part that no other variable
holds; no client writes through `left_ptr()`.

**KeySet, SearchTree, SearchTreeProof: the search tree.** `insert`, `erase` and
`contains` as recursions: `call.path` holds the calls of `node()` waiting for a
child, `SearchLeft` and `SearchRight` go down, `EraseHere`, `MinValue` and
`Replace` are erase's cases at the node, `Rebuild` the way up. `KeySet` is the
abstract set with its pending operation; the mapping takes `keys`, a history
variable, for the set (`Ordered` says that it is the set of the tree's keys) and
the operation and key of the running call for what is pending.

**ProofLemmas**: what several of the proofs need about sequences used as stacks,
values threaded through the frames of a call stack (`Chain`), counting induction,
and sets that grow until they are closed.

## 3. Runs and bounds

| run | bounds | distinct states | what it shows |
|---|---|---|---|
| `verbs` | trees of 3 layers, 2 slots | 7,000 | the machine returns the solution of the equation (`ImplementsVerb`), its frames are consistent, calls come in left-to-right order, it returns |
| `programs` | binary trees of 4 nodes, other trees of 3 layers, 2 elements, 3 constants (2 in hashed expressions), integers -4..4, vectors of 5 | 135,415 | each layer fold's order over each representation; `from_fix` undoes `to_fix`; embedded measures; annotations; balanced builds are in order and of least height; renderings have each value in its place; left folds; the table of common subexpressions; traversals are all or nothing, the latter exactly if an element fails or there are too few; evaluation |
| `arena` | 2 variables, 4 nodes, 5 index values | 10,007 | arenas are well formed and denote what was built |
| `fringe` | 2 variables, trees of 5 nodes, sequences of 3 | 453,812 | flatten is the sequence and cached measures are its lengths, refinement of `Deque`, views return, compact trees stay compact |
| `sequence_algorithms` | all pairs of trees of 5 nodes, walks of trees of 7 nodes, 2 values | 120,870 | `sequence_equal` decides equality, in step; the view walk reads the sequence; rebuilt trees are equal; the loops end |
| `ownership` | 2 variables, 2 values; 4 addresses for `Box`, 3 for `BinaryTree`, 6 for `FringeTree` | 43,149 | one owner per node, value semantics; sharing is invisible, no leak, no early destruction, allocations that throw included |
| `search_tree` | 5 keys | 36,132 | search tree order, refinement of `KeySet`, locality, termination |

Why these bounds. The operations of trees look at a node and its children, so
what can go wrong needs a node, two children and one level more: a lone child on
either side, an empty part under a branch, a successor that has a child of its
own and is not a direct child. Trees of three layers (binary trees of three
nodes, fringe trees of five, search trees of five) have all of these. Two
client variables let one tree be built from, moved to and shared with another,
and one more tree exists as a part of these. In `arena` the index space is one
larger than the largest tree, the least for which no index is the sentinel, so
every off-by-one in the arithmetic reaches it. In `ownership`, memory for four
boxed nodes is a tree of two nodes and its copy or a tree of three and no room
for a copy, so copies both succeed and throw; three addresses of `BinaryTree` hold
two shared children and a third node under one of them; `FringeTree` allocates two
at a time, so six are three branches, the least that has a branch under a branch
and one more to replace it. Walks take trees of seven nodes: four elements, or
fewer with empty parts between them. `MaxNodes`, `MaxWalkNodes`, `MaxLength`, `Fits`,
`MaxHeight`, `MaxSlots`, `MaxNat` and `Addr` are bounds of the models only; the
code has none, except memory.

Symmetry is used in `ownership` over variables and values: no action prefers one
to another. Addresses are taken in a fixed order (`CHOOSE`), so they are not
interchangeable. Only invariants are checked under symmetry.

Deadlock checking is off in `verbs`, `programs` and `sequence_algorithms`, where a
program that has made its calls stops.

Each property was also run against a mutated definition, a plausible bug in the
code it models (absorbed roots not shifted, layer fold in another order, rests
not taken, a shallow copy, a successor not erased, ...), and fails there. The
mutants stand beside the definitions they change.

### What the code does that its comments do not say

Five runs end in a counterexample, each for one sentence of the repository:

* `arena_moved_from`: "True when the tree holds no nodes" (`arena_tree.hpp:106`)
  is false of a moved-from tree: no nodes, and a root index that is not `npos`.
* `box_aliased`: "deep-copy value semantics" (`box.hpp:20`): `b = b->left`
  deletes the tree and then reads the source in it.
* `box_throw`: the same sentence when the copy in an assignment throws: the box
  keeps the address of what it has deleted.
* `shared_aliased`: the "persistent" `BinaryTree` (`binary_tree.hpp:61`): in
  `t = t.left()` the defaulted assignment replaces `d_left`, which may be the
  last owner of the source, before it reads the source's `d_right`. `FringeTree`
  has the same defect at `fringe_tree.hpp:70`, in `SharedAliased.cfg` with
  `Classes = {"FringeTree"}`, and also where the left child is a leaf: the variant
  destroys the branch before it copies the leaf.
* `hash_collision`: "tag-seeded, so a sum and a product never collide"
  (`examples/cofree_annotations.cpp:70`): `mix` is an exclusive or with a sum,
  and the tag is only its first seed. TLC finds that `(68 + 68)` and `(1 * 68)`
  have the same 64-bit hash; so have `(0 * (1 + 1))` and `(1 * (0 + 1))`, two
  products. The table would count either pair as one subexpression, seen twice.
  The expressions of the passing run, over the constants 1 and 2, have no
  collision, so `CommonSubexpressions` is about the table, not about luck.

Four more were seen in the code while modelling, and have no run:

* "a small owning pointer with deep-copy value semantics"
  (`examples/fixpoint_tree_example.cpp:13`): `b->left = std::move(b)` puts the pointer
  to a node into the node itself; `b` is null, and nobody deletes the node. TLC finds
  `Owned` violated in three states with `SelfMove = TRUE` and `Classes = {"SwapBox"}`
  in `OwnershipMC.cfg`.
* "True when the tree holds no nodes" (`arena_tree.hpp:106`) is false, too, of a
  tree of 2^32 nodes, whose root index is `npos`: the least number of nodes that
  `MaxNodes < IndexSpace` excludes.
* "Persistent balanced binary tree" (`fringe_tree.hpp:57`): nothing balances;
  appending elements gives a list. What does hold is `StaysCompact`: from trees
  without empty parts, nothing but `branch` makes one with them, so a tree of n
  elements has 2n-1 nodes however many operations made it.
* "the tree is immutable once built" (`binary_tree.hpp:64`): `left_ptr()` gives a
  pointer to a non-const node, which other trees may share.

The passing runs of `Ownership` and `ArenaTree` exclude exactly the client
behaviours of these two lists: by `AliasedAssign`, `ThrowingAssign` and `SelfMove`, by
`Readable`, by the bound on nodes, and, for writing through `left_ptr()`, by
having no such action. Results and theorems are for programs without them. The
copy-and-swap `Box` needs neither of the first two: the same run lets its clients
assign within a tree, to a box itself, and without room for the copy, and excludes
only moving a tree into a part of itself (`SelfMove`).

## 4. Fairness

`Refold`, `FringeTree`, `SearchTree` and `SequenceAlgorithms` assume weak fairness of
the steps of a *running* call and of nothing else: a call is ordinary
synchronous code, so while a step is possible it is taken. Whether clients call
at all is not assumed. The liveness properties (`Termination`, `ViewReturns`,
`Terminates`, `Returns`) say that calls return. The other modules have no
fairness and no liveness properties.

## 5. Proofs

The theorems hold for every value of the constants: any number of variables, any
values, memories, trees and stacks of any size. `PROJECT.json` lists them, each
with the property of a run that it states, if there is one. How trees and lists of
any size are argued about without induction over them is the same in most modules:

* *Sets that vouch for each other replace recursion over data.* "Tree t denotes
  sequence s" is: some set of pairs has `<<t, s>>` in it and every pair of the set
  is what a constructor makes of pairs in it. Constructors add one pair to the union
  of two such sets, and a pair can be taken apart again, so every argument is about
  one node. In the memory models, "every non-empty set of nodes has ..." does it.
* *`Chain` threads a value through a call stack*: each waiting frame relates what it
  stands for to what the call inside it stands for. A push adds a link, a pop takes
  one away, so invariants of stacks are argued about one frame at a time.
* *Counting induction.* The library's induction theorems take an operator and cannot
  be used, but for a set in the place of the operator induction over the naturals
  follows from the well-foundedness of `<` (`CountingInduction`). With it a closure that
  the models compute by iteration (what a destructor visits, what a release
  destroys) is shown to be a fixed point, the least one.

**`RefoldProof`**, for every functor, coalgebra, algebra and stack depth:
`TypeCorrect`, `StackSafety` (`[]StackConsistent`), `VerbCorrect`
(`Spec => ImplementsVerb`, the refinement of `Verb`) and `CallsInOrder`
(`[]EvaluationOrder`). Assumptions: absent is not a seed or a result; the coalgebra
yields layers; the algebra yields results on evaluated layers of the coalgebra;
`Meaning` solves the defining equation. None of them says that the coalgebra is well
founded: if it is not, the machine does not return, and if `Meaning` is not unique,
a call that returns agrees with each of them. The inductive invariant is

    Inv == TypeOK /\ StackConsistent /\ Answered /\ Idle

`StackConsistent` alone is not inductive for the answer: that the outcome, once
there, is `Meaning[root]` (`Answered`) follows from the results in the last
frame at the moment it is popped, and that the stack is empty and stays empty
before the call and after the answer (`Idle`) is what keeps a second answer from
coming. `PushInv` and `StoreInv` are the two ways the stack changes; each action
is one of them or, for `Return`, a pop followed by a store. `FrameAnswer` says
that an exhausted frame with right results gives the right result, by the
equation. The refinement maps `Invoke` and the last `Return` to the two actions
of `Verb` and every other step to a stutter. For the order, `InTurn` says that the
calls made, those the innermost frame has left, and those the frames below it have
left are together all the calls of the root. Only `CallsInOrder` has the hypothesis
that an order exists (`AgendaSolves`; the run evaluates it for its trees): the
equations have finite solutions exactly where the recursion is well founded.

**`ArenaTreeProof`**, for every number of variables, every width of the index and
all operations, under `MaxNodes < IndexSpace`: `ArenaTypeCorrect`,
`ArenaWellFormed`, `ArenaRepresents` and `ArenaReads`. Without the assumption `ArenaWellFormed`
is false: the root of a tree with `IndexSpace` nodes is `npos`.
`ArenaRepresents` states what `Read` computes without recursion: *every* function
that satisfies the equations of the projection (nothing at `npos`, else a node over
the readings of its children) gives the client's term at the root.
`ArenaReads` is `Represents` itself: the recursive function in `Read` satisfies those
equations, because every child of a well-formed arena comes before its node, so that
`Read` is one of the functions of `ArenaRepresents`.
`NodeArenaLayout` computes the nodes of `node(v, l, r)`: those of `l`, those of `r`
shifted by the size of `l`, and the root; `LayoutWellFormed` and `NodeDenotes` derive
the two properties from that layout alone, so that the arithmetic of rebasing is
done in one place. The invariant keeps for every readable variable that its arena is
well formed, that it denotes its term, and that it is not larger than `MaxNodes`.

**`FringeTreeProof`**: `FringeImplementsDeque` (the refinement of `Deque`),
`FringeRepresents` (`[]Represents`),
`FringeStaysCompact` (the action property `StaysCompact`), and `FringeDenotes`.
The invariant is that each register's tree denotes its sequence (`Denotes`, cached
counts included), and for a running view that the frames' far parts complete what
is being looked at, or what has been found, to the sequence of the tree that was
asked (`Stacked`, a `Chain`). So the refinement needs no fact about shapes.
`Denotes` is about one node at a time and needs no recursion; `Flatten`, `Nodes` and
`Compact`, which the run evaluates on whole trees, are recursive functions. They come
together in three steps: whatever denotes something is finite (`Finite`: one of its
levels is empty), so that the search of `Nodes` for the last level ends and gives the
least set of parts that is closed under children (`NodesClosed`, `NodesLeast`); no
part denotes two sequences (`Only`, from the lowest level up); hence `Flatten`'s
equations have a solution on the parts, and every solution gives the sequence that
the tree denotes (`FlattenReads`). Only `branch` with an empty operand brings an
empty part into a tree; for a view that is an invariant of its frames
(`CompactCall`), from one compact tree to the next.

**`SequenceAlgorithmsProof`**: `SequenceEqualDecides` (`[]Quotient`),
`ComparedInStep` (`[]InStep`) and `WalkReadsAll` (`[]WalkReads`), on top of the
lemmas of `FringeTreeProof` about single views. The hypothesis `InputsDenote` says
that programs start from trees that denote their sequences; `FringeDenotes` is
the proof that clients of the class have no others. The invariant says what the
view that runs at each statement will answer (`Viewed`), that what a walk has read
and what is left are the sequence (`Reading`), that the tree being built is a prefix
or a suffix of it (`Building`), and that the rounds of `sequence_equal` have taken
one and the same prefix off both sequences (`SamePrefix`).

**`SearchTreeProof`**: `SearchTreeImplementsKeySet` (the refinement of `KeySet`),
`SearchTreeOrdered` (`[]Ordered`) and two action properties,
`SearchTreeSameSetSameTree` and `SearchTreeHeights` (`HeightsAreLocal`). `Holds(t, K)`
says that t is ordered at every node and has exactly the keys K. The path of a
running call is a `Chain` of what each waiting `node()` will make of its child's
keys; it also carries the bounds that the ancestors put on them, without which the
order is not inductive: `erase` puts the successor, from deep in the right subtree,
above everything between.
`Ordered` and `HeightsAreLocal` look at a tree level by level (`Level(t, n)`, the nodes n
links down), to the depth of as many levels as there are keys. `NoDeeper` and
`KeysHaveNodes`, by induction on the number of keys, show that this misses no node of
a tree that `Holds` its keys. For the heights, `Changing` threads pairs of an old and
a new subtree through the frames: a frame `Keeps` a difference of one from growing,
whatever value it has now, and the operation itself makes a difference of one only
where it adds a leaf or takes a node with at most one child away.

**`BoxProof`**: `BoxOwned` (no client assigns within a tree or a copy that memory
does not suffice for) and `SwapBoxOwned` (no client moves a tree into a part of
itself, `~SelfMove`, without which `Owned` is false), both `[]Owned`. `Owned` is
not inductive: that every node is visited from some variable is about all paths at
once. The invariant replaces it by `Rooted`: every non-empty set of nodes is held
from outside the set. With `HeldOnce` and `NoneDangling` this excludes circles and
leaks together, and survives each operation because a set held from outside stays
so when a tree is cut off, moved or copied whole. The operand that `SwapBox` takes by
value is one more variable (`Hand`), so that a copy and an exchange are operations
on a good heap; only a move needs that the target is not below what is moved.

`BoxValueSemantics` and `SwapBoxValueSemantics` (`[]ValueSemantics`, each under the
hypotheses of its ownership theorem) add that every variable holds the tree its client
gave it. `Tree` reads a heap to a bounded depth; `TreeFacts` shows that on a good heap
the bound is never felt, because among any nodes there is one without a child among
them (`Grounded`), and so that a tree is its root over the trees of its children.
Two parts of heaps of which one `Mirrors` the other node by node have the same trees:
a copy and its source (`CopyShown`), a tree that has changed its place (`MovedShown`),
one that a step does not write to (`SparedTree`), and a variable's tree in which one
place has been given another tree (`GivenTrees`). `Spares` says what has to survive:
`CopyAssign` puts the copy where it has just freed the target's nodes, so that "the
same address before and after" does not mean the same node. `SetValue` needs in
addition that two variables' trees are disjoint, which `Rooted` gives.

**`SharedProof`**: `BinaryReclaimed`, `FringeReclaimed` (`[]Reclaimed`, for all
clients), `BinaryPersistent` and `FringePersistent` (`[]Persistent`, if no client
assigns to a tree a part of it that nobody else holds). The invariant for the first
is that children are live nodes, that among any nodes there is one without a child
and one without a holder among them (`Grounded`, so there is no circle), and that
every node has a holder (`Unheld` is empty). `Reclaimed` follows, as the nodes that no
variable reaches would be a set without an outermost node. The second needs that a
cascade destroys nothing that is still held from somewhere (`Supported`), and that
the tree below an object depends only on nodes that did not change. Assignments pass
through states in which old children are gone and new ones not yet there; these
are the intermediate predicates of the lemmas (`Halfway`, `Extended`, `Received`).
A constructor that throws is a node that is added and let go of again (`UnwoundFacts`),
after variables have become husks (`VacatedFacts`).
For `FringeTree` the invariant adds that only branches have children (`Plain`).

TLC checks the properties that the theorems state on the small instances too.

Checked by TLC only:

* liveness (`Termination`, `ViewReturns`, `Returns`, `Terminates`), as TLAPS has no
  rules for it here;
* the programs of `ProgramsMC`: what the algebras of the shipped representations and
  of the examples make of whole trees. The module reaches `Bitwise` (the 64-bit hash
  of `CommonSubexpressions`) and the recursive operator `Called` of
  `ExampleAlgorithms`, so that `tlapm` has no arithmetic there. That a verb returns
  the solution of its fold equation, whatever the algebra, is `RefoldProof`.

## 6. Not modelled

* `operator==` of `Box`, printing, timing: no state. Renderings are modelled as
  sequences of marks and values, not as strings, so that two different trees with
  equal strings (no separators in `flatten_linked`) are not seen.
* `Functor::replace`: `fmap` with a constant function.
* Overload resolution, lookup by type and `constexpr` evaluation: they happen in
  the compiler; the code they select is what is modelled.
* Machine integers in `eval`: the code has no contract for overflow.
* Arena cursors that a client keeps while it changes the tree: the library makes
  them only inside a verb's call.
* `nodes_are_contiguous` of `examples/arena_tree_layout.cpp` (a promise of
  `std::vector`), the expression type and the hand-written fold of
  `examples/fixpoint_tree_example.cpp` (those of `expression.hpp` in small), and the
  benchmarks, whose trees and layers are those of `BinaryTree` with another pointer.
* Concurrency: the library has none. Trees that share nodes between threads
  rely on the counts of `shared_ptr`, a standard library matter.

## 7. Plan

Written, in this order: Verb and Refold with their proofs; ArenaTree with its
proofs; Deque and FringeTree; Box; VerbClient, Representations and
ExampleAlgorithms; KeySet and SearchTree; SequenceAlgorithms; SharedTree; then
Ownership with SharedHeap, SwapBox and SharedFringe, CommonSubexpressions, and the
algebras of the remaining examples.

Proofs, in the order in which they were written: Refold, ArenaTree, FringeTree,
SearchTree, Box and SwapBox (ownership), SharedTree and SharedFringe,
SequenceAlgorithms, the order of calls of Refold, the values of Box and SwapBox, and
what whole trees hold, read level by level: the arenas of ArenaTree, the order and the
heights of search trees, flatten and compactness of fringe trees.

Next:

1. The hash of `CommonSubexpressions` in a module of its own and `Called` as a
   recursive function, and then the layer folds as instances of `Refold` with their
   `Meaning`, by the levels of their trees.
