------------------------- MODULE ExampleAlgorithms --------------------------
(***************************************************************************)
(* Algebras and coalgebras of the examples: shapes and depths, the         *)
(* balanced builds of search_tree_on_fix.cpp and nonce_tree_direct.cpp,    *)
(* the left folds of sequence_algorithms.cpp, and the folds and effectful  *)
(* traversals of expression_algorithms.cpp; cofree_annotations.cpp has a   *)
(* module of its own, CommonSubexpressions.                                *)
(***************************************************************************)
EXTENDS CommonSubexpressions

CONSTANT Nullopt        \* the disengaged optional an algorithm returns

-----------------------------------------------------------------------------
(* search_tree_on_fix.cpp *)

\* (a mutant) The upper part loses its last element.
SplitLow(r) ==
  LET mid == r.lo + (r.hi - r.lo) \div 2
      part(lo, hi) == IF hi > lo THEN [r EXCEPT !.lo = lo, !.hi = hi] ELSE Absent
  IN  Layer("node", r.sorted[mid + 1], <<part(r.lo, mid), part(mid + 1, r.hi - 1)>>)

\* The coalgebra of balanced: a range [lo, hi) of `sorted`, split at its midpoint.
Split(r) ==
  LET mid == r.lo + (r.hi - r.lo) \div 2
      part(lo, hi) == IF hi > lo THEN [r EXCEPT !.lo = lo, !.hi = hi] ELSE Absent
  IN  Layer("node", r.sorted[mid + 1], <<part(r.lo, mid), part(mid + 1, r.hi)>>)

Height(v, e) ==
  LET height(slot) == IF slot = Absent THEN 0 ELSE slot
  IN  1 + Max({height(e[1]), height(e[2])})

\* A rendering is a sequence of tokens: a mark or a value.
Mark(m) == [mark |-> m]
Shown(x) == [value |-> x]

\* (a mutant) The children exchanged.
ShapeCrossed(v, e) ==
  LET child(slot) == IF slot = Absent THEN <<Mark(".")>> ELSE slot
  IN  <<Mark("(")>> \o child(e[2]) \o <<Shown(v.element)>> \o child(e[1]) \o <<Mark(")")>>

\* The order-sensitive algebra of the examples, "(left value right)".
Shape(v, e) ==
  LET child(slot) == IF slot = Absent THEN <<Mark(".")>> ELSE slot
  IN  <<Mark("(")>> \o child(e[1]) \o <<Shown(v.element)>> \o child(e[2]) \o <<Mark(")")>>

-----------------------------------------------------------------------------
(* arena_tree_layout.cpp *)

DepthArena(v, e) == IF v.alt = "absent" THEN 0 ELSE 1 + Max({e[1], e[2]})

FlattenLinked(v, e) ==
  LET text(slot) == IF slot = Absent THEN <<>> ELSE slot
  IN  text(e[1]) \o <<Shown(v.element)>> \o text(e[2])

FlattenArena(v, e) == IF v.alt = "absent" THEN <<>> ELSE e[1] \o <<Shown(v.element)>> \o e[2]

-----------------------------------------------------------------------------
(* nonce_tree_direct.cpp: a binary tree of unique_ptr, whose layer and      *)
(* projection are like those of BinaryTree.                                 *)

NodeProject(n) == BinaryProject(n)

\* The coalgebra of the balanced build, over the integers from lo to hi - 1.
RangeSplit(r) ==
  LET mid == r.lo + (r.hi - r.lo) \div 2
      part(lo, hi) == IF hi > lo THEN [lo |-> lo, hi |-> hi] ELSE Absent
  IN  Layer("node", mid, <<part(r.lo, mid), part(mid + 1, r.hi)>>)

\* embed moves the children out of the layer into a new node.
NodeEmbed(v, e) == Rebuild(v, e)

-----------------------------------------------------------------------------
(* sequence_algorithms.cpp *)

FringeShape(v, e) ==
  CASE v.alt = "empty"  -> <<Mark("()")>>
    [] v.alt = "leaf"   -> <<Shown(v.element)>>
    [] v.alt = "branch" -> <<Mark("(")>> \o e[1] \o e[2] \o <<Mark(")")>>

\* A Program, a function object on accumulators, is what it was made from.
Do(step) == [does |-> "step", value |-> step]
DoNothing == [does |-> "nothing"]
Composed(f, g) == [does |-> "both", first |-> f, second |-> g]

\* (a mutant) Composition from right to left.
LeftFoldLayerBackwards(v, e) ==
  CASE v.alt = "empty"  -> DoNothing
    [] v.alt = "leaf"   -> Do(v.element)
    [] v.alt = "branch" -> Composed(e[2], e[1])

\* fold_left is the layer fold with the monoid of programs.
LeftFoldLayer(v, e) ==
  CASE v.alt = "empty"  -> DoNothing
    [] v.alt = "leaf"   -> Do(v.element)
    [] v.alt = "branch" -> Composed(e[1], e[2])

\* The step of to_vector and that of reversed.
Step(fn, acc, x) == IF fn = "push_back" THEN Append(acc, x) ELSE Fringe!Join(Fringe!Leaf(x), acc)

\* A program called on acc, for the step fn.
RECURSIVE Called(_, _, _)
Called(fn, program, acc) ==
  CASE program.does = "nothing" -> acc
    [] program.does = "step"    -> Step(fn, acc, program.value)
    [] program.does = "both"    -> Called(fn, program.second, Called(fn, program.first, acc))

ToVector(program) == Called("push_back", program, <<>>)
Reversed(program) == Called("cons", program, Fringe!Empty)

-----------------------------------------------------------------------------
(* expression_algorithms.cpp *)

Length(v, e) == IF v.alt = "const" THEN 1 ELSE e[1] + e[2]

\* The algebra of for_each: one leaf that maps to nothing and there is no tree.
ForEach(fn, v, e) ==
  IF v.alt = "const"
  THEN IF fn[v.element] = Nullopt THEN Nullopt
       ELSE [alt |-> "const", element |-> fn[v.element], children |-> <<>>]
  ELSE IF Nullopt \in {e[1], e[2]} THEN Nullopt
       ELSE [alt |-> v.alt, element |-> v.element, children |-> e]

Validate(pred, v, e) == ForEach([x \in DOMAIN pred |-> IF pred[x] THEN x ELSE Nullopt], v, e)
=============================================================================
