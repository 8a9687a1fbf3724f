-------------------------- MODULE Representations --------------------------
(***************************************************************************)
(* The layers of the shipped tree representations, for the verb machine:   *)
(* what a projection or a coalgebra exposes, and what an embedding, a      *)
(* layer fold or a rebuilding algebra makes of an evaluated layer.         *)
(*                                                                         *)
(* A layer has a value, which holds everything but the children, and one   *)
(* slot per child.  A layer fold combines with the operands of fold_map,   *)
(* MapFn, Combine and Identity.                                            *)
(***************************************************************************)
EXTENDS Integers, SequencesExt

CONSTANTS Absent,        \* the content of a disengaged child slot
          NoTree,        \* a null shared_ptr, or the term of the empty tree
          IndexSpace     \* number of index values of an arena

Layer(alt, element, slots) == [value |-> [alt |-> alt, element |-> element], slots |-> slots]

\* make_slot for a child that may be missing.
MakeSlot(child) == IF child = NoTree THEN Absent ELSE child

\* The operands of fold_map: the free monoid, an element to the sequence of
\* itself, of which every other choice is an image.
Identity == <<>>
MapFn(element) == <<element>>
Combine(a, b) == a \o b

-----------------------------------------------------------------------------
(* Fix *)

WrapFix(v, e) == [inner |-> [value |-> v, slots |-> e]]
UnwrapFix(fixed) == fixed.inner

-----------------------------------------------------------------------------
(* BinaryTree: [value, left, right], with NoTree for a null child. *)

BinaryProject(t) == Layer("node", t.value, <<MakeSlot(t.left), MakeSlot(t.right)>>)

\* (a mutant) The value before both children.
BinaryLayerFoldPreOrder(v, e) ==
  LET result(slot) == IF slot = Absent THEN Identity ELSE slot
  IN  Combine(MapFn(v.element), Combine(result(e[1]), result(e[2])))

\* In order; absent children contribute the identity.
BinaryLayerFold(v, e) ==
  LET result(slot) == IF slot = Absent THEN Identity ELSE slot
  IN  Combine(Combine(result(e[1]), MapFn(v.element)), result(e[2]))

\* (a mutant) A lone right child becomes the left one.
RebuildPacked(v, e) ==
  LET child(slot) == IF slot = Absent THEN NoTree ELSE slot
  IN  IF e[1] = Absent THEN [value |-> v.element, left |-> child(e[2]), right |-> NoTree]
      ELSE [value |-> v.element, left |-> child(e[1]), right |-> child(e[2])]

\* The algebra of from_fix.
Rebuild(v, e) ==
  LET child(slot) == IF slot = Absent THEN NoTree ELSE slot
  IN  [value |-> v.element, left |-> child(e[1]), right |-> child(e[2])]

-----------------------------------------------------------------------------
(* Rose trees, and the other Fix-native types as terms: an alternative, an  *)
(* element if it has one, and the children.                                 *)

Unwrap(t) == Layer(t.alt, t.element, t.children)

\* In pre-order.
RoseLayerFold(v, e) == FoldLeft(Combine, MapFn(v.element), e)

\* ExprF: the constants are the elements, Add and Mul combine.
ExprLayerFold(v, e) ==
  IF v.alt = "const" THEN MapFn(v.element) ELSE Combine(e[1], e[2])

\* (a mutant) Products are added up as well.
EvalAdding(v, e) == IF v.alt = "const" THEN v.element ELSE e[1] + e[2]

EvalAlgebra(v, e) ==
  CASE v.alt = "const" -> v.element
    [] v.alt = "add"   -> e[1] + e[2]
    [] v.alt = "mul"   -> e[1] * e[2]

-----------------------------------------------------------------------------
(* Nat *)

NatCoalgebra(m) == IF m <= 0 THEN Layer("zero", 0, <<>>) ELSE Layer("succ", 0, <<m - 1>>)

NatCount(v, e) == IF v.alt = "zero" THEN 0 ELSE e[1] + 1

-----------------------------------------------------------------------------
(* ArenaTree: a handle is a cursor, an arena and an index into it. *)

Arena == INSTANCE ArenaTree WITH
           Register <- {}, Value <- {}, MaxNodes <- 0, tree <- 0, moved <- 0, term <- 0

ArenaRoot(t) == [tree |-> t, index |-> t.root]

ArenaProject(cursor) ==
  IF cursor.index = Arena!npos THEN Layer("absent", Absent, <<>>)
  ELSE LET node == Arena!At(cursor.tree, cursor.index)
       IN  Layer("node", node.value, <<[cursor EXCEPT !.index = node.left],
                                       [cursor EXCEPT !.index = node.right]>>)

ArenaEmbed(v, e) ==
  IF v.alt = "absent" THEN Arena!EmptyArena ELSE Arena!NodeArena(v.element, e[1], e[2])

ArenaLayerFold(v, e) ==
  IF v.alt = "absent" THEN Identity ELSE Combine(Combine(e[1], MapFn(v.element)), e[2])

\* A client's coalgebra for arenas: the layers of a term, the empty tree a
\* layer of its own.
TermLayer(m) ==
  IF m = NoTree THEN Layer("absent", Absent, <<>>)
  ELSE Layer("node", m.value, <<m.left, m.right>>)

-----------------------------------------------------------------------------
(* FringeTree *)

Fringe == INSTANCE FringeTree WITH
            Register <- {}, Value <- {}, MaxLength <- 0, Fits <- LAMBDA t : TRUE,
            tree <- 0, call <- 0, answer <- 0, seq <- 0

FringeProject(t) ==
  IF Fringe!IsEmpty(t) THEN Layer("empty", Absent, <<>>)
  ELSE IF Fringe!IsLeaf(t) THEN Layer("leaf", t.value, <<>>)
  ELSE Layer("branch", Absent, <<t.left, t.right>>)

FringeEmbed(v, e) ==
  IF v.alt = "empty" THEN Fringe!Empty
  ELSE IF v.alt = "leaf" THEN Fringe!Leaf(v.element)
  ELSE Fringe!Branch(e[1], e[2])

FringeLayerFold(v, e) ==
  IF v.alt = "empty" THEN Identity
  ELSE IF v.alt = "leaf" THEN MapFn(v.element)
  ELSE Combine(e[1], e[2])

-----------------------------------------------------------------------------
(* Cofree: an annotated tree keeps the layer beside the annotation. *)

AnnotationOf(node) == node.annotation

\* (a mutant) The annotations lose their place when a child is absent.
ChildAnnotationsDropping(e) ==
  LET present == SelectSeq(e, LAMBDA slot : slot # Absent)
  IN  [i \in DOMAIN e |-> IF i <= Len(present) THEN AnnotationOf(present[i]) ELSE Absent]

\* annotate first maps the annotated children to their annotations, ...
ChildAnnotations(e) == [i \in DOMAIN e |-> IF e[i] = Absent THEN Absent ELSE AnnotationOf(e[i])]

\* ... runs the algebra on them, here the layer fold of a binary tree, and
\* keeps the layer.
Annotate(v, e) ==
  [annotation |-> BinaryLayerFold(v, ChildAnnotations(e)), children |-> [value |-> v, slots |-> e]]

\* fold_cofree recurses on the kept layer and hands the annotation to the
\* algebra with the evaluated layer.
CofreeLayer(node) ==
  [value |-> [annotation |-> AnnotationOf(node), layer |-> node.children.value],
   slots |-> node.children.slots]

\* An algebra for it: a table of the annotations below the node, then its own.
GatherAnnotations(v, e) ==
  FlattenSeq(SelectSeq(e, LAMBDA slot : slot # Absent)) \o <<v.annotation>>
=============================================================================
