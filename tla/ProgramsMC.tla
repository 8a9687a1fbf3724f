---------------------------- MODULE ProgramsMC ----------------------------
(***************************************************************************)
(* Programs of recursion verbs: they take small trees through the          *)
(* representations (fold, convert, fold the result, annotate, convert      *)
(* back) and run the algorithms of the examples.                           *)
(***************************************************************************)
EXTENDS VerbClient, FiniteSets, TLC

CONSTANTS NoTree, IndexSpace, Nullopt,
          Element,        \* the values in the trees
          Literal,        \* the constants in the expressions of the examples
          Hashed,         \* those in the expressions that are hashed
          MaxNodes,       \* nodes of a binary tree
          MaxHeight,      \* layers of the other trees
          MaxNat,         \* the integers made into naturals, and their negatives
          MaxLength,      \* of a sorted vector
          MinSize         \* of an expression that is transformed

INSTANCE ExampleAlgorithms
INSTANCE Readings WITH MaxDepth <- MaxNodes + MaxHeight - 1

\* The operands of validate and transform_if_large.
Large == [x \in Literal |-> x > 1]
Tenfold == [x \in Literal |-> 10 * x]

\* The verbs of the programs: their projections and coalgebras, and their
\* algebras and embeddings.
TakeFrom(op, x) ==
  CASE op \in {"fold_map_binary", "to_fix", "depth_linked", "flatten_linked"} -> BinaryProject(x)
    [] op \in {"fold_map_fix", "from_fix", "annotate", "nat_to_int", "flatten", "height", "shape"}
                                                              -> UnwrapFix(x)
    [] op \in {"fold_cofree", "gather"}                       -> CofreeLayer(x)
    [] op \in {"fold_map_rose", "fold_map_expr", "to_fringe"} -> Unwrap(x)
    [] op \in {"fold_map_fringe", "fringe_shape", "fold_left", "fold_map_reversed"}
                                                              -> FringeProject(x)
    [] op = "to_arena"                                        -> TermLayer(x)
    [] op \in {"fold_map_arena", "depth_arena", "flatten_arena"} -> ArenaProject(x)
    [] op = "nat_from_int"                                    -> NatCoalgebra(x)
    [] op = "balanced"                                        -> Split(x)
    [] op = "unfold_node"                                     -> RangeSplit(x)
    [] op = "node_shape"                                      -> NodeProject(x)
    [] op \in {"length", "validate", "for_each", "eval", "annotate_hash"} -> Unwrap(x)

MakeOf(op, v, e) ==
  CASE op \in {"fold_map_binary", "fold_map_fix", "flatten"} -> BinaryLayerFold(v, e)
    [] op \in {"to_fix", "nat_from_int", "balanced"} -> WrapFix(v, e)
    [] op = "from_fix"                            -> Rebuild(v, e)
    [] op = "annotate"                            -> Annotate(v, e)
    [] op = "fold_cofree"                         -> GatherAnnotations(v, e)
    [] op = "fold_map_rose"                       -> RoseLayerFold(v, e)
    [] op = "fold_map_expr"                       -> ExprLayerFold(v, e)
    [] op = "to_fringe"                           -> FringeEmbed(v, e)
    [] op \in {"fold_map_fringe", "fold_map_reversed"} -> FringeLayerFold(v, e)
    [] op = "to_arena"                            -> ArenaEmbed(v, e)
    [] op = "fold_map_arena"                      -> ArenaLayerFold(v, e)
    [] op = "nat_to_int"                          -> NatCount(v, e)
    [] op \in {"height", "depth_linked"}          -> Height(v, e)
    [] op = "depth_arena"                         -> DepthArena(v, e)
    [] op = "flatten_linked"                      -> FlattenLinked(v, e)
    [] op = "flatten_arena"                       -> FlattenArena(v, e)
    [] op \in {"shape", "node_shape"}             -> Shape(v, e)
    [] op = "fringe_shape"                        -> FringeShape(v, e)
    [] op = "fold_left"                           -> LeftFoldLayer(v, e)
    [] op = "unfold_node"                         -> NodeEmbed(v, e)
    [] op = "annotate_hash"                       -> AnnotateHash(v, e)
    [] op = "gather"                              -> GatherEntries(v, e)
    [] op = "length"                              -> Length(v, e)
    [] op = "validate"                            -> Validate(Large, v, e)
    [] op = "for_each"                            -> ForEach(Tenfold, v, e)
    [] op = "eval"                                -> EvalAlgebra(v, e)

-----------------------------------------------------------------------------
Binary(n) == BinaryTrees(Element, n)
Fringes == BinaryTerms({Term("leaf", v, <<>>) : v \in Element} \cup {Term("empty", Absent, <<>>)},
                       {"branch"}, MaxHeight)
Exprs(constants) == BinaryTerms({Term("const", v, <<>>) : v \in constants}, {"add", "mul"}, MaxHeight)

\* Sorted vectors; repeated elements are allowed.
Vectors == {s \in UNION {[1..n -> 1..MaxLength] : n \in 1..MaxLength} :
              \A i, j \in DOMAIN s : i <= j => s[i] <= s[j]}

FirstCalls ==
  UNION {{Call("fold_map_binary", t) : t \in Binary(n)} : n \in 1..MaxNodes}
  \cup UNION {{Call("to_arena", t) : t \in Binary(n)} : n \in 0..MaxNodes}
  \cup {Call("fold_map_rose", t) : t \in WideTerms(Element, 2, MaxHeight)}
  \cup {Call("fold_map_expr", t) : t \in Exprs(Element)}
  \cup {Call("to_fringe", t) : t \in Fringes}
  \cup {Call("nat_from_int", m) : m \in -MaxNat..MaxNat}
  \cup {Call("unfold_node", r) : r \in {r \in [lo : -MaxNat..MaxNat, hi : -MaxNat..MaxNat] : r.lo < r.hi}}
  \cup {Call("annotate_hash", t) : t \in Exprs(Hashed)}
  \cup {Call("balanced", [sorted |-> s, lo |-> 0, hi |-> Len(s)]) : s \in Vectors}
  \cup {Call(op, t) : op \in {"validate", "length", "eval"}, t \in Exprs(Literal)}

\* What a program calls after its first call: verbs, and which result they
\* are given; 0 is the argument of the first call.
Script ==
  [fold_map_binary |-> <<<<"to_fix", 0>>, <<"fold_map_fix", 2>>, <<"from_fix", 2>>,
                         <<"annotate", 2>>, <<"fold_cofree", 5>>,
                         <<"shape", 2>>, <<"depth_linked", 0>>, <<"flatten_linked", 0>>>>,
   to_arena        |-> <<<<"fold_map_arena", 1>>, <<"depth_arena", 1>>, <<"flatten_arena", 1>>>>,
   to_fringe       |-> <<<<"fold_map_fringe", 1>>, <<"fringe_shape", 1>>,
                         <<"fold_left", 1>>, <<"fold_map_reversed", 4>>>>,
   nat_from_int    |-> <<<<"nat_to_int", 1>>>>,
   balanced        |-> <<<<"flatten", 1>>, <<"height", 1>>>>,
   unfold_node     |-> <<<<"node_shape", 1>>>>,
   length          |-> <<<<"for_each", 0>>>>,
   annotate_hash   |-> <<<<"gather", 1>>>>,
   fold_map_rose   |-> <<>>,
   fold_map_expr   |-> <<>>,
   validate        |-> <<>>,
   eval            |-> <<>>]

\* What a verb is handed for x.
Handed(op, x) ==
  CASE op \in {"fold_map_arena", "depth_arena", "flatten_arena"} -> ArenaRoot(x)
    [] op = "fold_map_reversed" -> Reversed(x)
    [] OTHER -> x

\* (a mutant) A tree of exactly the least size is left out.
TooSmallOrEqual(done) == done[1].call.op = "length" /\ done[1].result <= MinSize

\* transform_if_large calls for_each unless length has counted too few elements.
TooSmall(done) == done[1].call.op = "length" /\ done[1].result < MinSize

ScriptedCalls(done) ==
  IF done = <<>> THEN FirstCalls
  ELSE LET script   == Script[done[1].call.op]
           n        == Len(done)
           given(k) == IF k = 0 THEN done[1].call.arg ELSE done[k].result
           op       == script[n][1]
       IN  IF n > Len(script) \/ TooSmall(done) THEN {}
           ELSE {Call(op, Handed(op, given(script[n][2])))}

\* What transform_if_large returns, as a set: the empty optional, or what
\* for_each returned; nothing while it is still running.
Transformed ==
  IF Received({"length"}) # {} /\ TooSmall(calls) THEN {Nullopt} ELSE Received({"for_each"})

-----------------------------------------------------------------------------
\* fold_map reads a tree in its representation's contractual order, whether it
\* runs over a projection, over the Fix form or over an arena or fringe tree
\* that unfold_with has built: in order for binary trees and arenas
\* (binary_tree.hpp:210, arena_tree.hpp:286), the node first for rose trees
\* (rose_tree.hpp:125), the leaves from left to right for the others.  The two
\* algebras that flatten, one per layout, agree (arena_tree_layout.cpp:78-92).
ReadingOrder ==
  /\ \A r \in Received({"fold_map_binary", "fold_map_fix", "fold_map_arena"}) :
        r = IF Origin = NoTree THEN <<>> ELSE Reading(Origin, InOrder)
  /\ \A r \in Received({"fold_map_rose", "fold_map_expr", "fold_map_fringe"}) :
        r = Reading(Origin, PreOrder)
  /\ \A r \in Received({"flatten_linked", "flatten_arena"}) :
        LET read == IF Origin = NoTree THEN <<>> ELSE Reading(Origin, InOrder)
        IN  r = [i \in DOMAIN read |-> Shown(read[i])]

\* Conversions lose nothing: from_fix gives the tree back that to_fix was
\* given (binary_tree.hpp:266-302), a natural counts to the integer it was
\* made from, negative ones to zero (functors.hpp:105-130).
RoundTrip ==
  /\ \A r \in Received({"from_fix"}) : r = Origin
  /\ \A r \in Received({"nat_to_int"}) : r = IF Origin < 0 THEN 0 ELSE Origin

\* "trees built by unfold_with maintain the invariant by construction"
\* (fringe_tree.hpp:51): every branch of an embedded tree, at any depth,
\* caches the number of the leaves below it.
EmbeddedMeasures ==
  \A r \in Received({"to_fringe"}) : \A p \in Positions(Origin) :
    LET inner(t, i) == IF i = 1 THEN t.left ELSE t.right
        below == {q \in Positions(Origin) : IsPrefix(p, q) /\ Subtree(Origin, q).alt = "leaf"}
    IN  Fringe!Measure(FoldLeft(inner, r, p)) = Cardinality(below)

\* annotate decorates every node with the fold of the subtree below it, and
\* an algebra of fold_cofree sees every annotation beside the results of the
\* node's own children, its table ending with the node's own entry
\* (cofree.hpp:81-87, 121-127, cofree_annotations.cpp:106-109).
Annotated ==
  \A r \in Received({"fold_cofree"}) :
    LET order == Ordered(Origin, PostOrder)
    IN  r = [i \in DOMAIN order |-> Reading(Subtree(Origin, order[i]), InOrder)]

Leaves(t) == {p \in Positions(t) : Subtree(t, p).alt = "const"}

Depth(t) == Max({Len(p) + 1 : p \in Positions(t)} \cup {0})

LeastHeight(h, n) == 2^(h - 1) <= n /\ n < 2^h

\* The balanced builds read back as the sorted vector or range they split and
\* are as low as trees of their size can be (search_tree_on_fix.cpp:169-185,
\* 214-224, nonce_tree_direct.cpp:85-102).
BalancedBuild ==
  /\ \A r \in Received({"flatten"}) : r = Origin.sorted
  /\ \A r \in Received({"height"}) : LeastHeight(r, Len(Origin.sorted))
  /\ \A r \in Received({"unfold_node"}) :
       LET n == Origin.hi - Origin.lo
       IN  Reading(r, InOrder) = [i \in 1..n |-> Origin.lo + i - 1] /\ LeastHeight(Depth(r), n)

\* The values of a rendering, each with the parentheses open around it; "()" is
\* an empty tree.
Nested(tokens) ==
  LET open(i) == Cardinality({j \in 1..i : tokens[j] = Mark("(")})
                   - Cardinality({j \in 1..i : tokens[j] = Mark(")")})
      values  == SelectSeq([i \in DOMAIN tokens |-> i],
                           LAMBDA i : tokens[i] \notin {Mark("("), Mark(")"), Mark(".")})
  IN  [k \in DOMAIN values |->
         <<IF tokens[values[k]] = Mark("()") THEN Absent ELSE tokens[values[k]].value, open(values[k])>>]

\* The rendered shape "pins shape and traversal order exactly"
\* (nonce_tree_direct.cpp:74-75, binary_tree_adapt.cpp:39-41): it has each
\* value in its place, as deep as it is in the tree, for linked trees, their
\* Fix form, and fringe trees with their empty parts.  The two depth algebras
\* of arena_tree_layout.cpp:64-76 answer the same.
ShapeAndDepth ==
  /\ \A r \in Received({"shape", "node_shape"}) :
       LET t     == IF calls[1].call.op = "unfold_node" THEN calls[1].result ELSE Origin
           order == Ordered(t, InOrder)
       IN  Nested(r) = [k \in DOMAIN order |-> <<ElementAt(t, order[k]), Len(order[k]) + 1>>]
  /\ \A r \in Received({"fringe_shape"}) :
       LET order == SelectSeq(Ordered(Origin, PreOrder), LAMBDA p : Subtree(Origin, p).alt # "branch")
       IN  Nested(r) = [k \in DOMAIN order |-> <<ElementAt(Origin, order[k]), Len(order[k])>>]
  /\ \A r \in Received({"depth_linked", "depth_arena"}) :
       r = IF Origin = NoTree THEN 0 ELSE Depth(Origin)

\* fold_left, a fold_map whose monoid is composition of functions, feeds the
\* elements to its step from left to right whatever the bracketing: to_vector
\* is the sequence and reversed its reverse
\* (sequence_algorithms.cpp:95-131, 182-191).
LeftFolds ==
  /\ \A r \in Received({"fold_left"}) : ToVector(r) = Reading(Origin, PreOrder)
  /\ \A r \in Received({"fold_map_reversed"}) : r = Reverse(Reading(Origin, PreOrder))

\* As long as hashes of different subtrees differ, the table counts every
\* subexpression as often as it occurs, and says what it reads as
\* (cofree_annotations.cpp:102-128, 144-168).
CommonSubexpressions ==
  \A r \in Received({"gather"}) :
    LET subtrees == {Subtree(Origin, p) : p \in Positions(Origin)}
        places(s) == {p \in Positions(Origin) : Subtree(Origin, p) = s}
        counts   == Counts(r)
    IN  /\ Cardinality(DOMAIN counts) = Cardinality(subtrees)
        /\ {counts[h] : h \in DOMAIN counts} = {[seen |-> Cardinality(places(s)), text |-> s] : s \in subtrees}

\* "tag-seeded, so a sum and a product never collide"
\* (cofree_annotations.cpp:70).
TagsSeparate ==
  \A r \in Received({"gather"}) : \A i, j \in DOMAIN r :
    r[i].text.alt = "add" /\ r[j].text.alt = "mul" => r[i].hash # r[j].hash

\* An effectful traversal gives the whole tree or nothing: validate the tree
\* it was given exactly if every element passes, transform_if_large the tree
\* of the mapped elements, in their places, exactly if the tree has enough of
\* them, and otherwise the empty optional (expression_algorithms.cpp:49-98,
\* 116-172).
AllOrNothing ==
  /\ \A r \in Received({"validate"}) :
       r = IF \A p \in Leaves(Origin) : Large[ElementAt(Origin, p)] THEN Origin ELSE Nullopt
  /\ \A r \in Transformed :
       IF Cardinality(Leaves(Origin)) < MinSize THEN r = Nullopt
       ELSE /\ r # Nullopt
            /\ Positions(r) = Positions(Origin)
            /\ \A p \in Positions(Origin) :
                 /\ Subtree(r, p).alt = Subtree(Origin, p).alt
                 /\ p \in Leaves(Origin) => ElementAt(r, p) = Tenfold[ElementAt(Origin, p)]

\* The value of an expression multiplied out: the sum of the products of the
\* leaves that a choice of one operand at every sum, and both at every
\* product, leaves standing.
MultipliedOut(t) ==
  LET chosen(leaves, p) == \E q \in leaves : IsPrefix(p, q)
      isTerm(leaves) ==
        \A p \in Positions(t) \ Leaves(t) : chosen(leaves, p) =>
          LET l == chosen(leaves, p \o <<1>>)
              r == chosen(leaves, p \o <<2>>)
          IN  IF Subtree(t, p).alt = "add" THEN l # r ELSE l /\ r
      product(leaves) == FoldFunctionOnSet(LAMBDA a, b : a * b, 1, [p \in leaves |-> ElementAt(t, p)], leaves)
  IN  MapThenSumSet(product, {leaves \in SUBSET Leaves(t) : leaves # {} /\ isTerm(leaves)})

\* eval interprets each alternative, which an elementwise fold cannot
\* (expression.hpp:140-165).
Evaluation == \A r \in Received({"eval"}) : r = MultipliedOut(Origin)
=============================================================================
