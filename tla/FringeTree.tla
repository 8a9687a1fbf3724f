----------------------------- MODULE FringeTree -----------------------------
(***************************************************************************)
(* fringe_tree.hpp: a sequence as a binary tree with the values at its     *)
(* leaves and the number of leaves cached at every branch.                 *)
(*                                                                         *)
(* A tree is immutable and shares its subtrees through shared_ptr, so a    *)
(* tree is a value here and sharing cannot be seen.  The constructors are  *)
(* one step; view_l and view_r, which are recursive, run frame by frame.   *)
(***************************************************************************)
EXTENDS Naturals, Sequences

CONSTANTS Register,        \* the clients' variables of type FringeTree<T>
          Value,           \* T
          Fits(_),         \* bound: the trees clients build (all, in the code)
          MaxLength        \* bound: the sequences they build

VARIABLES tree,       \* Register -> tree
          call,       \* the running view, or NoCall
          answer,     \* what the last operation answered, <<>> from a constructor
          seq         \* history: Register -> the sequence the client built

vars == <<tree, call, answer, seq>>

-----------------------------------------------------------------------------
(* The class: Empty, Leaf and Branch alternatives of the variant. *)

Empty == [kind |-> "empty"]
Leaf(v) == [kind |-> "leaf", value |-> v]

IsEmpty(t) == t.kind = "empty"
IsLeaf(t) == t.kind = "leaf"
IsBranch(t) == t.kind = "branch"

Measure(t) == IF IsEmpty(t) THEN 0 ELSE IF IsLeaf(t) THEN 1 ELSE t.measure

\* (a mutant) The cached count leaves out the right subtree's.
BranchUncounted(l, r) ==
  [kind |-> "branch", measure |-> Measure(l) + 1, left |-> l, right |-> r]

Branch(l, r) ==
  [kind |-> "branch", measure |-> Measure(l) + Measure(r), left |-> l, right |-> r]

\* (a mutant) The identity cases exchanged.
JoinDropping(l, r) ==
  IF IsEmpty(l) THEN l ELSE IF IsEmpty(r) THEN r ELSE Branch(l, r)

\* FringeTree::concat; empty operands are identities.
Join(l, r) == IF IsEmpty(l) THEN r ELSE IF IsEmpty(r) THEN l ELSE Branch(l, r)

-----------------------------------------------------------------------------
(* A view in progress: the branches whose near child is being viewed, the    *)
(* outermost first, and the argument or the result of the innermost call.    *)

NoCall == [phase |-> "none"]

Calling(side, x, y, frames, t) ==
  [phase |-> "call", side |-> side, dst |-> x, src |-> y, frames |-> frames, arg |-> t]

\* `end` is the optional end element, `rest` the rest if there is one.
Returning(c, frames, end, rest) ==
  [phase |-> "return", side |-> c.side, dst |-> c.dst, src |-> c.src,
   frames |-> frames, end |-> end, rest |-> rest]

\* The subtree a view at `side` looks into first, and the other one.
Near(side, t) == IF side = "left" THEN t.left ELSE t.right
Far(side, t) == IF side = "left" THEN t.right ELSE t.left

\* (a mutant) An empty rest stays in the tree.
RejoinBranching(side, near, far) == IF side = "left" THEN Branch(near, far) ELSE Branch(far, near)

\* A tree from what is left of its near part and its far part.
Rejoin(side, near, far) == IF side = "left" THEN Join(near, far) ELSE Join(far, near)

Innermost(c) == c.frames[Len(c.frames)]
Popped(c) == SubSeq(c.frames, 1, Len(c.frames) - 1)

-----------------------------------------------------------------------------
Init == /\ tree = [x \in Register |-> Empty]
        /\ call = NoCall
        /\ answer = <<>>
        /\ seq = [x \in Register |-> <<>>]

\* Register x receives tree t for sequence s.
Build(x, t, s) ==
  /\ call = NoCall
  /\ Fits(t) /\ Len(s) <= MaxLength
  /\ tree' = [tree EXCEPT ![x] = t]
  /\ seq' = [seq EXCEPT ![x] = s]
  /\ answer' = <<>>
  /\ UNCHANGED call

MakeEmpty(x) == Build(x, Empty, <<>>)
MakeLeaf(x, v) == Build(x, Leaf(v), <<v>>)

\* branch joins any two trees: nothing keeps its operands from being empty,
\* and the embedding of unfold_with calls it on what a coalgebra produced.
MakeBranch(x, y, z) == Build(x, Branch(tree[y], tree[z]), seq[y] \o seq[z])

Concat(x, y, z) == Build(x, Join(tree[y], tree[z]), seq[y] \o seq[z])
Cons(x, v, y) == Build(x, Join(Leaf(v), tree[y]), <<v>> \o seq[y])
Snoc(x, y, v) == Build(x, Join(tree[y], Leaf(v)), seq[y] \o <<v>>)

AskMeasure(y) ==
  /\ call = NoCall
  /\ answer' = <<Measure(tree[y])>>
  /\ UNCHANGED <<tree, call, seq>>

\* x receives the rest of view_l(y) or view_r(y), if there is one.
StartView(side, x, y) ==
  /\ call = NoCall
  /\ call' = Calling(side, x, y, <<>>, tree[y])
  /\ UNCHANGED <<tree, answer, seq>>

\* The body up to its first recursive call.
ViewCall ==
  /\ call.phase = "call"
  /\ call' = IF IsEmpty(call.arg) THEN Returning(call, call.frames, <<>>, Empty)
             ELSE IF IsLeaf(call.arg)
             THEN Returning(call, call.frames, <<call.arg.value>>, Empty)
             ELSE Calling(call.side, call.dst, call.src,
                          Append(call.frames, call.arg), Near(call.side, call.arg))
  /\ UNCHANGED <<tree, answer, seq>>

\* (a mutant) An empty near child is taken for an empty tree.
ViewReturnGivesUp ==
  /\ call.phase = "return"
  /\ call.frames # <<>>
  /\ LET far == Far(call.side, Innermost(call))
     IN  call' = Returning(call, Popped(call), call.end,
                           Rejoin(call.side, call.rest, far))
  /\ UNCHANGED <<tree, answer, seq>>

\* (a mutant) The innermost frame is viewed again and again.
ViewReturnLoops ==
  /\ call.phase = "return"
  /\ call.frames # <<>>
  /\ call' = IF call.end = <<>>
             THEN Calling(call.side, call.dst, call.src, call.frames,
                          Near(call.side, Innermost(call)))
             ELSE Returning(call, Popped(call), call.end,
                            Rejoin(call.side, call.rest,
                                   Far(call.side, Innermost(call))))
  /\ UNCHANGED <<tree, answer, seq>>

\* The body after it: with no end element in the near child the far one is
\* viewed in its place, else the far child joins the rest.
ViewReturn ==
  /\ call.phase = "return"
  /\ call.frames # <<>>
  /\ LET far == Far(call.side, Innermost(call))
     IN  call' = IF call.end = <<>>
                 THEN Calling(call.side, call.dst, call.src, Popped(call), far)
                 ELSE Returning(call, Popped(call), call.end,
                                Rejoin(call.side, call.rest, far))
  /\ UNCHANGED <<tree, answer, seq>>

\* The sequence y holds without the element at its end.
Shortened(side, s) ==
  IF side = "left" THEN SubSeq(s, 2, Len(s)) ELSE SubSeq(s, 1, Len(s) - 1)

\* The outermost call returns to the client.
ViewDone ==
  /\ call.phase = "return"
  /\ call.frames = <<>>
  /\ answer' = call.end
  /\ IF call.end = <<>>
     THEN UNCHANGED <<tree, seq>>
     ELSE /\ tree' = [tree EXCEPT ![call.dst] = call.rest]
          /\ seq' = [seq EXCEPT ![call.dst] = Shortened(call.side, seq[call.src])]
  /\ call' = NoCall

View == ViewCall \/ ViewReturn \/ ViewDone

Next ==
  \/ \E x \in Register :
       \/ MakeEmpty(x)
       \/ AskMeasure(x)
       \/ \E v \in Value : MakeLeaf(x, v)
       \/ \E y \in Register, v \in Value : Cons(x, v, y) \/ Snoc(x, y, v)
       \/ \E y, z \in Register : MakeBranch(x, y, z) \/ Concat(x, y, z)
       \/ \E y \in Register, side \in {"left", "right"} : StartView(side, x, y)
  \/ View

\* A view that has started keeps running: it is one synchronous call.
Spec == Init /\ [][Next]_vars /\ WF_vars(View)

-----------------------------------------------------------------------------
\* Every answer a client gets, from views at either end and from the cached
\* measure, is the one the sequence gives, whatever shapes concat, branch and
\* earlier views have left (fringe_tree.hpp:87-161 and 204-238).
Contract == INSTANCE Deque WITH
              pending <- IF call = NoCall THEN [side |-> "none"]
                         ELSE [side |-> call.side, dst |-> call.dst, src |-> call.src]
ImplementsDeque == Contract!Spec

\* A view answers (fringe_tree.hpp:208-221, 225-238).
ViewReturns == (call # NoCall) ~> (call = NoCall)

-----------------------------------------------------------------------------
\* The children of the branches in S.
Kids(S) == LET B == {u \in S : IsBranch(u)}
           IN  {u.left : u \in B} \cup {u.right : u \in B}

\* The parts of t that lie n links below its root.
Level(t, n) ==
  LET level[k \in 0..n] == IF k = 0 THEN {t} ELSE Kids(level[k - 1])
  IN  level[n]

\* All parts of t.
Nodes(t) ==
  LET below[n \in Nat] == IF Level(t, n) = {} THEN {} ELSE Level(t, n) \cup below[n + 1]
  IN  below[0]

\* FringeTree::flatten.
Flatten(t) ==
  LET flatten[u \in Nodes(t)] ==
        IF IsEmpty(u) THEN <<>>
        ELSE IF IsLeaf(u) THEN <<u.value>>
        ELSE flatten[u.left] \o flatten[u.right]
  IN  flatten[t]

\* The values of every tree, in order, are the sequence its client built, and
\* every branch in it, at any depth, caches the number of the values below it
\* (fringe_tree.hpp:50, 132-144).
Represents ==
  \A x \in Register :
    /\ Flatten(tree[x]) = seq[x]
    /\ \A u \in Nodes(tree[x]) : IsBranch(u) => u.measure = Len(Flatten(u))

Compact(t) == \A u \in Nodes(t) : IsBranch(u) => ~IsEmpty(u.left) /\ ~IsEmpty(u.right)

\* Only branch() on an empty operand brings an empty part into a tree: concat,
\* cons, snoc, and views at either end in whatever order keep trees compact.
\* The recursion of views, flatten and folds is then never deeper than the
\* sequence is long, however long a program runs, and no lower bound can be
\* had, as nothing rebalances (fringe_tree.hpp:146-170, 208-238).
StaysCompact ==
  [][\A x \in Register :
       \/ Compact(tree'[x])
       \/ \E y \in Register : ~Compact(tree[y])
       \/ \E y, z \in Register : /\ Empty \in {tree[y], tree[z]}
                                 /\ tree'[x] = Branch(tree[y], tree[z])]_vars
=============================================================================
