------------------------- MODULE SequenceAlgorithms -------------------------
(***************************************************************************)
(* examples/sequence_algorithms.cpp: clients of the left view of FringeTree*)
(* that never look at the shape of a tree.  One program compares two trees *)
(* with sequence_equal.  The other reads a tree element by element through *)
(* view_l, builds the sequence again, by snoc or by cons, and compares the *)
(* result with the tree.                                                   *)
(*                                                                         *)
(* The trees a and b of sequence_equal are passed by value; va and vb are  *)
(* the rests of the views it holds.                                        *)
(***************************************************************************)
EXTENDS Naturals, Sequences

CONSTANTS Value,
          Inputs,        \* the trees clients compare, as [tree, seq] pairs
          WalkInputs,    \* the trees they read and build again
          MaxLength      \* bound: elements of such a tree

VARIABLES tree, call, answer, seq,   \* of FringeTree
          pc,                        \* the next statement
          acc,                       \* the elements read
          built,                     \* how many of them are built in again
          first,                     \* va->d_value, <<>> if va is disengaged
          given,                     \* the trees the program started from
          result                     \* what sequence_equal returned

vars == <<tree, call, answer, seq, pc, acc, built, first, given, result>>

Local == {"a", "b", "va", "vb"}

Fringe == INSTANCE FringeTree WITH
            Register <- Local, Fits <- LAMBDA t : TRUE

\* a and b hold the given trees.
Given(f, field) == [f EXCEPT !["a"] = given["a"][field], !["b"] = given["b"][field]]

Init ==
  /\ \/ pc = "view_a" /\ given \in [{"a", "b"} -> Inputs]
     \/ pc = "walk" /\ given \in {[r \in {"a", "b"} |-> t] : t \in WalkInputs}
  /\ tree = Given([r \in Local |-> Fringe!Empty], "tree")
  /\ seq = Given([r \in Local |-> <<>>], "seq")
  /\ call = Fringe!NoCall /\ answer = <<>>
  /\ acc = <<>> /\ built = 0 /\ first = <<>> /\ result = "none"

-----------------------------------------------------------------------------
(* The view walk, while (auto v = view_l(t)), with a for t; then the build. *)

WalkView ==
  /\ pc = "walk"
  /\ Fringe!StartView("left", "va", "a")
  /\ pc' = "walked"
  /\ UNCHANGED <<acc, built, first, given, result>>

\* The element is appended to what has been read, and the rest is next.
WalkOn ==
  /\ pc = "walked" /\ call = Fringe!NoCall /\ answer # <<>>
  /\ acc' = acc \o answer
  /\ tree' = [tree EXCEPT !["a"] = tree["va"]]
  /\ seq' = [seq EXCEPT !["a"] = seq["va"]]
  /\ pc' = "walk"
  /\ UNCHANGED <<call, answer, built, first, given, result>>

\* The walk is over; the build starts from the empty tree.
WalkEnd ==
  /\ pc = "walked" /\ call = Fringe!NoCall /\ answer = <<>>
  /\ Fringe!MakeEmpty("b")
  /\ pc' \in {"from_range", "by_cons"}
  /\ UNCHANGED <<acc, built, first, given, result>>

\* from_range: the next element at the right end.
BuildSnoc ==
  /\ pc = "from_range" /\ built < Len(acc)
  /\ Fringe!Snoc("b", "b", acc[built + 1])
  /\ built' = built + 1
  /\ UNCHANGED <<pc, acc, first, given, result>>

\* cons(1, cons(2, ...)): the last element first.
BuildCons ==
  /\ pc = "by_cons" /\ built < Len(acc)
  /\ Fringe!Cons("b", acc[Len(acc) - built], "b")
  /\ built' = built + 1
  /\ UNCHANGED <<pc, acc, first, given, result>>

\* sequence_equal(t, out), where t is still what it was.
CompareBuilt ==
  /\ pc \in {"from_range", "by_cons"} /\ built = Len(acc)
  /\ tree' = [tree EXCEPT !["a"] = given["a"].tree]
  /\ seq' = [seq EXCEPT !["a"] = given["a"].seq]
  /\ pc' = "view_a"
  /\ UNCHANGED <<call, answer, acc, built, first, given, result>>

-----------------------------------------------------------------------------
(* sequence_equal *)

\* va = view_l(a)
ViewA ==
  /\ pc = "view_a"
  /\ Fringe!StartView("left", "va", "a")
  /\ pc' = "view_b"
  /\ UNCHANGED <<acc, built, first, given, result>>

\* vb = view_l(b)
ViewB ==
  /\ pc = "view_b" /\ call = Fringe!NoCall
  /\ first' = answer
  /\ Fringe!StartView("left", "vb", "b")
  /\ pc' = "compare"
  /\ UNCHANGED <<acc, built, given, result>>

\* (a mutant) A sequence that runs out equals every other.
VerdictPrefix(va, vb) ==
  IF va = <<>> \/ vb = <<>> THEN "equal" ELSE IF va # vb THEN "different" ELSE "none"

\* What the loop returns after both views, if it does.
Verdict(va, vb) ==
  IF va = <<>> \/ vb = <<>> THEN IF va = vb THEN "equal" ELSE "different"
  ELSE IF va # vb THEN "different" ELSE "none"

\* (mutants) The loop goes round without the rests, or with that of b only.
Stay(f) == f
AdvanceB(f) == [f EXCEPT !["b"] = f["vb"]]

\* a and b move on to the rests.
Advance(f) == [f EXCEPT !["a"] = f["va"], !["b"] = f["vb"]]

Compare ==
  /\ pc = "compare" /\ call = Fringe!NoCall
  /\ result' = Verdict(first, answer)
  /\ IF result' = "none"
     THEN pc' = "view_a" /\ tree' = Advance(tree) /\ seq' = Advance(seq)
     ELSE pc' = "done" /\ UNCHANGED <<tree, seq>>
  /\ UNCHANGED <<call, answer, acc, built, first, given>>

-----------------------------------------------------------------------------
RunView == Fringe!View /\ UNCHANGED <<pc, acc, built, first, given, result>>

Next == \/ WalkView \/ WalkOn \/ WalkEnd \/ BuildSnoc \/ BuildCons \/ CompareBuilt
        \/ ViewA \/ ViewB \/ Compare
        \/ RunView

\* One synchronous program.
Spec == Init /\ [][Next]_vars /\ WF_vars(Next)

-----------------------------------------------------------------------------
\* "Equality on the quotient: same sequence, shapes never consulted"
\* (sequence_algorithms.cpp:133): trees of whatever shapes, with empty
\* subtrees anywhere, are equal exactly if their sequences are.  A tree built
\* again from its elements, from either end, is equal to it
\* (sequence_algorithms.cpp:180).
Quotient ==
  /\ result = "equal" => given["a"].seq = given["b"].seq
  /\ result = "different" => given["a"].seq # given["b"].seq

\* However the views rearrange the trees, the loop has taken the same elements
\* off both sides, one per round (sequence_algorithms.cpp:134-148).
InStep ==
  pc \in {"view_a", "view_b", "compare", "done"} =>
    \E n \in 0..Len(given["a"].seq) :
      /\ n <= Len(given["b"].seq)
      /\ SubSeq(given["a"].seq, 1, n) = SubSeq(given["b"].seq, 1, n)
      /\ \A r \in {"a", "b"} : seq[r] = SubSeq(given[r].seq, n + 1, Len(given[r].seq))

\* The view walk reads the sequence, the whole of it, each element once and
\* from left to right: "they must agree" with the fold over the structure
\* (sequence_algorithms.cpp:193-216).
WalkReads == pc \in {"from_range", "by_cons"} => acc = given["a"].seq

\* The loops end, as each round makes the sequences shorter
\* (sequence_algorithms.cpp:134-148, 204-211).
Returns == <>(result # "none")
=============================================================================
