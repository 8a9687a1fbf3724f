------------------------------ MODULE SwapBox ------------------------------
(***************************************************************************)
(* examples/fixpoint_tree_example.cpp: the compact Box of the article,     *)
(* whose one assignment operator takes its operand by value and swaps.     *)
(* Everything else is as in Box.  Clients may assign between a tree and a  *)
(* part of it, to a box itself, and copies there may be no room for;       *)
(* SelfMove says whether they move a tree into a part of itself, too.      *)
(***************************************************************************)
EXTENDS Box

CONSTANT SelfMove    \* clients move a tree into a part of itself

ASSUME SelfMoveAssumption == SelfMove \in BOOLEAN

\* d = s.  The copy is made first, so a throw changes nothing; what d held is
\* destroyed last.
CopyAssignBySwap(d, s) ==
  LET q == Ptr(s)
      p == Placement(heap, q)[q]
  IN  /\ Fits(heap, q)
      /\ IF Live(heap, q) /\ Live(heap, Ptr(d))
         THEN /\ heap' = Deleted(Stored(Copied(heap, q), d, p), Ptr(d))
              /\ var' = Named(d, p)
              /\ Given(Gets(d, TreeAt(s)))
              /\ UNCHANGED fault
         ELSE Crash

\* d = std::move(s): s gives its pointer up before d takes it.  Where d is a part
\* of the tree of s, that tree then owns itself and no variable does.
MoveAssignBySwap(d, s) ==
  LET q == Ptr(s)
      h == Stored(Stored(heap, s, Null), d, q)
      old == IF d = s THEN Null ELSE Ptr(d)
  IN  /\ ~SelfMove /\ d \notin Register => d[1] \notin Visited(heap, q)
      /\ IF Live(heap, Ptr(d))
         THEN /\ heap' = Deleted(h, old)
              /\ var' = [x \in Register |-> IF x = d THEN q ELSE Named(s, Null)[x]]
              /\ Given(Takes(d, s, TreeAt(s)))
              /\ UNCHANGED fault
         ELSE Crash

SwapNext ==
  \/ Common
  \/ \E d, s \in Place : CopyAssignBySwap(d, s) \/ MoveAssignBySwap(d, s)
=============================================================================
