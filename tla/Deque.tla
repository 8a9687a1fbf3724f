------------------------------- MODULE Deque -------------------------------
(***************************************************************************)
(* The quotient contract of a sequence representation (fringe_tree.hpp:    *)
(* 183-193): registers hold sequences, and all a client can observe of     *)
(* them is what the views and the queries answer.  The shape of the tree   *)
(* behind a sequence is not part of it.  A view is asked for and answered  *)
(* later, and nothing else happens to the registers in between.            *)
(***************************************************************************)
EXTENDS Naturals, Sequences

CONSTANTS Register, Value,
          MaxLength        \* bound on the sequences clients build

VARIABLES seq,        \* Register -> Seq(Value)
          pending,    \* the view that is asked for, or NoView
          answer      \* what the last operation answered, None from a constructor

vars == <<seq, pending, answer>>

NoView == [side |-> "none"]
None == <<>>               \* std::nullopt
Some(v) == <<v>>

Init == seq = [x \in Register |-> <<>>] /\ pending = NoView /\ answer = None

Update(x, s) ==
  /\ pending = NoView
  /\ Len(s) <= MaxLength
  /\ seq' = [seq EXCEPT ![x] = s]
  /\ answer' = None
  /\ UNCHANGED pending

Clear(x) == Update(x, <<>>)
Single(x, v) == Update(x, <<v>>)
Concat(x, y, z) == Update(x, seq[y] \o seq[z])
Cons(x, v, y) == Update(x, <<v>> \o seq[y])
Snoc(x, y, v) == Update(x, seq[y] \o <<v>>)

Measure(y) == pending = NoView /\ answer' = Some(Len(seq[y])) /\ UNCHANGED <<seq, pending>>

\* A client decomposes y at its left or right end; the rest is to go to x.
AskView(side, x, y) ==
  /\ pending = NoView
  /\ pending' = [side |-> side, dst |-> x, src |-> y]
  /\ UNCHANGED <<seq, answer>>

\* The view answers: the element `end` and the sequence `rest`.
Answer(side, end, rest) ==
  /\ pending.side = side
  /\ pending' = NoView
  /\ answer' = Some(end)
  /\ seq' = [seq EXCEPT ![pending.dst] = rest]

Viewed == seq[pending.src]

ViewL == pending # NoView /\ Viewed # <<>> /\ Answer("left", Head(Viewed), Tail(Viewed))

ViewR ==
  /\ pending # NoView /\ Viewed # <<>>
  /\ LET n == Len(Viewed) IN Answer("right", Viewed[n], SubSeq(Viewed, 1, n - 1))

\* Exactly the empty sequence has no view.
ViewNothing ==
  /\ pending # NoView /\ Viewed = <<>>
  /\ pending' = NoView
  /\ answer' = None
  /\ UNCHANGED seq

Next == \/ ViewL \/ ViewR \/ ViewNothing
        \/ \E x \in Register :
             \/ Clear(x)
             \/ Measure(x)
             \/ \E v \in Value : Single(x, v)
             \/ \E y \in Register, side \in {"left", "right"} : AskView(side, x, y)
             \/ \E y \in Register, v \in Value : Cons(x, v, y) \/ Snoc(x, y, v)
             \/ \E y, z \in Register : Concat(x, y, z)

Spec == Init /\ [][Next]_vars
=============================================================================
