------------------------------- MODULE Refold -------------------------------
(***************************************************************************)
(* The recursion verbs of recursion_schemes.hpp as the call-stack machine  *)
(* they compile to.  refold, fold_fix, unfold_fix, fold_with and           *)
(* unfold_with share one body: get a layer (coalgebra, unwrap_fix,         *)
(* project), recurse on every engaged child slot from left to right        *)
(* through fmap, hand the evaluated layer to the algebra (or wrap_fix,     *)
(* embed).  The verbs differ only in the two callables, the constants      *)
(* Coalgebra and Algebra here.                                             *)
(*                                                                         *)
(* A frame of `stack` is one activation record: the layer its coalgebra    *)
(* returned and the child slots fmap has evaluated so far.                 *)
(***************************************************************************)
EXTENDS Naturals, Sequences

CONSTANTS Seed,             \* what the verb recurses on: seeds, handles, Fix nodes
          Value,            \* the part of a layer that holds no child
          Result,           \* the carrier of the fold
          Absent,           \* the content of a disengaged child slot
          Coalgebra(_),     \* Seed -> layer
          Algebra(_, _),    \* value and evaluated slots -> Result
          Meaning,          \* a solution of the fold equation (see below)
          Agenda            \* a solution of the order equations (see below)

Layer == [value : Value, slots : Seq(Seed \cup {Absent})]

ASSUME AbsentAssumption == Absent \notin Seed /\ Absent \notin Result

ASSUME CoalgebraAssumption == \A s \in Seed : Coalgebra(s) \in Layer

\* The layers an algebra can be given: one slot per slot of a layer of the
\* coalgebra, with a result exactly where that layer has a child.
Evaluated(layer) ==
  {e \in [1..Len(layer.slots) -> Result \cup {Absent}] :
      \A i \in 1..Len(layer.slots) : e[i] = Absent <=> layer.slots[i] = Absent}

ASSUME AlgebraAssumption ==
  \A s \in Seed : \A e \in Evaluated(Coalgebra(s)) :
      Algebra(Coalgebra(s).value, e) \in Result

\* The evaluated form of one slot under Meaning: absent children stay absent.
SlotMeaning(slot) == IF slot = Absent THEN Absent ELSE Meaning[slot]

\* Meaning is any function that solves the defining equation of the verb,
\* result(s) = algebra(fmap(result, coalgebra(s))).
ASSUME MeaningAssumption ==
  /\ Meaning \in [Seed -> Result]
  /\ \A s \in Seed :
       LET layer == Coalgebra(s)
       IN  Meaning[s] = Algebra(layer.value,
                                [i \in 1..Len(layer.slots) |-> SlotMeaning(layer.slots[i])])

VARIABLES root,       \* the argument of the outermost call, Absent before it
          stack,      \* the activation records, outermost first
          outcome,    \* what the outermost call returned, Absent until then
          trace       \* history: the callables invoked, in order

vars == <<root, stack, outcome, trace>>

Frame == [seed : Seed, layer : Layer, done : Seq(Result \cup {Absent})]

TypeOK == /\ root \in Seed \cup {Absent}
          /\ stack \in Seq(Frame)
          /\ outcome \in Result \cup {Absent}
          /\ trace \in Seq({"coalgebra", "algebra"} \X Seed)

\* Entering the verb: the first thing the body does is to ask for a layer.
NewFrame(s) == [seed |-> s, layer |-> Coalgebra(s), done |-> <<>>]

Top == stack[Len(stack)]
Rest == SubSeq(stack, 1, Len(stack) - 1)

\* (a mutant) The slots visited from right to left.
NextSlotFromRight(f) == f.layer.slots[Len(f.layer.slots) - Len(f.done)]

\* The slot fmap visits next in frame f; fmap goes from left to right.
NextSlot(f) == f.layer.slots[Len(f.done) + 1]
Exhausted(f) == Len(f.done) = Len(f.layer.slots)

\* (mutants) A result put in front of the earlier ones, or in their place.
StoreInFront(frames, r) ==
  [frames EXCEPT ![Len(frames)].done = <<r>> \o @]

StoreAlone(frames, r) ==
  [frames EXCEPT ![Len(frames)].done = r]

\* Frames `frames` after their innermost call stored `r` in its next slot.
Store(frames, r) ==
  [frames EXCEPT ![Len(frames)].done = Append(@, r)]

-----------------------------------------------------------------------------
Init == /\ root = Absent
        /\ stack = <<>>
        /\ outcome = Absent
        /\ trace = <<>>

\* A client calls the verb on s.
Invoke(s) ==
  /\ root = Absent
  /\ root' = s
  /\ stack' = <<NewFrame(s)>>
  /\ trace' = Append(trace, <<"coalgebra", s>>)
  /\ UNCHANGED outcome

\* fmap reaches an engaged slot and calls back into the verb.
Descend ==
  /\ stack # <<>>
  /\ ~Exhausted(Top)
  /\ NextSlot(Top) # Absent
  /\ stack' = Append(stack, NewFrame(NextSlot(Top)))
  /\ trace' = Append(trace, <<"coalgebra", NextSlot(Top)>>)
  /\ UNCHANGED <<root, outcome>>

\* (a mutant) The loop over the slots does not move past a disengaged one.
PassAbsentStuck ==
  /\ stack # <<>>
  /\ ~Exhausted(Top)
  /\ NextSlot(Top) = Absent
  /\ UNCHANGED vars

\* (a mutant) The layer loses its disengaged slot, so later slots shift.
PassAbsentDropped ==
  /\ stack # <<>>
  /\ ~Exhausted(Top)
  /\ NextSlot(Top) = Absent
  /\ stack' = [stack EXCEPT ![Len(stack)].layer.slots =
                 SelectSeq(@, LAMBDA slot : slot # Absent)]
  /\ UNCHANGED <<root, outcome, trace>>

\* fmap reaches a disengaged slot and leaves it disengaged.
PassAbsent ==
  /\ stack # <<>>
  /\ ~Exhausted(Top)
  /\ NextSlot(Top) = Absent
  /\ stack' = Store(stack, Absent)
  /\ UNCHANGED <<root, outcome, trace>>

\* Every slot is evaluated: the algebra combines the layer and the call
\* returns, into the caller's fmap or to the client.
Return ==
  /\ stack # <<>>
  /\ Exhausted(Top)
  /\ trace' = Append(trace, <<"algebra", Top.seed>>)
  /\ LET r == Algebra(Top.layer.value, Top.done)
     IN  IF Len(stack) = 1
         THEN stack' = <<>> /\ outcome' = r
         ELSE stack' = Store(Rest, r) /\ UNCHANGED outcome
  /\ UNCHANGED root

Next == \/ \E s \in Seed : Invoke(s)
        \/ Descend
        \/ PassAbsent
        \/ Return

\* A running call keeps running: the verbs are ordinary synchronous code.
\* Whether a client calls at all is its own affair.
Fairness == WF_vars(Descend \/ PassAbsent \/ Return)

Spec == Init /\ [][Next]_vars /\ Fairness

-----------------------------------------------------------------------------
\* The results already stored in a live frame are those of its own slots, in
\* slot order.
FrameResults(f) ==
  /\ Len(f.done) <= Len(f.layer.slots)
  /\ \A i \in 1..Len(f.done) : f.done[i] = SlotMeaning(f.layer.slots[i])

\* Every frame evaluates a layer of its own seed, inner frames evaluate the
\* slot their caller's fmap has reached, and no result lands in a wrong frame
\* or slot, however calls, absent slots and returns alternate
\* (recursion_schemes.hpp:83-86 with the fmap of binary_tree.hpp:182-189).
StackConsistent ==
  /\ \A n \in 1..Len(stack) : /\ stack[n].layer = Coalgebra(stack[n].seed)
                              /\ FrameResults(stack[n])
  /\ \A n \in 1..Len(stack) - 1 : /\ ~Exhausted(stack[n])
                                  /\ NextSlot(stack[n]) = stack[n + 1].seed
  /\ stack # <<>> => stack[1].seed = root /\ outcome = Absent

\* The calls of a recursion on s that goes left to right: its layer, then what
\* Agenda[s][0] says.
AllCalls(s) == <<<<"coalgebra", s>>>> \o Agenda[s][0]

\* Agenda[s][i] is what a call on s has yet to call when it has passed i slots:
\* all the calls on the children in the other slots, and at last the algebra.
AgendaSolves ==
  \A s \in Seed :
    LET slots == Coalgebra(s).slots
    IN  /\ \A i \in 0..Len(slots) : Agenda[s][i] \in Seq({"coalgebra", "algebra"} \X Seed)
        /\ Agenda[s][Len(slots)] = <<<<"algebra", s>>>>
        /\ \A i \in 1..Len(slots) :
             Agenda[s][i - 1] = IF slots[i] = Absent THEN Agenda[s][i]
                                ELSE AllCalls(slots[i]) \o Agenda[s][i]

\* The callables run in that order and no others run: every position once,
\* children before their parent, left before right, absent slots never.  An
\* order-sensitive algebra may rely on it (recursion_schemes.hpp:83-86, the
\* fmap of binary_tree.hpp:182-189 and rose_tree.hpp:97-105).
EvaluationOrder ==
  root # Absent =>
    /\ Len(trace) <= Len(AllCalls(root))
    /\ trace = SubSeq(AllCalls(root), 1, Len(trace))
    /\ outcome # Absent <=> trace = AllCalls(root)

\* The machine does what the verb promises: its one answer is the solution of
\* the defining equation, for layers of any shape (recursion_schemes.hpp:81-87).
Promise == INSTANCE Verb
ImplementsVerb == Promise!Spec

\* The outermost call returns; a coalgebra that is not well founded would
\* recurse for ever.
Termination == (root # Absent) ~> (outcome # Absent)
=============================================================================
