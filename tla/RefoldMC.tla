------------------------------ MODULE RefoldMC ------------------------------
(***************************************************************************)
(* The verbs on every small tree: the seeds are the trees themselves, as   *)
(* for fold_fix, so a run covers every shape with up to MaxHeight layers   *)
(* of at most MaxSlots child slots, absent children included.              *)
(***************************************************************************)
EXTENDS Refold, SequencesExt

CONSTANTS MaxHeight,     \* layers of the largest tree
          MaxSlots       \* child slots of the widest layer

Slots(children) ==
  UNION {[1..n -> children \cup {Absent}] : n \in 0..MaxSlots}

\* Trees of at most h layers; the value of a layer is the number of its slots.
TreesUpTo[h \in 0..MaxHeight] ==
  IF h = 0 THEN {}
  ELSE {[value |-> Len(s), slots |-> s] : s \in Slots(TreesUpTo[h - 1])}

Trees == TreesUpTo[MaxHeight]

Unwrap(tree) == tree

\* A combination that tells every position, order and absence apart.
Modulus == 13
SlotWeight(e) == IF e = Absent THEN 7 ELSE e + 1
Hash(value, e) ==
  FoldLeft(LAMBDA acc, x : (5 * acc + SlotWeight(x)) % Modulus, value + 1, e)

Values == 0..MaxSlots
Results == 0..(Modulus - 1)

HashMeaning[t \in Trees] ==
  Hash(t.value, [i \in 1..Len(t.slots) |->
                   IF t.slots[i] = Absent THEN Absent ELSE HashMeaning[t.slots[i]]])

-----------------------------------------------------------------------------
\* The calls a recursion has left on a tree after i slots, by structure.
CallsLeft[t \in Trees] ==
  [i \in 0..Len(t.slots) |->
     FoldLeft(LAMBDA calls, c : IF c = Absent THEN calls
                                ELSE calls \o <<<<"coalgebra", c>>>> \o CallsLeft[c][0],
              <<>>, SubSeq(t.slots, i + 1, Len(t.slots)))
     \o <<<<"algebra", t>>>>]

\* EvaluationOrder is about this order.
ASSUME AgendaAssumption == AgendaSolves
=============================================================================
