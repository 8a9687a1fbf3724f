----------------------------- MODULE VerbClient -----------------------------
(***************************************************************************)
(* A program that calls recursion verbs one after the other, each call     *)
(* possibly on the result of an earlier one: conversions followed by       *)
(* folds, builds followed by folds.  A seed names the verb it is given to, *)
(* so that one machine runs them all.                                      *)
(***************************************************************************)
EXTENDS Naturals, Sequences

CONSTANTS Absent,
          Take(_, _),       \* verb, argument -> layer: its projection or coalgebra
          Make(_, _, _),    \* verb, value, evaluated slots -> result: its algebra or embedding
          NextCalls(_)      \* the calls the program may make after those it has made

VARIABLES root, stack, outcome, trace,   \* the machine of the running verb
          calls                          \* the calls that have returned, with their results

vars == <<root, stack, outcome, trace, calls>>

Call(op, arg) == [op |-> op, arg |-> arg]

TakeLayer(call) ==
  LET layer == Take(call.op, call.arg)
  IN  [value |-> Call(call.op, layer.value),
       slots |-> [i \in DOMAIN layer.slots |->
                    IF layer.slots[i] = Absent THEN Absent ELSE Call(call.op, layer.slots[i])]]

MakeResult(value, e) == Make(value.op, value.arg, e)

Machine == INSTANCE Refold WITH Coalgebra <- TakeLayer, Algebra <- MakeResult,
                                Seed <- {}, Value <- {}, Result <- {}, Meaning <- << >>,
                                Agenda <- << >>

Init == Machine!Init /\ calls = <<>>

Start == /\ root = Absent
         /\ \E call \in NextCalls(calls) : Machine!Invoke(call)
         /\ UNCHANGED calls

Run == (Machine!Descend \/ Machine!PassAbsent \/ Machine!Return) /\ UNCHANGED calls

\* The program receives what the verb returned.
Receive ==
  /\ outcome # Absent
  /\ calls' = Append(calls, [call |-> root, result |-> outcome])
  /\ root' = Absent /\ outcome' = Absent /\ trace' = <<>>
  /\ UNCHANGED stack

Next == Start \/ Run \/ Receive

Spec == Init /\ [][Next]_vars

-----------------------------------------------------------------------------
\* What the program started from, and the result it has just received, as a
\* set, if that is the result of one of the verbs `ops`.
Origin == calls[1].call.arg

Received(ops) ==
  LET n == Len(calls)
  IN  IF root = Absent /\ n > 0 /\ calls[n].call.op \in ops THEN {calls[n].result} ELSE {}
=============================================================================
