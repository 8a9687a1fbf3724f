------------------------------- MODULE KeySet -------------------------------
(***************************************************************************)
(* What the search tree of search_tree_on_fix.cpp promises: a set of keys. *)
(***************************************************************************)
CONSTANT Key

VARIABLES set,        \* the keys in the tree
          pending,    \* the operation that is asked for, or NoOperation
          answer      \* what the last completed operation answered

vars == <<set, pending, answer>>

NoOperation == [op |-> "none"]
Nothing == <<>>     \* from insert and erase

Init == set = {} /\ pending = NoOperation /\ answer = Nothing

Ask(op, v) ==
  /\ pending = NoOperation
  /\ pending' = [op |-> op, key |-> v]
  /\ UNCHANGED <<set, answer>>

\* The pending operation op is done: s is the set now, and a its answer.
Done(op, s, a) ==
  /\ pending.op = op
  /\ pending' = NoOperation
  /\ set' = s
  /\ answer' = a

Insert == Done("insert", set \cup {pending.key}, Nothing)
Erase == Done("erase", set \ {pending.key}, Nothing)
Contains == Done("contains", set, <<pending.key \in set>>)

Next == \/ Insert \/ Erase \/ Contains
        \/ \E op \in {"insert", "erase", "contains"}, v \in Key : Ask(op, v)

Spec == Init /\ [][Next]_vars
=============================================================================
