-------------------------------- MODULE Verb --------------------------------
(***************************************************************************)
(* What a recursion verb promises its caller (recursion_schemes.hpp:31-39, *)
(* 67-74): one call on s answers, once, with the solution of               *)
(*     result(s) = algebra(fmap(result, coalgebra(s)))                     *)
(* and shows nothing of the recursion in between.                          *)
(***************************************************************************)
CONSTANTS Seed, Absent, Meaning

VARIABLES root, outcome

vars == <<root, outcome>>

Init == root = Absent /\ outcome = Absent

Invoke(s) == root = Absent /\ root' = s /\ UNCHANGED outcome

Answer == /\ root # Absent
          /\ outcome = Absent
          /\ outcome' = Meaning[root]
          /\ UNCHANGED root

Next == Answer \/ \E s \in Seed : Invoke(s)

Spec == Init /\ [][Next]_vars
=============================================================================
