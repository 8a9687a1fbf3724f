---------------------------- MODULE OwnershipMC -----------------------------
(***************************************************************************)
(* The four classes that own memory, on a memory of a few nodes; `class`   *)
(* says which of them the clients use.  Box and SwapBox have the variables *)
(* of Box, BinaryTree and FringeTree those of SharedHeap; the others stay  *)
(* at their initial values, of which all properties hold.                  *)
(***************************************************************************)
EXTENDS SwapBox, SharedHeap, TLC

CONSTANTS Classes,
          BinaryBlock     \* bound: the memory for BinaryTree

ASSUME BinaryBlock \subseteq Block

VARIABLE class

Binary == INSTANCE SharedTree WITH Block <- BinaryBlock
Fringe == INSTANCE SharedFringe

MCInit == Init /\ SharedInit /\ class \in Classes

MCNext ==
  \/ /\ \/ class = "Box" /\ Next
        \/ class = "SwapBox" /\ SwapNext
     /\ UNCHANGED <<sharedVars, class>>
  \/ /\ \/ class = "BinaryTree" /\ Binary!BinaryNext
        \/ class = "FringeTree" /\ Fringe!FringeNext
     /\ UNCHANGED <<vars, class>>

MCSpec == MCInit /\ [][MCNext]_<<vars, sharedVars, class>>

\* Variables and values are interchangeable; addresses are not, as the next
\* free one is chosen.
Interchangeable == Permutations(Register) \cup Permutations(Value)
=============================================================================
