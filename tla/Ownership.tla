----------------------------- MODULE Ownership ------------------------------
(***************************************************************************)
(* What the models of classes that own memory have in common: clients'     *)
(* variables and nodes with two children each.  Box and SharedHeap say     *)
(* what a variable holds, and who owns a node.                             *)
(***************************************************************************)
EXTENDS Naturals, FiniteSets, Functions

CONSTANTS Register,        \* the clients' variables
          Value,           \* the part of a node that is not a child
          Null,            \* nullptr, and a variable not in use
          AliasedAssign    \* clients assign to a tree from a part of itself

Side == {"left", "right"}

ASSUME ClientAssumption == Null \notin Register /\ AliasedAssign \in BOOLEAN
=============================================================================
