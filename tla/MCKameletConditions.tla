-------------------------- MODULE MCKameletConditions --------------------------
(* Instances of KameletConditions for TLC.                                   *)
EXTENDS KameletConditions, TLC

\* Types and reasons are interchangeable.
Symmetry == Permutations(Types) \cup Permutations(Reasons)
===========================================================================
