---------------------------- MODULE MCPageMemory ----------------------------
(***************************************************************************)
(* PageMemory for TLC: tasks are model values and interchangeable.         *)
(***************************************************************************)
EXTENDS PageMemory, TLC

Symmetry == Permutations(Tasks)
=============================================================================
