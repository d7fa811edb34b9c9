---------------------------- MODULE MCScanEngine ----------------------------
(***************************************************************************)
(* ScanEngine on small sets of tasks and open calls.                       *)
(***************************************************************************)
EXTENDS ScanEngineLease, TLC

Symmetry == Permutations(Callers) \cup Permutations(Pumps)
               \cup Permutations(Loops) \cup Permutations(Handles)
=============================================================================
