---------------------------- MODULE MCController ----------------------------
(* Controller for TLC.  Callers and writers are interchangeable.           *)
EXTENDS Controller, TLC

Symmetry == Permutations(Callers) \cup Permutations(Writers)

=============================================================================
