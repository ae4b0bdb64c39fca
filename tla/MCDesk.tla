------------------------------- MODULE MCDesk -------------------------------
(* Desk for TLC.                                                           *)
EXTENDS Desk, TLC

Symmetry == Permutations(Ids) \cup Permutations(Sales)

=============================================================================
