------------------------------ MODULE MCStock ------------------------------
(* Stock for TLC.  Tills and ids are interchangeable.                      *)
EXTENDS Stock, TLC

Symmetry ==
    Permutations(Tills) \cup Permutations(Sales) \cup Permutations(Events)

Removals == {-1, 2}

=============================================================================
