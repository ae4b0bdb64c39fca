---------------------------- MODULE MCCatalogue ----------------------------
(* Instances of Catalogue for TLC.                                          *)
EXTENDS Catalogue, TLC

(* Ids and barcodes are each interchangeable; the tills of a run            *)
(* with a till that only pulls are not.                                     *)
Symmetry ==
    UNION {Permutations(S) : S \in {Ids, Codes}}
=============================================================================
