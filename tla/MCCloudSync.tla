---------------------------- MODULE MCCloudSync ----------------------------
(* Instances of CloudSync for TLC.                                          *)
EXTENDS CloudSync, TLC

(* Tills, shops, and the ids of sales, events, products and settings are    *)
(* each interchangeable in the safety properties.                           *)
Symmetry ==
    UNION {Permutations(Ids) :
              Ids \in {Devices, Shops, Products, Sales, StockEvents, Keys}}
=============================================================================
