------------------------------ MODULE MCScan -------------------------------
(* Scan for TLC.  Symmetry would not be sound with the liveness property.  *)
EXTENDS Scan

=============================================================================
