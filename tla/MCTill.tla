------------------------------ MODULE MCTill -------------------------------
(* Till for TLC.  A tenth of 5 is half a cent: a line of two pieces is     *)
(* taxed one cent, and two cents if each piece is rounded.                 *)
EXTENDS Till

Tax(m, r) == [mode |-> m, rate |-> r]

Several == {Untaxed, Tax("exclusive", 1000), Tax("inclusive", 3000)}

Fives == {[price |-> 5, taxable |-> b] : b \in BOOLEAN}

(* Bound: the items start taxable, as an item is unless the owner says so. *)
TaxableInit == Init /\ \A i \in Ids : item[i].taxable
TaxableSpec == TaxableInit /\ [][Next]_vars

=============================================================================
