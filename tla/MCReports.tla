----------------------------- MODULE MCReports -----------------------------
(* Reports for TLC: a sale paid by M-Pesa, with its reference, and one in  *)
(* cash.  A criterion is set or not, one or two at a time.                 *)
EXTENDS Reports

Symmetry == Permutations(Own)

Paid == [ref |-> "QGH", method |-> "mpesa", items |-> {"tea"}, total |-> 2,
         cells |-> <<10, 5, 60, 8, 7, 8, 6, 30>>]
Cash == [ref |-> NoText, method |-> "cash", items |-> {"soap"}, total |-> 1,
         cells |-> <<10, 5, 7, 6, 4, 6, 4, 0>>]
TwoKinds == {Paid, Cash}

Anything == [ref |-> NoText, item |-> NoText, method |-> NoText, start |-> {},
             end |-> {}, min |-> 0, max |-> 0, limit |-> 0]

Searches ==
    UNION {{c, [c EXCEPT !.ref = "QGH"], [c EXCEPT !.limit = 2]} :
        c \in {Anything,
               [Anything EXCEPT !.item = "tea", !.start = {2}],
               [Anything EXCEPT !.method = "cash", !.max = 1],
               [Anything EXCEPT !.end = {2}, !.min = 2]}}

=============================================================================
