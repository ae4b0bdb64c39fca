------------------------------- MODULE Money -------------------------------
(***************************************************************************)
(* What a cart costs.  The server computes it when the sale is recorded    *)
(* (store/tax.go); the page computes it again, in JavaScript, to show the  *)
(* cashier what to charge (ui/app.js).                                     *)
(*                                                                         *)
(* Amounts are whole cents and rates basis points.  A bill maps the ids of *)
(* the items in it to [price, taxable, qty], and tax is [mode, rate].      *)
(***************************************************************************)
EXTENDS Integers, Functions

Modes == {"none", "inclusive", "exclusive"}
Untaxed == [mode |-> "none", rate |-> 0]

RoundHalfUp(n, d) == (n + (d \div 2)) \div d

Gross(line) == line.price * line.qty

(* What each line is taxed at the server, by the three cases of its switch *)
(* and the early continue.                                                 *)
LineTax(tax, line) ==
    IF \/ tax.rate <= 0
       \/ tax.mode = "none"
       \/ ~line.taxable
    THEN 0
    ELSE RoundHalfUp(Gross(line) * tax.rate,
                     IF tax.mode = "inclusive" THEN 10000 + tax.rate
                                               ELSE 10000)

LineTaxes(tax, bill) == [i \in DOMAIN bill |-> LineTax(tax, bill[i])]
Subtotal(bill) == SumFunction([i \in DOMAIN bill |-> Gross(bill[i])])

ComputeTax(tax, bill) ==
    LET sum == SumFunction(LineTaxes(tax, bill))
        addsTax == tax.mode = "exclusive" /\ tax.rate > 0
    IN  [tax   |-> sum,
         total |-> IF addsTax THEN Subtotal(bill) + sum ELSE Subtotal(bill)]

(* The same on the page.                                                   *)
LineTaxCents(gross, taxable, rate, mode) ==
    IF rate > 0 /\ taxable
    THEN CASE mode = "none"      -> 0
           [] mode = "exclusive" -> RoundHalfUp(gross * rate, 10000)
           [] mode = "inclusive" -> RoundHalfUp(gross * rate, 10000 + rate)
    ELSE 0

(* Mutant: the page rounds the tax of one piece, and multiplies that.      *)
CartTotalsByPiece(tax, cart) ==
    LET subtotal == SumFunction([i \in DOMAIN cart |-> Gross(cart[i])])
        sum == SumFunction([i \in DOMAIN cart |-> cart[i].qty *
                   LineTaxCents(cart[i].price, cart[i].taxable, tax.rate, tax.mode)])
    IN  [tax   |-> sum,
         total |-> IF tax.mode = "exclusive" /\ tax.rate > 0
                   THEN subtotal + sum
                   ELSE subtotal]

CartTotals(tax, cart) ==
    LET gross == [i \in DOMAIN cart |-> Gross(cart[i])]
        taxes == [i \in DOMAIN cart |->
                     LineTaxCents(gross[i], cart[i].taxable, tax.rate, tax.mode)]
        subtotal == SumFunction(gross)
        sum == SumFunction(taxes)
    IN  [tax   |-> sum,
         total |-> IF tax.mode = "exclusive" /\ tax.rate > 0
                   THEN subtotal + sum
                   ELSE subtotal]

=============================================================================
