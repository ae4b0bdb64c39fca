------------------------------ MODULE Receipt ------------------------------
(***************************************************************************)
(* What is put on paper of a sale (printer/receipt.go, printer/logo.go,    *)
(* and for a page without a printer ui/app.js receiptHTML).                *)
(*                                                                         *)
(* A line is what it is about, the length of its label and its amount; of  *)
(* a printed one only lengths matter, in bytes.  The order of the lines,   *)
(* rules, header and footer are left out: the themes differ in nothing     *)
(* else.                                                                   *)
(***************************************************************************)
EXTENDS Money

AtLeast(bound, n) == IF n < bound THEN bound ELSE n
AtMost(bound, n) == IF n > bound THEN bound ELSE n

-----------------------------------------------------------------------------
(* Amounts and labels.                                                     *)

Digits(n) ==
    IF n = 0 THEN 1 ELSE CHOOSE d \in 1..19 : 10^(d - 1) <= n /\ n < 10^d

(* "KSh 1,234.50": the code writes the sign in front.                      *)
MoneyLen(cents) ==
    LET size == IF cents < 0 THEN -cents ELSE cents
        digits == Digits(size \div 100)
    IN  (IF cents < 0 THEN 1 ELSE 0) + 4 + digits + ((digits - 1) \div 3) + 3

(* "VAT (16%)", "VAT (16.5%)", "VAT (16.25%)".                             *)
VatLen(rate) ==
    7 + Digits(rate \div 100)
      + (IF rate % 100 = 0 THEN 0 ELSE IF rate % 10 = 0 THEN 2 ELSE 3)

NameLen(len, qty) == IF qty > 1 THEN len + 2 + Digits(qty) ELSE len

-----------------------------------------------------------------------------
(* The lines of a receipt.                                                 *)

(* What is stored of a sale that a receipt shows.                          *)
Sale(bill, tax, due, paid) ==
    [mode |-> tax.mode, rate |-> tax.rate, subtotal |-> Subtotal(bill),
     tax |-> due.tax, total |-> due.total, paid |-> paid,
     change |-> paid - due.total]

Line(what, label, amount) == [what |-> what, label |-> label, amount |-> amount]
When(condition, lines) == IF condition THEN lines ELSE {}

(* Mutant: tax is added below the items whether or not they contain it.    *)
MoneyLinesAlways(sale) ==
    When(sale.tax > 0,
         {Line("subtotal", 8, sale.subtotal), Line("tax", VatLen(sale.rate), sale.tax)})
    \cup {Line("total", 5, sale.total), Line("paid", 4, sale.paid),
          Line("change", 6, sale.change)}

MoneyLines(sale) ==
    LET contains == sale.mode = "inclusive"
    IN  When(sale.tax > 0 /\ ~contains,
             {Line("subtotal", 8, sale.subtotal),
              Line("tax", VatLen(sale.rate), sale.tax)})
        \cup When(sale.tax > 0 /\ contains,
                  {Line("contained", 6 + VatLen(sale.rate), sale.tax)})
        \cup {Line("total", 5, sale.total), Line("paid", 4, sale.paid),
              Line("change", 6, sale.change)}

(* The browser aligns its lines itself: labels have no length here.        *)
BrowserLines(sale) ==
    {Line("subtotal", 0, sale.subtotal), Line("total", 0, sale.total),
     Line("paid", 0, sale.paid)}
    \cup When(sale.tax > 0,
              {Line(IF sale.mode = "inclusive" THEN "contained" ELSE "tax", 0, sale.tax)})
    \cup When(sale.change > 0, {Line("change", 0, sale.change)})

(* The items of a bill, of names that are len bytes long.                  *)
ItemLines(bill, len) ==
    {Line("item", NameLen(len, bill[i].qty), Gross(bill[i])) :
        i \in {j \in DOMAIN bill : bill[j].qty > 0}}

-----------------------------------------------------------------------------
(* A line on paper.                                                        *)

CharsForWidth(mm) == IF mm = 58 THEN 32 ELSE 48

LeftRight(left, right, width) ==
    LET space == AtLeast(1, width - right)
        kept  == AtMost(space - 1, left)
    IN  [left |-> kept, pad |-> AtLeast(1, width - kept - right), right |-> right]

Printed(line, mm) == LeftRight(line.label, MoneyLen(line.amount), CharsForWidth(mm))
Length(printed) == printed.left + printed.pad + printed.right

-----------------------------------------------------------------------------
(* The logo.                                                               *)

PaperDots(mm) == IF mm = 58 THEN 384 ELSE 576
WholeBytes(dots) == AtLeast(8, dots - (dots % 8))

(* The printed size of an image that is w by h.                            *)
LogoSize(w, h, mm) ==
    LET wide == WholeBytes(AtMost(AtMost(384, PaperDots(mm)), w))
        high == (h * wide) \div w
    IN  IF high > 320
        THEN [wide |-> WholeBytes((w * 320) \div h), high |-> 320]
        ELSE [wide |-> wide, high |-> AtLeast(1, high)]

(* Which column, or row, of the image a dot is taken from.                 *)
Sample(dot, size, dots) == (dot * size) \div dots

-----------------------------------------------------------------------------
(* What a customer checks.                                                 *)

Amount(lines, what) ==
    LET of == {line \in lines : line.what = what}
    IN  IF of = {} THEN 0 ELSE (CHOOSE line \in of : TRUE).amount

(* Items and what is printed as added to them come to the total, and the   *)
(* cash less the total to the change.                                      *)
Balances(lines, items) ==
    /\ items + Amount(lines, "tax") = Amount(lines, "total")
    /\ Amount(lines, "paid") - Amount(lines, "total") = Amount(lines, "change")
    /\ Amount(lines, "subtotal") \in {0, items}

(* An amount is printed whole and ends at the edge of the paper.           *)
Fits(line, mm) ==
    LET printed == Printed(line, mm)
    IN  /\ printed.right = MoneyLen(line.amount)
        /\ printed.pad >= 1
        /\ Length(printed) = CharsForWidth(mm)

=============================================================================
