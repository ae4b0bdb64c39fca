----------------------------- MODULE PrintStep -----------------------------
(***************************************************************************)
(* Printing a receipt: the sheet that says "Sale complete" with its print  *)
(* step and Retry button, Reprint in the list of sales (ui/app.js          *)
(* openSuccess, printReceipt, retryPrint, reprintSale), and the server's   *)
(* part of it (web handleReprint and printSale, printer SendRaw).          *)
(*                                                                         *)
(* printReceipt writes its result on the sheet after an await.  The sheet  *)
(* may have been closed by then, or be the next sale's.                    *)
(*                                                                         *)
(* A write to the printer is all or an error: what an error leaves on      *)
(* paper is a torn receipt, not this one.                                  *)
(***************************************************************************)
EXTENDS Startup

CONSTANTS
    Sales,      \* the sales made
    NoSale,     \* no sale
    MaxPrints   \* bound: receipts asked for

ASSUME PrintAssumption == NoSale \notin Sales /\ MaxPrints \in Nat

SomeSale == Sales \cup {NoSale}
Jobs == [status : {"none", "sent", "printed", "refused", "cut", "over", "lost"},
         sale : SomeSale, from : {"sale", "retry", "list"}]
Job(status, s, from) == [status |-> status, sale |-> s, from |-> from]
NoJob == Job("none", NoSale, "sale")

VARIABLES
    hasPrinter,   \* the printer_addr setting is not empty
    completed,    \* the sales completed on this page
    lastSale,     \* the one completed last
    shown,        \* the success sheet is open: it is about lastSale
    step,         \* the print step: "none", "warn", "working", "ok", "failed"
    retry,        \* the Retry button: [shown, disabled]
    jobs,         \* [1..MaxPrints -> each request to print]
    printed,      \* the sales whose whole receipt the printer took
    overlapped    \* the sheet's receipt of another sale was still on its way
                  \* when lastSale was completed (history)

sheetOfSale == <<completed, lastSale, shown, overlapped>>
printVars == <<hasPrinter, sheetOfSale, step, retry, jobs, printed>>

PrintTypeOK ==
    /\ hasPrinter \in BOOLEAN
    /\ completed \subseteq Sales /\ lastSale \in SomeSale
    /\ shown \in BOOLEAN
    /\ step \in {"none", "warn", "working", "ok", "failed"}
    /\ retry \in [shown : BOOLEAN, disabled : BOOLEAN]
    /\ jobs \in [1..MaxPrints -> Jobs]
    /\ printed \subseteq Sales
    /\ overlapped \in BOOLEAN

PrintInit ==
    /\ hasPrinter \in BOOLEAN
    /\ completed = {} /\ lastSale = NoSale /\ shown = FALSE /\ step = "none"
    /\ retry = [shown |-> FALSE, disabled |-> FALSE]
    /\ jobs = [n \in 1..MaxPrints |-> NoJob]
    /\ printed = {} /\ overlapped = FALSE

-----------------------------------------------------------------------------
OnItsWay(n) == jobs[n].status \in {"sent", "printed", "refused", "cut"}
OfSheet(n) == jobs[n].from # "list"
Asked == {n \in 1..MaxPrints : jobs[n].status # "none"}

(* The requests are numbered in order.                                     *)
Ask(n, s, from) ==
    /\ Asked = 1..(n - 1)
    /\ jobs' = [jobs EXCEPT ![n] = Job(IF Up THEN "sent" ELSE "cut", s, from)]

(* The first half of printReceipt.  Nothing is asked without a printer.    *)
PrintReceipt(s, from) ==
    IF hasPrinter
    THEN /\ step' = "working"
         /\ \E n \in 1..MaxPrints : Ask(n, s, from)
    ELSE /\ step' = "warn"
         /\ UNCHANGED jobs

(* The answer to a sale that is recorded, whatever the sheet shows: it may *)
(* be the answer to a second press of Enter.                               *)
SaleCompleted(s) ==
    /\ Up
    /\ s \notin completed
    /\ completed' = completed \cup {s}
    /\ lastSale' = s
    /\ shown' = TRUE
    /\ retry' = [retry EXCEPT !.shown = FALSE]
    /\ PrintReceipt(s, "sale")
    /\ overlapped' = \E n \in 1..MaxPrints : OnItsWay(n) /\ OfSheet(n)
    /\ UNCHANGED <<agent, shelf, hasPrinter, printed>>

CloseSuccess ==
    /\ shown
    /\ shown' = FALSE
    /\ UNCHANGED <<agent, shelf, hasPrinter, completed, lastSale, overlapped, step, retry,
                   jobs, printed>>

(* A printer is chosen, or its address emptied, in the setup.              *)
SavePrinter ==
    /\ Up
    /\ ~shown
    /\ hasPrinter' = ~hasPrinter
    /\ UNCHANGED <<agent, shelf, sheetOfSale, step, retry, jobs, printed>>

(* The button is disabled until the answer, or, when there is nothing to   *)
(* ask, for no time at all.                                                *)
RetryPrint ==
    /\ shown /\ lastSale # NoSale
    /\ retry.shown /\ ~retry.disabled
    /\ retry' = [shown |-> FALSE, disabled |-> hasPrinter]
    /\ PrintReceipt(lastSale, "retry")
    /\ UNCHANGED <<agent, shelf, hasPrinter, sheetOfSale, printed>>

ReprintSale(s) ==
    /\ ~shown
    /\ s \in completed
    /\ hasPrinter
    /\ \E n \in 1..MaxPrints : Ask(n, s, "list")
    /\ UNCHANGED <<agent, shelf, hasPrinter, sheetOfSale, step, retry, printed>>

-----------------------------------------------------------------------------
(* The server and the printer.                                             *)

(* Mutant: a write that fails counts as a receipt.                         *)
PrintSaleUnchecked(n) ==
    /\ Up
    /\ jobs[n].status = "sent"
    /\ jobs' = [jobs EXCEPT ![n].status = "printed"]
    /\ printed' \in {printed, printed \cup {jobs[n].sale}}
    /\ UNCHANGED <<agent, shelf, hasPrinter, sheetOfSale, step, retry>>

(* The printer's address is read again here; it may be gone.               *)
PrintSale(n) ==
    /\ Up
    /\ jobs[n].status = "sent"
    /\ \/ /\ hasPrinter
          /\ jobs' = [jobs EXCEPT ![n].status = "printed"]
          /\ printed' = printed \cup {jobs[n].sale}
       \/ /\ jobs' = [jobs EXCEPT ![n].status = "refused"]
          /\ UNCHANGED printed
    /\ UNCHANGED <<agent, shelf, hasPrinter, sheetOfSale, step, retry>>

(* Mutant: only a receipt that was printed gives the button back.          *)
RetryAnsweredIfPrinted(n) ==
    retry' = [shown    |-> jobs[n].status = "refused",
              disabled |-> retry.disabled /\ ~(jobs[n].from = "retry"
                                              /\ jobs[n].status = "printed")]

RetryAnswered(n) ==
    retry' = [shown    |-> jobs[n].status = "refused",
              disabled |-> retry.disabled /\ jobs[n].from # "retry"]

(* The second half of printReceipt, and the rest of retryPrint.  The       *)
(* result goes on the sheet whichever sale it is about.                    *)
PrintAnswered(n) ==
    /\ jobs[n].status \in {"printed", "refused"}
    /\ jobs' = [jobs EXCEPT ![n].status = "over"]
    /\ IF OfSheet(n)
       THEN /\ step' = IF jobs[n].status = "printed" THEN "ok" ELSE "failed"
            /\ RetryAnswered(n)
       ELSE UNCHANGED <<step, retry>>
    /\ UNCHANGED <<agent, shelf, hasPrinter, sheetOfSale, printed>>

(* fetch throws: the sheet and the button stay as they are.                *)
PrintThrows(n) ==
    /\ jobs[n].status = "cut"
    /\ jobs' = [jobs EXCEPT ![n].status = "lost"]
    /\ UNCHANGED <<agent, shelf, hasPrinter, sheetOfSale, step, retry, printed>>

(* What a killed agent does to the requests.  One whose status is "cut"    *)
(* may have been printed.                                                  *)
CutPrints ==
    jobs' = [n \in 1..MaxPrints |->
        IF OnItsWay(n) THEN [jobs[n] EXCEPT !.status = "cut"] ELSE jobs[n]]

PrintInput ==
    \/ \E s \in Sales : SaleCompleted(s)
    \/ CloseSuccess
    \/ SavePrinter
    \/ RetryPrint
    \/ \E s \in Sales : ReprintSale(s)

PrintWork ==
    \/ \E n \in 1..MaxPrints : PrintSale(n)
    \/ \E n \in 1..MaxPrints : PrintAnswered(n)
    \/ \E n \in 1..MaxPrints : PrintThrows(n)

-----------------------------------------------------------------------------
(* Properties.                                                             *)

(* "Receipt printed." is true of the sale on the sheet, through retries,   *)
(* refusals and killed agents, unless the sale before it was completed so  *)
(* shortly before that its receipt was still on its way (printReceipt      *)
(* against handleReprint).                                                 *)
OkIsPrinted == step = "ok" /\ ~overlapped => lastSale \in printed

(* The sheet says "Printing receipt..." and the Retry button is disabled   *)
(* only while an answer is still to come or one was lost with the agent    *)
(* (printReceipt, retryPrint: nothing catches what fetch throws).          *)
StepEnds ==
    /\ step = "working" => \E n \in 1..MaxPrints :
           /\ OnItsWay(n) \/ jobs[n].status = "lost"
           /\ OfSheet(n) /\ jobs[n].sale = lastSale
    /\ retry.disabled => \E n \in 1..MaxPrints :
           /\ OnItsWay(n) \/ jobs[n].status = "lost"
           /\ jobs[n].from = "retry"

=============================================================================
