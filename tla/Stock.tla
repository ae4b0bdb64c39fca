------------------------------- MODULE Stock -------------------------------
(***************************************************************************)
(* The on-hand count of one item (boltstore/stock.go).                     *)
(*                                                                         *)
(* No till stores a count.  It keeps the item's stock events and the sales *)
(* it has heard of, its own and pulled ones, and derives the count: the    *)
(* deltas of the events less what was sold.  A till that is offline goes   *)
(* on selling, restocking and correcting; what it did reaches the others   *)
(* later, in any order (CloudSync says that it does).                      *)
(*                                                                         *)
(* The owner corrects a count by typing it into the item's form, which was *)
(* filled from the catalogue when it was opened, with the count floored at *)
(* zero.                                                                   *)
(***************************************************************************)
EXTENDS Integers, FiniteSetsExt

CONSTANTS
    Tills,
    Sales,     \* sale ids
    Events,    \* stock event ids
    Counts,    \* the counts an owner may type
    Moves,     \* the quantities a restock may add or remove
    Quantities,\* the quantities a sale may be of
    MaxStamp   \* bound: no stamp of a row is later than this

ASSUME StockAssumption ==
    /\ Sales \cap Events = {}
    /\ Counts \subseteq Nat /\ 0 \in Counts
    /\ Moves \subseteq Int \ {0}
    /\ Quantities \subseteq Nat \ {0}
    /\ MaxStamp \in Nat

Ids == Sales \cup Events
NoForm == -1

VARIABLES
    item,     \* [Tills -> the item's row: its stamp (0: none) and TrackStock]
    delta,    \* [Ids -> Int]: what each sale or event adds, 0 if not made yet
    held,     \* [Tills -> SUBSET Ids]: the sales and events of a till
    form,     \* [Tills -> Counts \cup {NoForm}]: the count its form shows
    tally,    \* the count one till, doing all of it in turn, would have (history)
    informed  \* every correction was made at a till that held all (history)

vars == <<item, delta, held, form, tally, informed>>

TypeOK ==
    /\ item \in [Tills -> [at : 0..(MaxStamp + 1), tracked : BOOLEAN]]
    /\ delta \in [Ids -> Int]
    /\ held \in [Tills -> SUBSET Ids]
    /\ form \in [Tills -> Nat \cup {NoForm}]
    /\ tally \in Int
    /\ informed \in BOOLEAN

Init ==
    /\ item = [d \in Tills |-> [at |-> 0, tracked |-> FALSE]]
    /\ delta = [x \in Ids |-> 0]
    /\ held = [d \in Tills |-> {}]
    /\ form = [d \in Tills |-> NoForm]
    /\ tally = 0
    /\ informed = TRUE

Made == {x \in Ids : delta[x] # 0}
Has(d) == item[d].at > 0

(* The latest stamp: a new one is above it (CloudSync looks at clocks).     *)
Now == Max({item[d].at : d \in Tills})

(* The signed count: the deltas of the events less what was sold.           *)
OnHand(d) == SumFunctionOnSet(delta, held[d])

Floored(n) == IF n < 0 THEN 0 ELSE n

(* What the catalogue shows of it.                                          *)
Shown(d) == IF item[d].tracked THEN Floored(OnHand(d)) ELSE 0

(* An event or a sale of delta n, with a fresh id; none when n is 0.        *)
Append(d, kind, n) ==
    IF n = 0
    THEN UNCHANGED <<delta, held>>
    ELSE \E x \in kind \ Made :
            /\ delta' = [delta EXCEPT ![x] = n]
            /\ held' = [held EXCEPT ![d] = @ \cup {x}]

(* The count that saveItem sends: what is typed, or 0 if none is kept.      *)
CountSent(tracked) == IF tracked THEN Counts ELSE {0}

-----------------------------------------------------------------------------
(* Every till that knows the item may do any of these at any time.          *)

AddProduct(d, n, tracked) ==
    /\ \A e \in Tills : ~Has(e)
    /\ n \in CountSent(tracked)
    /\ item' = [item EXCEPT ![d] = [at |-> 1, tracked |-> tracked]]
    /\ Append(d, Events, n)
    /\ tally' = n
    /\ UNCHANGED <<form, informed>>

OpenForm(d) ==
    /\ Has(d)
    /\ form' = [form EXCEPT ![d] = Shown(d)]
    /\ UNCHANGED <<item, delta, held, tally, informed>>

(* Variant: the correction starts from the count that is shown.             *)
CorrectShown(d, n) == Append(d, Events, n - Shown(d))

(* One event takes the count to n, from the signed count as it is now.      *)
Correct(d, n) == Append(d, Events, n - OnHand(d))

(* UpdateProduct; a form without a count asks for none to be kept.          *)
SaveForm(d, n, tracked) ==
    /\ form[d] # NoForm
    /\ Now < MaxStamp
    /\ n \in CountSent(tracked)
    /\ item' = [item EXCEPT ![d] = [at |-> Now + 1, tracked |-> tracked]]
    /\ form' = [form EXCEPT ![d] = NoForm]
    /\ IF tracked
       THEN /\ Correct(d, n)
            /\ tally' = n
            /\ informed' = (informed /\ held[d] = Made)
       ELSE UNCHANGED <<delta, held, tally, informed>>

(* Variant: the event takes the shown count to what is then on the shelf.   *)
RestockShown(d, q) ==
    /\ Has(d)
    /\ Append(d, Events, Floored(OnHand(d)) + q - OnHand(d))
    /\ tally' = tally + q
    /\ UNCHANGED <<item, form, informed>>

(* Whether the item is tracked or has been removed is not asked.            *)
Restock(d, q) ==
    /\ Has(d)
    /\ Append(d, Events, q)
    /\ tally' = tally + q
    /\ UNCHANGED <<item, form, informed>>

(* A sale is not checked against the count.                                 *)
CreateSale(d, q) ==
    /\ Has(d)
    /\ Append(d, Sales, -q)
    /\ tally' = tally - q
    /\ UNCHANGED <<item, form, informed>>

(* Some of what another till holds arrives; its later row replaces this     *)
(* till's.                                                                  *)
Pull(d, e, X) ==
    /\ X \subseteq held[e] \ held[d]
    /\ held' = [held EXCEPT ![d] = @ \cup X]
    /\ item' = [item EXCEPT ![d] = IF item[e].at > @.at THEN item[e] ELSE @]
    /\ UNCHANGED <<delta, form, tally, informed>>

-----------------------------------------------------------------------------
Next ==
    \E d \in Tills :
        \/ \E n \in Counts, t \in BOOLEAN : AddProduct(d, n, t) \/ SaveForm(d, n, t)
        \/ OpenForm(d)
        \/ \E q \in Moves : Restock(d, q)
        \/ \E q \in Quantities : CreateSale(d, q)
        \/ \E e \in Tills : \E X \in SUBSET held[e] : Pull(d, e, X)

Spec == Init /\ [][Next]_vars

-----------------------------------------------------------------------------
(* "Two offline tills reconcile by adding their events up instead of        *)
(* overwriting a shared number": a till that holds everything has the count *)
(* that one till, doing all of it in turn, would have, also when an item    *)
(* was sold below zero, unless a count was typed at a till that had not     *)
(* heard of everything.                                                     *)
CountsAddUp ==
    informed => \A d \in Tills : held[d] = Made => OnHand(d) = tally

(* A typed count is what the till then derives, "so an oversold item        *)
(* corrects right", whatever was sold or pulled since the form was opened.  *)
CountTakes ==
    [][\A d \in Tills, n \in Counts :
          SaveForm(d, n, TRUE) => OnHand(d)' = n]_vars

=============================================================================
