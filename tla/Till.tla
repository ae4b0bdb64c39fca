-------------------------------- MODULE Till --------------------------------
(***************************************************************************)
(* The sell page of one till, and the server behind it.                    *)
(*                                                                         *)
(* The page keeps its own copies of the catalogue and of the settings, the *)
(* cart and the sheet that is open (ui/app.js).  What it shows the cashier *)
(* comes from those copies; what is recorded comes from the store, in one  *)
(* transaction per sale (boltstore CreateSale).  Every request is a        *)
(* separate step from its answer, and either may be lost.                  *)
(*                                                                         *)
(* The Enter key completes a sale whether or not the button is disabled    *)
(* (app.js onKeydown), so a sale may be sent again before its answer.      *)
(*                                                                         *)
(* Saving the tax writes two settings in two transactions, in the order a  *)
(* Go map yields its keys (web handleSettings).                            *)
(***************************************************************************)
EXTENDS Receipt, FiniteSets

CONSTANTS
    Ids,        \* items
    Rows,       \* the rows an item may have: [price, taxable]
    Choices,    \* the taxes an owner may save: [mode, rate]
    MaxQty,     \* bound: pieces of an item in the cart
    MaxPosts,   \* bound: sales sent
    MaxSaves,   \* bound: taxes saved
    MaxEdits    \* bound: item rows saved

ASSUME TillAssumption ==
    /\ IsFiniteSet(Ids)
    /\ Rows \subseteq [price : Nat, taxable : BOOLEAN]
    /\ Choices \subseteq [mode : Modes, rate : Nat]
    /\ \A c \in Choices : c.mode = "none" => c.rate = 0
    /\ MaxQty \in Nat \ {0} /\ MaxPosts \in Nat
    /\ MaxSaves \in Nat /\ MaxEdits \in Nat

Bills == [Ids -> [price : Nat, taxable : BOOLEAN, qty : Nat]]
Empty == [i \in Ids |-> [price |-> 0, taxable |-> FALSE, qty |-> 0]]
Post(status) == [status |-> status, cart |-> Empty, tax |-> Untaxed, paid |-> 0]
NoVerdict == [taken |-> FALSE, bill |-> Empty, tax |-> 0, total |-> 0]
Save(status) == [status |-> status, tax |-> Untaxed, left |-> {}]

VARIABLES
    \* the store
    item,     \* [Ids -> Rows]
    shop,     \* the tax in the settings bucket
    verdict,  \* [1..MaxPosts -> the sale CreateSale recorded, if it did]
    edits,    \* item rows saved so far
    \* the page
    list,     \* its copy of the catalogue
    known,    \* its copy of the tax
    cart,     \* [Ids -> [price, taxable, qty]], qty 0 for what is not in it
    sheet,    \* "none", "pay" or "done"
    showing,  \* the sale the "done" sheet is about
    \* between them
    posts,    \* [1..MaxPosts -> each sale sent, and what the page then showed]
    saves,    \* [1..MaxSaves -> each tax saved, and the keys not yet written]
    wanted    \* every tax the owner chose (history)

store == <<item, shop, verdict, edits>>
page == <<list, known, cart, sheet, showing>>
vars == <<item, shop, verdict, edits, list, known, cart, sheet, showing,
          posts, saves, wanted>>

Taxes == [mode : Modes, rate : Nat]

(* The amounts of posts and verdicts are sums, and left out.               *)
TypeOK ==
    /\ item \in [Ids -> Rows] /\ list \in [Ids -> Rows]
    /\ shop \in Taxes /\ known \in Taxes
    /\ cart \in Bills
    /\ sheet \in {"none", "pay", "done"} /\ showing \in 0..MaxPosts
    /\ \A n \in 1..MaxPosts :
          /\ posts[n].status \in {"none", "sent", "served", "orphan", "over"}
          /\ posts[n].cart \in Bills /\ posts[n].tax \in Taxes
          /\ verdict[n].taken \in BOOLEAN /\ verdict[n].bill \in Bills
    /\ saves \in [1..MaxSaves ->
           [tax : Choices \cup {Untaxed}, left : SUBSET {"mode", "rate"},
            status : {"none", "sent", "orphan", "over"}]]
    /\ wanted \subseteq Choices \cup {Untaxed}
    /\ edits \in 0..MaxEdits

Init ==
    /\ item \in [Ids -> Rows]
    /\ shop \in Choices \cup {Untaxed}
    /\ verdict = [n \in 1..MaxPosts |-> NoVerdict]
    /\ edits = 0
    /\ list = item /\ known = shop
    /\ cart = Empty /\ sheet = "none" /\ showing = 0
    /\ posts = [n \in 1..MaxPosts |-> Post("none")]
    /\ saves = [k \in 1..MaxSaves |-> Save("none")]
    /\ wanted = {Untaxed, shop}

InCart == {i \in Ids : cart[i].qty > 0}

-----------------------------------------------------------------------------
(* The page.                                                               *)

LoadProducts ==
    /\ list' = item
    /\ UNCHANGED <<store, known, cart, sheet, showing, posts, saves, wanted>>

LoadSettings ==
    /\ known' = shop
    /\ UNCHANGED <<store, list, cart, sheet, showing, posts, saves, wanted>>

(* A line keeps the product object it was added with, however old.  Only   *)
(* the payment sheet stops the barcode scanner.                            *)
AddToCart(i) ==
    /\ sheet # "pay"
    /\ cart[i].qty < MaxQty
    /\ cart' = [cart EXCEPT ![i] =
           IF @.qty > 0
           THEN [@ EXCEPT !.qty = cart[i].qty + 1]
           ELSE [price |-> list[i].price, taxable |-> list[i].taxable, qty |-> 1]]
    /\ UNCHANGED <<store, list, known, sheet, showing, posts, saves, wanted>>

SetQty(i, q) ==
    /\ sheet = "none"
    /\ i \in InCart
    /\ cart' = [cart EXCEPT ![i] = IF q = 0 THEN Empty[i] ELSE [@ EXCEPT !.qty = q]]
    /\ UNCHANGED <<store, list, known, sheet, showing, posts, saves, wanted>>

ClearCart ==
    /\ sheet = "none"
    /\ cart' = Empty
    /\ UNCHANGED <<store, list, known, sheet, showing, posts, saves, wanted>>

Shown == CartTotals(known, cart)

OpenPayment ==
    /\ sheet = "none"
    /\ Shown.total > 0
    /\ sheet' = "pay"
    /\ UNCHANGED <<store, list, known, cart, showing, posts, saves, wanted>>

CloseSheet ==
    /\ sheet # "none"
    /\ sheet' = "none" /\ showing' = 0
    /\ UNCHANGED <<store, list, known, cart, posts, saves, wanted>>

(* The posts are numbered in the order they are sent.                      *)
CompleteSale(n, change) ==
    /\ sheet = "pay"
    /\ posts[n].status = "none"
    /\ \A k \in 1..(n - 1) : posts[k].status # "none"
    /\ posts' = [posts EXCEPT ![n] =
           [status |-> "sent", cart |-> cart, tax |-> known,
            paid |-> Shown.total + change]]
    /\ UNCHANGED <<store, page, saves, wanted>>

(* Mutant: the page clears up before it looks at r.ok.                     *)
ReplyUnchecked(n) ==
    /\ posts[n].status = "served"
    /\ posts' = [posts EXCEPT ![n] = Post("over")]
    /\ cart' = Empty /\ sheet' = "done" /\ showing' = n
    /\ UNCHANGED <<store, list, known, saves, wanted>>

(* The answer: a refusal is a toast, and changes nothing else.             *)
Reply(n) ==
    /\ posts[n].status = "served"
    /\ posts' = [posts EXCEPT ![n] = Post("over")]
    /\ IF verdict[n].taken
       THEN /\ cart' = Empty
            /\ sheet' = "done"
            /\ showing' = n
       ELSE UNCHANGED <<cart, sheet, showing>>
    /\ UNCHANGED <<store, list, known, saves, wanted>>

(* fetch throws: the rest of completeSale does not run.                    *)
AnswerLost(n) ==
    /\ posts[n].status \in {"sent", "served"}
    /\ posts' = [posts EXCEPT ![n] = Post("over")]
    /\ UNCHANGED <<store, page, saves, wanted>>

-----------------------------------------------------------------------------
(* The server.                                                             *)

(* The lines of a sale, priced from the products as they are now.          *)
Priced(wants) ==
    [i \in Ids |-> IF wants[i].qty > 0
                   THEN [price   |-> item[i].price,
                         taxable |-> item[i].taxable,
                         qty     |-> wants[i].qty]
                   ELSE Empty[i]]

CreateSale(n) ==
    LET bill == Priced(posts[n].cart)
        due  == ComputeTax(shop, bill)
    IN  IF posts[n].paid >= due.total
        THEN [taken |-> TRUE, bill |-> bill, tax |-> due.tax, total |-> due.total]
        ELSE NoVerdict

(* The sale of a page that has gone is recorded like any other.            *)
Serve(n) ==
    /\ posts[n].status \in {"sent", "orphan"}
    /\ verdict' = [verdict EXCEPT ![n] = CreateSale(n)]
    /\ posts' = [posts EXCEPT ![n] =
           Post(IF @.status = "sent" THEN "served" ELSE "over")]
    /\ UNCHANGED <<item, shop, edits, page, saves, wanted>>

(* Another page of this till, or a pulled row, changes an item.            *)
UpdateProduct(i, row) ==
    /\ edits < MaxEdits
    /\ row # item[i]
    /\ item' = [item EXCEPT ![i] = row]
    /\ edits' = edits + 1
    /\ UNCHANGED <<shop, verdict, page, posts, saves, wanted>>

(* Mutant: the page sends the rate left in the field when tax is off.      *)
SaveTaxKeepsRate(k, c) ==
    /\ saves[k].status = "none"
    /\ \A j \in 1..(k - 1) : saves[j].status # "none"
    /\ \E r \in {x.rate : x \in Choices} :
          saves' = [saves EXCEPT ![k] =
              [tax |-> IF c.mode = "none" THEN [c EXCEPT !.rate = r] ELSE c,
               left |-> {"mode", "rate"}, status |-> "sent"]]
    /\ wanted' = wanted \cup {c}
    /\ UNCHANGED <<store, page, posts>>

(* The page sends both settings at once, the rate as 0 when tax is off.    *)
SaveTax(k, c) ==
    /\ saves[k].status = "none"
    /\ \A j \in 1..(k - 1) : saves[j].status # "none"
    /\ saves' = [saves EXCEPT ![k] =
           [tax |-> c, left |-> {"mode", "rate"}, status |-> "sent"]]
    /\ wanted' = wanted \cup {c}
    /\ UNCHANGED <<store, page, posts>>

(* One key of a save, in a transaction of its own.                         *)
SetSetting(k, key) ==
    /\ saves[k].status \in {"sent", "orphan"}
    /\ key \in saves[k].left
    /\ shop' = [shop EXCEPT ![key] = saves[k].tax[key]]
    /\ saves' = [saves EXCEPT ![k].left = @ \ {key}]
    /\ UNCHANGED <<item, verdict, edits, page, posts, wanted>>

SaveReply(k) ==
    /\ saves[k].status = "sent"
    /\ saves[k].left = {}
    /\ saves' = [saves EXCEPT ![k] = Save("over")]
    /\ known' = saves[k].tax
    /\ UNCHANGED <<store, list, cart, sheet, showing, posts, wanted>>

(* A save that fails, or is cut by a crash, stops between two keys: what   *)
(* is written stays, and the page keeps what it knew.                      *)
SaveFails(k) ==
    /\ saves[k].status \in {"sent", "orphan"}
    /\ saves' = [saves EXCEPT ![k] = Save("over")]
    /\ UNCHANGED <<store, page, posts, wanted>>

(* The page is closed and opened again.  What it sent is on its way.       *)
Reload ==
    /\ list' = item /\ known' = shop
    /\ cart' = Empty /\ sheet' = "none" /\ showing' = 0
    /\ posts' = [n \in 1..MaxPosts |->
           [posts[n] EXCEPT !.status =
               IF @ = "sent" THEN "orphan" ELSE IF @ = "served" THEN "over" ELSE @]]
    /\ saves' = [k \in 1..MaxSaves |->
           [saves[k] EXCEPT !.status = IF @ = "sent" THEN "orphan" ELSE @]]
    /\ UNCHANGED <<store, wanted>>

Next ==
    \/ LoadProducts
    \/ LoadSettings
    \/ \E i \in Ids : AddToCart(i)
    \/ \E i \in Ids, q \in 0..MaxQty : SetQty(i, q)
    \/ ClearCart
    \/ OpenPayment
    \/ CloseSheet
    \/ \E n \in 1..MaxPosts, change \in {0, 1} : CompleteSale(n, change)
    \/ \E n \in 1..MaxPosts : Serve(n)
    \/ \E n \in 1..MaxPosts : Reply(n)
    \/ \E n \in 1..MaxPosts : AnswerLost(n)
    \/ \E i \in Ids, row \in Rows : UpdateProduct(i, row)
    \/ \E k \in 1..MaxSaves, c \in Choices : SaveTax(k, c)
    \/ \E k \in 1..MaxSaves, key \in {"mode", "rate"} : SetSetting(k, key)
    \/ \E k \in 1..MaxSaves : SaveReply(k)
    \/ \E k \in 1..MaxSaves : SaveFails(k)
    \/ Reload

Spec == Init /\ [][Next]_vars

-----------------------------------------------------------------------------
(* Properties.                                                             *)

Served(n) ==
    \/ posts[n].status = "sent" /\ posts'[n].status = "served"
    \/ posts[n].status = "orphan" /\ posts'[n].status = "over"

UpToDate(n) ==
    /\ posts[n].tax = shop
    /\ \A i \in Ids : posts[n].cart[i].qty > 0 =>
          /\ posts[n].cart[i].price = item[i].price
          /\ posts[n].cart[i].taxable = item[i].taxable

(* A page whose copies were up to date when the sale reaches the store is  *)
(* never refused, and the sale is for the amount it showed: the page's     *)
(* arithmetic and the server's agree (app.js "mirrors the server's         *)
(* ComputeTax exactly").                                                   *)
AsShown ==
    [][\A n \in 1..MaxPosts : Served(n) /\ UpToDate(n) =>
          /\ verdict'[n].taken
          /\ LET shown == CartTotals(posts[n].tax, posts[n].cart)
             IN  verdict'[n].tax = shown.tax /\ verdict'[n].total = shown.total]_vars

(* The receipt of a sale adds up for whoever reads it, under any tax:      *)
(* items and added tax come to the total, cash less total to the change,   *)
(* on paper and in the browser (receipt.go moneyLines, app.js              *)
(* receiptHTML).                                                           *)
ReceiptAddsUp ==
    [][\A n \in 1..MaxPosts : Served(n) /\ verdict'[n].taken =>
          \A bill \in {verdict'[n].bill} :
          \A sale \in {Sale(bill, shop, verdict'[n], posts[n].paid)} :
          \A items \in {Subtotal(bill)} :
              /\ Balances(MoneyLines(sale), items)
              /\ Balances(BrowserLines(sale), items)]_vars

(* "Sale complete" is only ever shown of a sale that is recorded, however  *)
(* often it was sent and whatever was lost (app.js completeSale).          *)
CompleteIsSaved ==
    sheet = "done" => showing > 0 /\ verdict[showing].taken

(* Saving the tax is two transactions, and a sale may fall between them.   *)
(* If any two taxes the owner ever turned on share their mode or their     *)
(* rate, every sale is still charged as under one the owner chose          *)
(* (web handleSettings, app.js saveTax).                                   *)
Related ==
    \A p, q \in wanted : p.mode # "none" /\ q.mode # "none" =>
        p.mode = q.mode \/ p.rate = q.rate

Due(n) == [tax |-> verdict[n].tax, total |-> verdict[n].total]

ChargedAsChosen ==
    Related => \A n \in 1..MaxPosts : verdict[n].taken =>
        \E c \in wanted : Due(n) = ComputeTax(c, verdict[n].bill)

=============================================================================
