----------------------------- MODULE TillProofs -----------------------------
(***************************************************************************)
(* What holds of the sell page and the sale transaction for every cart,    *)
(* every tax and any number of sales.                                      *)
(*                                                                         *)
(* Two bills come to the same because their lines do.  Of what a sum comes *)
(* to no more is needed than that amounts which are natural numbers add up *)
(* to one, and none to none.                                               *)
(***************************************************************************)
EXTENDS Till, ArithmeticProofs

-----------------------------------------------------------------------------
(* Arithmetic.                                                             *)

(* roundHalfUp returns a whole number within half a unit of n / d, for odd *)
(* and even d alike (tax.go roundHalfUp).                                  *)
THEOREM HalfUpIsNearest ==
    ASSUME NEW n \in Nat, NEW d \in Nat \ {0}
    PROVE  /\ RoundHalfUp(n, d) \in Nat
           /\ 2 * (d * RoundHalfUp(n, d)) <= 2 * n + d
           /\ 2 * n - d <= 2 * (d * RoundHalfUp(n, d))
<1> DEFINE h == d \div 2
           a == n + h
           q == a \div d
<1>1. h \in Nat /\ 2 * h <= d /\ d <= 2 * h + 1
  OBVIOUS
<1>2. a \in Nat
  BY <1>1
<1> HIDE DEF h
<1>3. q \in Int /\ d * q <= a /\ a < d * q + d
  <2> HIDE DEF a
  <2>1. a \div d \in Int /\ a = d * (a \div d) + (a % d) /\ a % d \in 0..(d - 1)
    BY <1>2
  <2> QED BY <2>1, <1>2
<1>4. q >= 0
  <2>1. SUFFICES ASSUME q < 0 PROVE FALSE
    BY <1>3
  <2> QED BY <2>1, <1>2, <1>3
<1>5. RoundHalfUp(n, d) = q
  BY DEF RoundHalfUp, h
<1> QED BY <1>1, <1>3, <1>4, <1>5

(* Tax that the price already contains is never more than the price        *)
(* (tax.go ComputeTax, TaxModeInclusive).                                  *)
THEOREM InclusiveWithinPrice ==
    ASSUME NEW gross \in Nat, NEW rate \in Nat
    PROVE  RoundHalfUp(gross * rate, 10000 + rate) <= gross
<1> DEFINE d == 10000 + rate
           q == RoundHalfUp(gross * rate, d)
<1>1. q \in Nat /\ 2 * (d * q) <= 2 * (gross * rate) + d
  BY HalfUpIsNearest
<1>2. gross * d = gross * 10000 + gross * rate /\ gross * rate \in Nat
  OBVIOUS
<1>3. ASSUME q > gross PROVE FALSE
  <2>1. d * q >= d * (gross + 1)
    BY <1>1, <1>3
  <2>2. d * (gross + 1) = gross * 10000 + gross * rate + d
    OBVIOUS
  <2> QED BY <1>1, <1>2, <2>1, <2>2
<1> QED BY <1>1, <1>3

(* The page's arithmetic is the server's, whatever the cart and the tax    *)
(* (app.js "mirrors the server's ComputeTax exactly").                     *)
THEOREM PageMirrorsServer ==
    ASSUME NEW tax \in Taxes, NEW bill \in Bills
    PROVE  CartTotals(tax, bill) = ComputeTax(tax, bill)
<1> DEFINE taxes == [i \in DOMAIN bill |->
               LineTaxCents(Gross(bill[i]), bill[i].taxable, tax.rate, tax.mode)]
<1>1. \A i \in Ids :
        LineTaxCents(Gross(bill[i]), bill[i].taxable, tax.rate, tax.mode)
            = LineTax(tax, bill[i])
  <2> TAKE i \in Ids
  <2>1. tax.mode \in Modes /\ tax.rate \in Nat /\ bill[i].taxable \in BOOLEAN
    BY DEF Taxes, Bills
  <2>2. CASE tax.mode = "none"
    BY <2>1, <2>2 DEF LineTax, LineTaxCents
  <2>3. CASE tax.mode = "exclusive"
    BY <2>1, <2>3 DEF LineTax, LineTaxCents
  <2>4. CASE tax.mode = "inclusive"
    BY <2>1, <2>4 DEF LineTax, LineTaxCents
  <2> QED BY <2>1, <2>2, <2>3, <2>4 DEF Modes
<1>2. taxes = LineTaxes(tax, bill)
  BY <1>1 DEF LineTaxes, Bills
<1>3. [i \in DOMAIN bill |->
          LineTaxCents([j \in DOMAIN bill |-> Gross(bill[j])][i], bill[i].taxable,
                       tax.rate, tax.mode)] = taxes
  OBVIOUS
<1> QED BY <1>2, <1>3 DEF CartTotals, ComputeTax, Subtotal

-----------------------------------------------------------------------------
(* Sales.                                                                  *)

(* The records keep their fields.  Nothing is said of the amounts in them. *)
PostsShape ==
    /\ DOMAIN posts = 1..MaxPosts
    /\ DOMAIN verdict = 1..MaxPosts
    /\ \A n \in 1..MaxPosts :
          posts[n] = [status |-> posts[n].status, cart |-> posts[n].cart,
                      tax |-> posts[n].tax, paid |-> posts[n].paid]

(* A sale that is recorded is not on its way to the store any more: a      *)
(* second sale can be sent before the answer, but never under its number.  *)
TakenOnce ==
    \A n \in 1..MaxPosts :
        verdict[n].taken => posts[n].status \in {"served", "over"}

SavedInv ==
    /\ PostsShape
    /\ TakenOnce
    /\ sheet = "done" => showing \in 1..MaxPosts /\ verdict[showing].taken

LEMMA InitSaved == Init => SavedInv
  BY DEF Init, SavedInv, PostsShape, TakenOnce, Post, NoVerdict

LEMMA StepKeepsSaved ==
    ASSUME SavedInv, [Next]_vars
    PROVE  SavedInv'
<1> USE DEF SavedInv, PostsShape, TakenOnce, store, page
<1>1. CASE LoadProducts
  BY <1>1 DEF LoadProducts
<1>2. CASE LoadSettings
  BY <1>2 DEF LoadSettings
<1>3. ASSUME NEW i \in Ids, AddToCart(i) PROVE SavedInv'
  BY <1>3 DEF AddToCart
<1>4. ASSUME NEW i \in Ids, NEW q \in 0..MaxQty, SetQty(i, q) PROVE SavedInv'
  BY <1>4 DEF SetQty
<1>5. CASE ClearCart
  BY <1>5 DEF ClearCart
<1>6. CASE OpenPayment
  BY <1>6 DEF OpenPayment
<1>7. CASE CloseSheet
  BY <1>7 DEF CloseSheet
<1>8. ASSUME NEW n \in 1..MaxPosts, NEW change \in {0, 1}, CompleteSale(n, change)
      PROVE  SavedInv'
  BY <1>8 DEF CompleteSale
<1>9. ASSUME NEW n \in 1..MaxPosts, Serve(n) PROVE SavedInv'
  <2>1. \A k \in 1..MaxPosts : k # n => verdict'[k] = verdict[k] /\ posts'[k] = posts[k]
    BY <1>9 DEF Serve
  <2>2. posts'[n] = Post("served") \/ posts'[n] = Post("over")
    BY <1>9 DEF Serve
  <2>3. ~verdict[n].taken
    BY <1>9 DEF Serve
  <2>4. PostsShape'
    BY <2>1, <2>2, <1>9 DEF Serve, Post
  <2>5. TakenOnce'
    BY <2>1, <2>2, <1>9 DEF Serve, Post
  <2> QED BY <2>1, <2>3, <2>4, <2>5, <1>9 DEF Serve
<1>10. ASSUME NEW n \in 1..MaxPosts, Reply(n) PROVE SavedInv'
  <2>1. \A k \in 1..MaxPosts : k # n => posts'[k] = posts[k]
    BY <1>10 DEF Reply
  <2>2. posts'[n] = Post("over") /\ verdict' = verdict /\ DOMAIN posts' = 1..MaxPosts
    BY <1>10 DEF Reply
  <2>3. PostsShape' /\ TakenOnce'
    BY <2>1, <2>2 DEF Post
  <2> QED BY <2>2, <2>3, <1>10 DEF Reply
<1>11. ASSUME NEW n \in 1..MaxPosts, AnswerLost(n) PROVE SavedInv'
  BY <1>11 DEF AnswerLost, Post
<1>12. ASSUME NEW i \in Ids, NEW row \in Rows, UpdateProduct(i, row) PROVE SavedInv'
  BY <1>12 DEF UpdateProduct
<1>13. ASSUME NEW k \in 1..MaxSaves, NEW c \in Choices, SaveTax(k, c) PROVE SavedInv'
  BY <1>13 DEF SaveTax
<1>14. ASSUME NEW k \in 1..MaxSaves, NEW key \in {"mode", "rate"}, SetSetting(k, key)
       PROVE  SavedInv'
  BY <1>14 DEF SetSetting
<1>15. ASSUME NEW k \in 1..MaxSaves, SaveReply(k) PROVE SavedInv'
  BY <1>15 DEF SaveReply
<1>16. ASSUME NEW k \in 1..MaxSaves, SaveFails(k) PROVE SavedInv'
  BY <1>16 DEF SaveFails
<1>17. CASE Reload
  BY <1>17 DEF Reload
<1>18. CASE UNCHANGED vars
  BY <1>18 DEF vars
<1> QED BY <1>1, <1>2, <1>3, <1>4, <1>5, <1>6, <1>7, <1>8, <1>9, <1>10, <1>11,
           <1>12, <1>13, <1>14, <1>15, <1>16, <1>17, <1>18 DEF Next

(* "Sale complete" is only ever shown of a recorded sale.                  *)
THEOREM SavedBeforeShown == Spec => []CompleteIsSaved
<1>1. SavedInv => CompleteIsSaved
  BY DEF SavedInv, CompleteIsSaved
<1> QED BY <1>1, InitSaved, StepKeepsSaved, PTL DEF Spec

-----------------------------------------------------------------------------
(* Taxes.                                                                  *)

(* Each of the two settings comes from some tax the owner chose, not       *)
(* necessarily from the same one: saves cross each other and break off.    *)
TaxInv ==
    /\ shop \in Taxes
    /\ wanted \subseteq Choices \cup {Untaxed}
    /\ Untaxed \in wanted
    /\ \E p \in wanted : p.mode = shop.mode
    /\ \E q \in wanted : q.rate = shop.rate
    /\ saves \in [1..MaxSaves ->
           [status : {"none", "sent", "orphan", "over"}, left : SUBSET {"mode", "rate"},
            tax : Choices \cup {Untaxed}]]
    /\ \A k \in 1..MaxSaves : saves[k].tax \in wanted

(* A sale with the tax off is untaxed, whichever setting turns it off.     *)
LEMMA OffIsUntaxed ==
    ASSUME NEW tax \in Taxes, tax.mode = "none" \/ tax.rate = 0, NEW bill
    PROVE  ComputeTax(tax, bill) = ComputeTax(Untaxed, bill)
<1>1. LineTaxes(tax, bill) = LineTaxes(Untaxed, bill)
  BY DEF LineTaxes, LineTax, Untaxed, Taxes
<1>2. ~(tax.mode = "exclusive" /\ tax.rate > 0)
  BY DEF Taxes
<1> QED BY <1>1, <1>2 DEF ComputeTax, Untaxed

(* Two related choices leave nothing in between that was not chosen.       *)
LEMMA ShopIsChosen ==
    ASSUME TaxInv, Related, NEW bill
    PROVE  \E c \in wanted : ComputeTax(shop, bill) = ComputeTax(c, bill)
<1>1. CASE shop.mode = "none" \/ shop.rate = 0
  BY <1>1, OffIsUntaxed DEF TaxInv
<1>2. CASE shop.mode # "none" /\ shop.rate # 0
  <2>1. PICK p \in wanted : p.mode = shop.mode
    BY DEF TaxInv
  <2>2. PICK q \in wanted : q.rate = shop.rate
    BY DEF TaxInv
  <2>3. p \in Taxes /\ q \in Taxes /\ shop \in Taxes
    BY TillAssumption DEF TaxInv, Taxes, Untaxed, Modes
  <2>4. q.mode # "none"
    BY <2>2, <1>2, TillAssumption DEF TaxInv, Untaxed
  <2>5. p.mode = q.mode \/ p.rate = q.rate
    BY <2>1, <2>4, <1>2 DEF Related
  <2>6. shop = p \/ shop = q
    BY <2>1, <2>2, <2>3, <2>5 DEF Taxes
  <2> QED BY <2>6
<1> QED BY <1>1, <1>2

LEMMA InitTax == Init => TaxInv
<1> SUFFICES ASSUME Init PROVE TaxInv
  OBVIOUS
<1>1. shop \in Taxes /\ shop \in wanted /\ wanted = {Untaxed, shop}
  BY TillAssumption DEF Init, Taxes, Untaxed, Modes
<1>2. saves = [k \in 1..MaxSaves |-> Save("none")]
  BY DEF Init
<1>3. Save("none") \in [status : {"none", "sent", "orphan", "over"},
                       left : SUBSET {"mode", "rate"}, tax : Choices \cup {Untaxed}]
  BY DEF Save
<1>4. \A k \in 1..MaxSaves : saves[k].tax = Untaxed
  BY <1>2 DEF Save
<1> QED BY <1>1, <1>2, <1>3, <1>4 DEF TaxInv, Init

LEMMA StepKeepsTax ==
    ASSUME TaxInv, [Next]_vars
    PROVE  TaxInv'
<1> USE DEF TaxInv, store, page
<1>1. CASE UNCHANGED <<shop, saves, wanted>>
  BY <1>1
<1>2. ASSUME NEW k \in 1..MaxSaves, NEW c \in Choices, SaveTax(k, c) PROVE TaxInv'
  <2>1. wanted' = wanted \cup {c} /\ shop' = shop
    BY <1>2 DEF SaveTax
  <2>2. saves' = [saves EXCEPT ![k] =
            [tax |-> c, left |-> {"mode", "rate"}, status |-> "sent"]]
    BY <1>2 DEF SaveTax
  <2>3. \A j \in 1..MaxSaves : saves'[j].tax \in wanted'
    BY <2>1, <2>2
  <2> QED BY <2>1, <2>2, <2>3
<1>3. ASSUME NEW k \in 1..MaxSaves, NEW key \in {"mode", "rate"}, SetSetting(k, key)
      PROVE  TaxInv'
  <2>1. saves' = [saves EXCEPT ![k].left = @ \ {key}] /\ wanted' = wanted
    BY <1>3 DEF SetSetting
  <2>2. /\ saves' \in [1..MaxSaves ->
              [status : {"none", "sent", "orphan", "over"},
               left : SUBSET {"mode", "rate"}, tax : Choices \cup {Untaxed}]]
        /\ \A j \in 1..MaxSaves : saves'[j].tax \in wanted'
    BY <2>1
  <2>3. saves[k].tax \in wanted /\ saves[k].tax \in Taxes
    BY TillAssumption DEF Taxes, Untaxed, Modes
  <2>4. CASE key = "mode"
    <3>1. shop' = [shop EXCEPT !.mode = saves[k].tax.mode]
      BY <1>3, <2>4 DEF SetSetting
    <3>2. shop' \in Taxes /\ shop'.mode = saves[k].tax.mode /\ shop'.rate = shop.rate
      BY <3>1, <2>3 DEF Taxes
    <3> QED BY <2>1, <2>2, <2>3, <3>2
  <2>5. CASE key = "rate"
    <3>1. shop' = [shop EXCEPT !.rate = saves[k].tax.rate]
      BY <1>3, <2>5 DEF SetSetting
    <3>2. shop' \in Taxes /\ shop'.mode = shop.mode /\ shop'.rate = saves[k].tax.rate
      BY <3>1, <2>3 DEF Taxes
    <3> QED BY <2>1, <2>2, <2>3, <3>2
  <2> QED BY <2>4, <2>5
<1>4. ASSUME NEW k \in 1..MaxSaves, SaveReply(k) \/ SaveFails(k) PROVE TaxInv'
  <2>1. saves' = [saves EXCEPT ![k] = Save("over")]
    BY <1>4 DEF SaveReply, SaveFails
  <2>2. UNCHANGED <<shop, wanted>>
    BY <1>4 DEF SaveReply, SaveFails
  <2>3. Save("over") \in [status : {"none", "sent", "orphan", "over"},
            left : SUBSET {"mode", "rate"}, tax : Choices \cup {Untaxed}]
    BY DEF Save
  <2>4. Save("over").tax = Untaxed
    BY DEF Save
  <2> QED BY <2>1, <2>2, <2>3, <2>4
<1>5. CASE Reload
  <2>1. UNCHANGED <<shop, wanted>>
    BY <1>5 DEF Reload
  <2>2. saves' = [k \in 1..MaxSaves |->
            [saves[k] EXCEPT !.status = IF @ = "sent" THEN "orphan" ELSE @]]
    BY <1>5 DEF Reload
  <2>3. ASSUME NEW k \in 1..MaxSaves
        PROVE  /\ saves'[k] \in [status : {"none", "sent", "orphan", "over"},
                   left : SUBSET {"mode", "rate"}, tax : Choices \cup {Untaxed}]
               /\ saves'[k].tax = saves[k].tax
    <3>1. CASE saves[k].status = "sent"
      <4>1. saves'[k] = [saves[k] EXCEPT !.status = "orphan"]
        BY <2>2, <3>1
      <4> QED BY <4>1
    <3>2. CASE saves[k].status # "sent"
      <4>1. saves'[k] = [saves[k] EXCEPT !.status = saves[k].status]
        BY <2>2, <3>2
      <4> QED BY <4>1
    <3> QED BY <3>1, <3>2
  <2> QED BY <2>1, <2>2, <2>3
<1> QED BY <1>1, <1>2, <1>3, <1>4, <1>5
    DEF Next, vars, LoadProducts, LoadSettings, AddToCart, SetQty, ClearCart,
        OpenPayment, CloseSheet, CompleteSale, Serve, Reply, AnswerLost, UpdateProduct

(* Every recorded sale, as long as the owner's choices are related, is     *)
(* charged as under one of them.                                           *)
LEMMA StepKeepsCharge ==
    ASSUME SavedInv, TaxInv, ChargedAsChosen, [Next]_vars
    PROVE  ChargedAsChosen'
<1> SUFFICES ASSUME Related' PROVE
        \A n \in 1..MaxPosts : verdict'[n].taken =>
            \E c \in wanted' : Due(n)' = ComputeTax(c, verdict'[n].bill)
  BY DEF ChargedAsChosen
<1>1. wanted \subseteq wanted'
  BY DEF Next, vars, LoadProducts, LoadSettings, AddToCart, SetQty, ClearCart,
         OpenPayment, CloseSheet, CompleteSale, Serve, Reply, AnswerLost,
         UpdateProduct, SaveTax, SetSetting, SaveReply, SaveFails, Reload
<1>2. Related
  BY <1>1 DEF Related
<1>3. TAKE n \in 1..MaxPosts
<1>4. CASE verdict'[n] = verdict[n]
  BY <1>1, <1>2, <1>4 DEF ChargedAsChosen, Due
<1>5. CASE verdict'[n] = CreateSale(n) /\ UNCHANGED wanted
  <2>1. SUFFICES ASSUME verdict'[n].taken PROVE
            \E c \in wanted' : Due(n)' = ComputeTax(c, verdict'[n].bill)
    OBVIOUS
  <2>2. verdict'[n] = [taken |-> TRUE, bill |-> Priced(posts[n].cart),
                       tax |-> ComputeTax(shop, Priced(posts[n].cart)).tax,
                       total |-> ComputeTax(shop, Priced(posts[n].cart)).total]
    BY <1>5, <2>1 DEF CreateSale, NoVerdict
  <2>3. Due(n)' = ComputeTax(shop, verdict'[n].bill)
    BY <2>2 DEF Due, ComputeTax
  <2> QED BY <2>3, <1>2, <1>5, ShopIsChosen
<1>6. verdict'[n] = verdict[n] \/ (verdict'[n] = CreateSale(n) /\ UNCHANGED wanted)
  BY ZenonT(30) DEF SavedInv, PostsShape, Next, vars, store, page, LoadProducts, LoadSettings,
         AddToCart, SetQty, ClearCart, OpenPayment, CloseSheet, CompleteSale, Serve,
         Reply, AnswerLost, UpdateProduct, SaveTax, SetSetting, SaveReply, SaveFails,
         Reload
<1> QED BY <1>4, <1>5, <1>6

(* Saving the tax in two transactions charges no sale in a way the owner   *)
(* did not choose, if the choices are related.                             *)
THEOREM FairCharge == Spec => []ChargedAsChosen
<1>1. Init => ChargedAsChosen
  BY DEF Init, ChargedAsChosen, NoVerdict
<1> QED BY <1>1, InitSaved, StepKeepsSaved, InitTax, StepKeepsTax, StepKeepsCharge,
           PTL DEF Spec

-----------------------------------------------------------------------------
(* Types.                                                                  *)

LEMMA PageTyped ==
    ASSUME TypeOK, SavedInv, TaxInv, [Next]_vars
    PROVE  /\ item' \in [Ids -> Rows] /\ list' \in [Ids -> Rows]
           /\ known' \in Taxes /\ edits' \in 0..MaxEdits
           /\ sheet' \in {"none", "pay", "done"} /\ showing' \in 0..MaxPosts
           /\ cart' \in Bills
<1> USE DEF TypeOK, store, page
<1>1. item' \in [Ids -> Rows] /\ edits' \in 0..MaxEdits
  <2>1. ASSUME NEW i \in Ids, NEW row \in Rows, UpdateProduct(i, row)
        PROVE  item' \in [Ids -> Rows] /\ edits' \in 0..MaxEdits
    BY <2>1, TillAssumption DEF UpdateProduct
  <2>2. CASE UNCHANGED <<item, edits>>
    BY <2>2
  <2> QED
    BY <2>1, <2>2 DEF Next, vars, LoadProducts, LoadSettings, AddToCart, SetQty, ClearCart,
           OpenPayment, CloseSheet, CompleteSale, Serve, Reply, AnswerLost,
           SaveTax, SetSetting, SaveReply, SaveFails, Reload
<1>2. list' \in [Ids -> Rows]
  <2>1. list' = list \/ list' = item
    BY DEF Next, vars, LoadProducts, LoadSettings, AddToCart, SetQty, ClearCart,
           OpenPayment, CloseSheet, CompleteSale, Serve, Reply, AnswerLost,
           UpdateProduct, SaveTax, SetSetting, SaveReply, SaveFails, Reload
  <2> QED BY <2>1
<1>3. sheet' \in {"none", "pay", "done"} /\ showing' \in 0..MaxPosts
  <2>1. ASSUME NEW n \in 1..MaxPosts, Reply(n)
        PROVE  sheet' \in {"none", "pay", "done"} /\ showing' \in 0..MaxPosts
    BY <2>1, TillAssumption DEF Reply
  <2>2. CASE OpenPayment \/ CloseSheet \/ Reload
    BY <2>2, TillAssumption DEF OpenPayment, CloseSheet, Reload
  <2>3. CASE UNCHANGED <<sheet, showing>>
    BY <2>3
  <2> QED
    BY <2>1, <2>2, <2>3 DEF Next, vars, LoadProducts, LoadSettings, AddToCart, SetQty,
       ClearCart, CompleteSale, Serve, AnswerLost, UpdateProduct, SaveTax, SetSetting,
       SaveReply, SaveFails
<1>4. Choices \cup {Untaxed} \subseteq Taxes
  BY TillAssumption DEF Taxes, Untaxed, Modes
<1>5. known' \in Taxes
  <2>1. known' = known \/ known' = shop \/ \E k \in 1..MaxSaves : known' = saves[k].tax
    BY DEF Next, vars, LoadProducts, LoadSettings, AddToCart, SetQty, ClearCart,
         OpenPayment, CloseSheet, CompleteSale, Serve, Reply, AnswerLost,
         UpdateProduct, SaveTax, SetSetting, SaveReply, SaveFails, Reload
  <2> QED BY <2>1, <1>4
<1>6. Empty \in Bills
  BY DEF Empty, Bills
<1>7. cart' \in Bills
  <2>1. ASSUME NEW i \in Ids, AddToCart(i) PROVE cart' \in Bills
    <3>1. list[i] \in [price : Nat, taxable : BOOLEAN]
      BY TillAssumption
    <3>2. cart[i] \in [price : Nat, taxable : BOOLEAN, qty : Nat]
      BY DEF Bills
    <3>3. [cart[i] EXCEPT !.qty = cart[i].qty + 1]
              \in [price : Nat, taxable : BOOLEAN, qty : Nat]
      BY <3>2
    <3>4. [price |-> list[i].price, taxable |-> list[i].taxable, qty |-> 1]
              \in [price : Nat, taxable : BOOLEAN, qty : Nat]
      BY <3>1
    <3>5. \E line \in [price : Nat, taxable : BOOLEAN, qty : Nat] :
              cart' = [cart EXCEPT ![i] = line]
      <4>1. CASE cart[i].qty > 0
        <5>1. cart' = [cart EXCEPT ![i] = [cart[i] EXCEPT !.qty = cart[i].qty + 1]]
          BY <2>1, <4>1 DEF AddToCart
        <5> QED BY <3>3, <5>1
      <4>2. CASE ~(cart[i].qty > 0)
        <5>1. cart' = [cart EXCEPT ![i] =
                  [price |-> list[i].price, taxable |-> list[i].taxable, qty |-> 1]]
          BY <2>1, <4>2 DEF AddToCart
        <5> QED BY <3>4, <5>1
      <4> QED BY <4>1, <4>2
    <3> QED BY <3>5 DEF Bills
  <2>2. ASSUME NEW i \in Ids, NEW q \in 0..MaxQty, SetQty(i, q) PROVE cart' \in Bills
    <3>1. cart[i] \in [price : Nat, taxable : BOOLEAN, qty : Nat] /\ q \in Nat
      BY TillAssumption DEF Bills
    <3>2. [cart[i] EXCEPT !.qty = q] \in [price : Nat, taxable : BOOLEAN, qty : Nat]
      BY <3>1
    <3>3. Empty[i] \in [price : Nat, taxable : BOOLEAN, qty : Nat]
      BY DEF Empty
    <3>4. \E line \in [price : Nat, taxable : BOOLEAN, qty : Nat] :
              cart' = [cart EXCEPT ![i] = line]
      BY <2>2, <3>2, <3>3 DEF SetQty
    <3> QED BY <3>4 DEF Bills
  <2>3. CASE cart' = cart \/ cart' = Empty
    BY <2>3, <1>6
  <2> QED BY <2>1, <2>2, <2>3 DEF Next, vars, LoadProducts, LoadSettings, ClearCart,
         OpenPayment, CloseSheet, CompleteSale, Serve, Reply, AnswerLost,
         UpdateProduct, SaveTax, SetSetting, SaveReply, SaveFails, Reload
<1> QED BY <1>1, <1>2, <1>3, <1>5, <1>7

LEMMA PostsTyped ==
    ASSUME TypeOK, SavedInv, [Next]_vars, NEW n \in 1..MaxPosts
    PROVE  /\ posts'[n].status \in {"none", "sent", "served", "orphan", "over"}
           /\ posts'[n].cart \in Bills /\ posts'[n].tax \in Taxes
           /\ verdict'[n].taken \in BOOLEAN /\ verdict'[n].bill \in Bills
<1> USE DEF TypeOK, SavedInv, PostsShape, store, page
<1>1. Empty \in Bills /\ Untaxed \in Taxes
  BY DEF Empty, Bills, Untaxed, Taxes, Modes
<1>2. ASSUME NEW m \in 1..MaxPosts, NEW change \in {0, 1}, CompleteSale(m, change)
      PROVE  /\ posts'[n] = posts[n] \/ (/\ posts'[n].status = "sent"
                                         /\ posts'[n].cart = cart
                                         /\ posts'[n].tax = known)
             /\ verdict' = verdict
  BY <1>2 DEF CompleteSale
<1>3. ASSUME NEW m \in 1..MaxPosts, Serve(m)
      PROVE  /\ posts'[n] \in {posts[n], Post("served"), Post("over")}
             /\ verdict'[n] = verdict[n] \/ verdict'[n] = CreateSale(n)
  BY <1>3 DEF Serve
<1>4. ASSUME NEW m \in 1..MaxPosts, Reply(m) \/ AnswerLost(m)
      PROVE  posts'[n] \in {posts[n], Post("over")} /\ verdict' = verdict
  BY <1>4 DEF Reply, AnswerLost
<1>5. ASSUME Reload
      PROVE  /\ posts'[n].status \in {"orphan", "over", posts[n].status}
             /\ posts'[n].cart = posts[n].cart /\ posts'[n].tax = posts[n].tax
             /\ verdict' = verdict
  <2>1. posts'[n] = [posts[n] EXCEPT !.status =
            IF posts[n].status = "sent" THEN "orphan"
            ELSE IF posts[n].status = "served" THEN "over" ELSE posts[n].status]
    BY <1>5 DEF Reload
  <2> QED BY <1>5, <2>1 DEF Reload
<1>6. CreateSale(n).taken \in BOOLEAN /\ CreateSale(n).bill \in Bills
  <2>1. Priced(posts[n].cart) \in Bills
    BY <1>1, TillAssumption DEF Priced, Bills, Empty
  <2> QED BY <1>1, <2>1 DEF CreateSale, NoVerdict
<1>7. CASE UNCHANGED <<posts, verdict>>
  BY <1>7
<1>8. \A status \in {"served", "over"} :
          /\ Post(status).status = status
          /\ Post(status).cart \in Bills /\ Post(status).tax \in Taxes
  BY <1>1 DEF Post
<1>9. ASSUME NEW m \in 1..MaxPosts, Serve(m) \/ Reply(m) \/ AnswerLost(m)
      PROVE  /\ posts'[n].status \in {"none", "sent", "served", "orphan", "over"}
             /\ posts'[n].cart \in Bills /\ posts'[n].tax \in Taxes
             /\ verdict'[n].taken \in BOOLEAN /\ verdict'[n].bill \in Bills
  BY <1>9, <1>3, <1>4, <1>6, <1>8
<1> QED BY <1>2, <1>5, <1>7, <1>9, ZenonT(30)
    DEF Next, vars, LoadProducts, LoadSettings, AddToCart, SetQty, ClearCart,
        OpenPayment, CloseSheet, UpdateProduct, SaveTax, SetSetting, SaveReply, SaveFails

LEMMA InitTyped == Init => TypeOK
<1> SUFFICES ASSUME Init PROVE TypeOK
  OBVIOUS
<1>1. Empty \in Bills /\ Untaxed \in Taxes /\ Choices \subseteq Taxes
  BY TillAssumption DEF Empty, Bills, Untaxed, Taxes, Modes
<1>2. \A n \in 1..MaxPosts :
          /\ posts[n].status = "none" /\ posts[n].cart = Empty /\ posts[n].tax = Untaxed
          /\ verdict[n].taken = FALSE /\ verdict[n].bill = Empty
  BY DEF Init, Post, NoVerdict
<1>3. \A n \in 1..MaxPosts :
          /\ posts[n].status \in {"none", "sent", "served", "orphan", "over"}
          /\ posts[n].cart \in Bills /\ posts[n].tax \in Taxes
          /\ verdict[n].taken \in BOOLEAN /\ verdict[n].bill \in Bills
  BY <1>1, <1>2
<1>4. shop \in Taxes /\ known \in Taxes /\ cart \in Bills
  BY <1>1 DEF Init
<1>5. item \in [Ids -> Rows] /\ list \in [Ids -> Rows]
  BY DEF Init
<1>6. /\ sheet \in {"none", "pay", "done"} /\ showing \in 0..MaxPosts
      /\ edits \in 0..MaxEdits
  BY TillAssumption DEF Init
<1>7. TaxInv
  BY InitTax
<1> QED BY <1>3, <1>4, <1>5, <1>6, <1>7 DEF TypeOK, TaxInv

(* What the page and the store hold is of its type, through repeats, lost  *)
(* answers, reloads and saves that break off.                              *)
THEOREM Typed == Spec => []TypeOK
<1>1. TypeOK /\ SavedInv /\ TaxInv /\ [Next]_vars => TypeOK'
  <2> SUFFICES ASSUME TypeOK, SavedInv, TaxInv, [Next]_vars PROVE TypeOK'
    OBVIOUS
  <2>1. TaxInv'
    BY StepKeepsTax
  <2>2. \A n \in 1..MaxPosts :
            /\ posts'[n].status \in {"none", "sent", "served", "orphan", "over"}
            /\ posts'[n].cart \in Bills /\ posts'[n].tax \in Taxes
            /\ verdict'[n].taken \in BOOLEAN /\ verdict'[n].bill \in Bills
    BY PostsTyped
  <2> QED BY <2>1, <2>2, PageTyped DEF TypeOK, TaxInv
<1> QED BY <1>1, InitTyped, InitSaved, StepKeepsSaved, InitTax, StepKeepsTax, PTL DEF Spec

-----------------------------------------------------------------------------
(* Amounts.                                                                *)

(* Each line of a bill costs, and is taxed, a whole number of cents.       *)
LEMMA LinesAreNat ==
    ASSUME NEW tax \in Taxes, NEW bill \in Bills, NEW i \in Ids
    PROVE  Gross(bill[i]) \in Nat /\ LineTax(tax, bill[i]) \in Nat
<1>1. bill[i].price \in Nat /\ bill[i].qty \in Nat /\ tax.rate \in Nat
  BY DEF Bills, Taxes
<1>2. Gross(bill[i]) \in Nat
  BY <1>1 DEF Gross
<1>3. Gross(bill[i]) * tax.rate \in Nat
  BY <1>1, <1>2
<1>4. \A d \in Nat \ {0} : RoundHalfUp(Gross(bill[i]) * tax.rate, d) \in Nat
  BY <1>3, HalfUpIsNearest
<1>5. 10000 + tax.rate \in Nat \ {0} /\ 10000 \in Nat \ {0}
  BY <1>1
<1> QED BY <1>2, <1>4, <1>5 DEF LineTax

(* ... and the bill too; its total is the items, and the tax if it is not  *)
(* contained in them.                                                      *)
LEMMA BillIsSound ==
    ASSUME NEW tax \in Taxes, NEW bill \in Bills
    PROVE  LET due == ComputeTax(tax, bill)
           IN  /\ Subtotal(bill) \in Nat /\ due.tax \in Nat
               /\ due.total \in Nat
               /\ due.total = IF tax.mode = "inclusive" THEN Subtotal(bill)
                                                      ELSE Subtotal(bill) + due.tax
<1> DEFINE gross == [i \in DOMAIN bill |-> Gross(bill[i])]
           sum == SumFunction(LineTaxes(tax, bill))
<1>1. DOMAIN bill = Ids /\ IsFiniteSet(Ids)
  BY TillAssumption DEF Bills
<1>2. Subtotal(bill) \in Nat
  <2>1. \A i \in Ids : gross[i] \in Nat
    BY <1>1, LinesAreNat
  <2>2. SumFunctionOnSet(gross, Ids) \in Nat
    <3> HIDE DEF gross
    <3> QED BY <1>1, <2>1, SumIsNat
  <2> QED BY <1>1, <2>2 DEF Subtotal, SumFunction
<1>3. sum \in Nat
  <2>1. \A i \in Ids : LineTaxes(tax, bill)[i] \in Nat
    BY <1>1, LinesAreNat DEF LineTaxes
  <2>2. SumFunctionOnSet(LineTaxes(tax, bill), Ids) \in Nat
    BY <1>1, <2>1, SumIsNat
  <2> QED BY <1>1, <2>2 DEF LineTaxes, SumFunction
<1>4. ASSUME tax.mode = "none" \/ tax.rate = 0 PROVE sum = 0
  <2>1. \A i \in Ids : LineTaxes(tax, bill)[i] = 0
    BY <1>1, <1>4 DEF LineTaxes, LineTax, Taxes
  <2>2. SumFunctionOnSet(LineTaxes(tax, bill), Ids) = 0
    BY <1>1, <2>1, SumOfZeros
  <2> QED BY <1>1, <2>2 DEF LineTaxes, SumFunction
<1>5. /\ ComputeTax(tax, bill).tax = sum
      /\ ComputeTax(tax, bill).total =
            IF tax.mode = "exclusive" /\ tax.rate > 0 THEN Subtotal(bill) + sum
                                                      ELSE Subtotal(bill)
  BY DEF ComputeTax
<1>6. tax.mode \in Modes /\ tax.rate \in Nat
  BY DEF Taxes
<1> HIDE DEF sum
<1> QED BY <1>2, <1>3, <1>4, <1>5, <1>6 DEF Modes

(* Nothing is charged for a line of no pieces, whatever its item.          *)
LEMMA NothingOfNone ==
    ASSUME NEW tax \in Taxes, NEW line \in [price : Nat, taxable : BOOLEAN, qty : Nat],
           line.qty = 0
    PROVE  Gross(line) = 0 /\ LineTax(tax, line) = 0
<1>1. Gross(line) = 0
  BY DEF Gross
<1>2. tax.rate \in Nat
  BY DEF Taxes
<1>3. ASSUME NEW d \in Nat \ {0} PROVE RoundHalfUp(0, d) = 0
  BY DEF RoundHalfUp
<1>4. 0 * tax.rate = 0 /\ 10000 + tax.rate \in Nat \ {0}
  BY <1>2
<1> QED BY <1>1, <1>3, <1>4 DEF LineTax

(* A sale of which the copies are still true is priced at the server as    *)
(* the page priced it.                                                     *)
LEMMA PricedAsShown ==
    ASSUME TypeOK, NEW n \in 1..MaxPosts, UpToDate(n)
    PROVE  CartTotals(posts[n].tax, posts[n].cart) = ComputeTax(shop, Priced(posts[n].cart))
<1> DEFINE wants == posts[n].cart
           bill == Priced(wants)
<1>1. wants \in Bills /\ posts[n].tax = shop /\ shop \in Taxes
  BY DEF TypeOK, UpToDate
<1>2. ASSUME NEW i \in Ids
      PROVE  Gross(bill[i]) = Gross(wants[i]) /\ LineTax(shop, bill[i]) = LineTax(shop, wants[i])
  <2>1. wants[i] \in [price : Nat, taxable : BOOLEAN, qty : Nat]
    BY <1>1 DEF Bills
  <2>2. CASE wants[i].qty > 0
    <3>1. /\ bill[i].price = wants[i].price /\ bill[i].taxable = wants[i].taxable
          /\ bill[i].qty = wants[i].qty
      BY <2>2 DEF Priced, UpToDate
    <3> HIDE DEF bill, wants
    <3> QED BY <3>1 DEF Gross, LineTax
  <2>3. CASE ~(wants[i].qty > 0)
    <3>1. wants[i].qty = 0
      BY <2>1, <2>3
    <3>2. bill[i] = Empty[i]
      BY <2>3 DEF Priced
    <3>3. Empty[i] \in [price : Nat, taxable : BOOLEAN, qty : Nat] /\ Empty[i].qty = 0
      BY DEF Empty
    <3> HIDE DEF bill, wants
    <3> QED BY <1>1, <2>1, <3>1, <3>2, <3>3, NothingOfNone
  <2> QED BY <2>2, <2>3
<1>3. DOMAIN bill = Ids /\ DOMAIN wants = Ids
  BY <1>1 DEF Priced, Bills
<1> HIDE DEF bill, wants
<1>4. LineTaxes(shop, bill) = LineTaxes(shop, wants)
  BY <1>2, <1>3 DEF LineTaxes
<1>5. Subtotal(bill) = Subtotal(wants)
  <2>1. [i \in Ids |-> Gross(bill[i])] = [i \in Ids |-> Gross(wants[i])]
    BY <1>2
  <2> QED BY <1>3, <2>1 DEF Subtotal
<1>6. ComputeTax(shop, bill) = ComputeTax(shop, wants)
  BY <1>4, <1>5 DEF ComputeTax
<1>7. CartTotals(shop, wants) = ComputeTax(shop, wants)
  BY <1>1, PageMirrorsServer
<1> QED BY <1>1, <1>6, <1>7 DEF bill, wants

(* The cashier takes no less than the page showed.  A page that is closed  *)
(* leaves its sale as it was sent.                                         *)
PaidInv ==
    \A n \in 1..MaxPosts :
        /\ posts[n].paid \in Nat
        /\ posts[n].status \in {"sent", "orphan"} =>
              posts[n].paid >= CartTotals(posts[n].tax, posts[n].cart).total

LEMMA InitPaid == Init => PaidInv
  BY DEF Init, PaidInv, Post

LEMMA StepKeepsPaid ==
    ASSUME TypeOK, SavedInv, PaidInv, [Next]_vars
    PROVE  PaidInv'
<1> USE DEF PaidInv, SavedInv, PostsShape, store, page
<1>1. ASSUME NEW n \in 1..MaxPosts, NEW change \in {0, 1}, CompleteSale(n, change)
      PROVE  PaidInv'
  <2>1. CartTotals(known, cart).total \in Nat
    BY PageMirrorsServer, BillIsSound DEF TypeOK
  <2>2. /\ posts'[n].cart = cart /\ posts'[n].tax = known
        /\ posts'[n].paid = CartTotals(known, cart).total + change
    BY <1>1 DEF CompleteSale, Shown
  <2>3. posts'[n].paid \in Nat /\ posts'[n].paid >= CartTotals(known, cart).total
    BY <2>1, <2>2
  <2>4. \A k \in 1..MaxPosts : k # n => posts'[k] = posts[k]
    BY <1>1 DEF CompleteSale
  <2> QED BY <2>2, <2>3, <2>4
<1>2. ASSUME NEW n \in 1..MaxPosts, Serve(n) \/ Reply(n) \/ AnswerLost(n) PROVE PaidInv'
  <2>1. \A k \in 1..MaxPosts : k # n => posts'[k] = posts[k]
    BY <1>2 DEF Serve, Reply, AnswerLost
  <2>2. posts'[n] = Post("served") \/ posts'[n] = Post("over")
    BY <1>2 DEF Serve, Reply, AnswerLost
  <2>3. posts'[n].paid = 0 /\ posts'[n].status \notin {"sent", "orphan"}
    BY <2>2 DEF Post
  <2> QED BY <2>1, <2>3
<1>3. CASE Reload
  <2>1. ASSUME NEW n \in 1..MaxPosts
        PROVE  /\ posts'[n].paid = posts[n].paid
               /\ posts'[n].cart = posts[n].cart /\ posts'[n].tax = posts[n].tax
               /\ posts'[n].status \in {"sent", "orphan"} =>
                     posts[n].status \in {"sent", "orphan"}
    <3>1. posts'[n] = [posts[n] EXCEPT !.status =
              IF posts[n].status = "sent" THEN "orphan"
              ELSE IF posts[n].status = "served" THEN "over" ELSE posts[n].status]
      BY <1>3 DEF Reload
    <3> QED BY <3>1
  <2> QED BY <2>1
<1>4. CASE UNCHANGED posts
  BY <1>4
<1> QED BY <1>1, <1>2, <1>3, <1>4
    DEF Next, vars, LoadProducts, LoadSettings, AddToCart, SetQty, ClearCart,
        OpenPayment, CloseSheet, UpdateProduct, SaveTax, SetSetting, SaveReply, SaveFails

AmountsInv == TypeOK /\ SavedInv /\ PaidInv

LEMMA AmountsHold == Spec => []AmountsInv
<1>1. TypeOK /\ SavedInv /\ PaidInv /\ [Next]_vars => PaidInv'
  BY StepKeepsPaid
<1> QED BY <1>1, InitPaid, Typed, InitSaved, StepKeepsSaved, PTL DEF Spec, AmountsInv

(* Only the store answers a sale, and with what it then records.           *)
LEMMA ServedIsCreated ==
    ASSUME AmountsInv, [Next]_vars, NEW n \in 1..MaxPosts, Served(n)
    PROVE  /\ verdict'[n] = CreateSale(n)
           /\ posts[n].status \in {"sent", "orphan"}
           /\ UNCHANGED <<item, shop>>
<1> USE DEF AmountsInv, SavedInv, PostsShape, store, page
<1>1. posts'[n].status # posts[n].status /\ posts[n].status \in {"sent", "orphan"}
  BY DEF Served
<1>2. ASSUME NEW m \in 1..MaxPosts, Serve(m)
      PROVE  verdict'[n] = CreateSale(n) /\ UNCHANGED <<item, shop>>
  <2>1. m = n
    BY <1>1, <1>2 DEF Serve
  <2> QED BY <1>2, <2>1 DEF Serve, TypeOK
<1>3. ASSUME NEW m \in 1..MaxPosts, NEW change \in {0, 1}, CompleteSale(m, change)
      PROVE  FALSE
  BY <1>1, <1>3 DEF CompleteSale
<1>4. ASSUME NEW m \in 1..MaxPosts, Reply(m) PROVE FALSE
  BY <1>1, <1>4 DEF Reply
<1>5. ASSUME NEW m \in 1..MaxPosts, AnswerLost(m) PROVE FALSE
  <2>1. m = n
    BY <1>1, <1>5 DEF AnswerLost
  <2>2. posts'[n].status = "over" /\ posts[n].status \in {"sent", "served"}
    BY <1>5, <2>1 DEF AnswerLost, Post
  <2> QED BY <2>2 DEF Served
<1>6. CASE Reload
  BY <1>1, <1>6 DEF Reload, Served
<1> QED BY <1>1, <1>2, <1>3, <1>4, <1>5, <1>6
    DEF Next, vars, LoadProducts, LoadSettings, AddToCart, SetQty, ClearCart,
        OpenPayment, CloseSheet, UpdateProduct, SaveTax, SetSetting, SaveReply, SaveFails

(* A page that is up to date is never refused, and the sale is for what it *)
(* showed (boltstore CreateSale, app.js cartTotals).                       *)
LEMMA StepIsAsShown ==
    ASSUME AmountsInv, [Next]_vars, NEW n \in 1..MaxPosts, Served(n), UpToDate(n)
    PROVE  /\ verdict'[n].taken
           /\ LET shown == CartTotals(posts[n].tax, posts[n].cart)
              IN  verdict'[n].tax = shown.tax /\ verdict'[n].total = shown.total
<1>1. verdict'[n] = CreateSale(n) /\ posts[n].status \in {"sent", "orphan"}
  BY ServedIsCreated
<1>2. CartTotals(posts[n].tax, posts[n].cart) = ComputeTax(shop, Priced(posts[n].cart))
  BY PricedAsShown DEF AmountsInv
<1>3. posts[n].paid >= ComputeTax(shop, Priced(posts[n].cart)).total
  BY <1>1, <1>2 DEF AmountsInv, PaidInv
<1>4. verdict'[n] = [taken |-> TRUE, bill |-> Priced(posts[n].cart),
                     tax |-> ComputeTax(shop, Priced(posts[n].cart)).tax,
                     total |-> ComputeTax(shop, Priced(posts[n].cart)).total]
  BY <1>1, <1>3 DEF CreateSale
<1> QED BY <1>2, <1>4

THEOREM ChargedAsShown == Spec => AsShown
<1>1. ASSUME AmountsInv, [Next]_vars
      PROVE  [\A n \in 1..MaxPosts : Served(n) /\ UpToDate(n) =>
                 /\ verdict'[n].taken
                 /\ LET shown == CartTotals(posts[n].tax, posts[n].cart)
                    IN  verdict'[n].tax = shown.tax /\ verdict'[n].total = shown.total]_vars
  BY <1>1, StepIsAsShown
<1> QED BY <1>1, AmountsHold, PTL DEF Spec, AsShown

(* What a receipt is printed of is what ComputeTax made of the lines, and  *)
(* cash that covers it.                                                    *)
LEMMA SaleIsSound ==
    ASSUME AmountsInv, [Next]_vars, NEW n \in 1..MaxPosts, Served(n), verdict'[n].taken
    PROVE  LET sale == Sale(verdict'[n].bill, shop, verdict'[n], posts[n].paid)
           IN  /\ Sound(sale)
               /\ sale.change \in Nat
               /\ sale.subtotal = Subtotal(verdict'[n].bill)
<1> DEFINE bill == Priced(posts[n].cart)
           due == ComputeTax(shop, bill)
           sale == Sale(verdict'[n].bill, shop, verdict'[n], posts[n].paid)
<1>1. verdict'[n] = CreateSale(n)
  BY ServedIsCreated
<1>2. /\ verdict'[n] = [taken |-> TRUE, bill |-> bill, tax |-> due.tax, total |-> due.total]
      /\ posts[n].paid >= due.total
  BY <1>1 DEF CreateSale, NoVerdict
<1>3. bill \in Bills /\ shop \in Taxes /\ posts[n].paid \in Nat
  <2>1. Empty \in Bills
    BY DEF Empty, Bills
  <2> QED BY <2>1, TillAssumption DEF AmountsInv, TypeOK, PaidInv, Priced, Bills
<1> HIDE DEF bill
<1>4. /\ Subtotal(bill) \in Nat /\ due.tax \in Nat /\ due.total \in Nat
      /\ due.total = IF shop.mode = "inclusive" THEN Subtotal(bill)
                                               ELSE Subtotal(bill) + due.tax
  BY <1>3, BillIsSound
<1> HIDE DEF due
<1>5. sale = [mode |-> shop.mode, rate |-> shop.rate, subtotal |-> Subtotal(bill),
              tax |-> due.tax, total |-> due.total, paid |-> posts[n].paid,
              change |-> posts[n].paid - due.total]
  BY <1>2 DEF Sale
<1>6. verdict'[n].bill = bill
  BY <1>2
<1> HIDE DEF sale
<1>7. Sound(sale) /\ sale.change \in Nat /\ sale.subtotal = Subtotal(bill)
  BY <1>2, <1>3, <1>4, <1>5 DEF Sound
<1> QED BY <1>6, <1>7 DEF sale

(* Every receipt adds up, on paper and in the browser: the tax settings    *)
(* may change under the sale, its lines and its tax are one transaction's  *)
(* (boltstore CreateSale, receipt.go moneyLines, app.js receiptHTML).      *)
THEOREM ReceiptsAddUp == Spec => ReceiptAddsUp
<1>1. ASSUME AmountsInv, [Next]_vars, NEW n \in 1..MaxPosts, Served(n), verdict'[n].taken
      PROVE  LET sale == Sale(verdict'[n].bill, shop, verdict'[n], posts[n].paid)
             IN  /\ Balances(MoneyLines(sale), Subtotal(verdict'[n].bill))
                 /\ Balances(BrowserLines(sale), Subtotal(verdict'[n].bill))
  BY <1>1, SaleIsSound, ReceiptBalances
<1>2. ASSUME AmountsInv, [Next]_vars
      PROVE  [\A n \in 1..MaxPosts : Served(n) /\ verdict'[n].taken =>
                 \A bill \in {verdict'[n].bill} :
                 \A sale \in {Sale(bill, shop, verdict'[n], posts[n].paid)} :
                 \A items \in {Subtotal(bill)} :
                     /\ Balances(MoneyLines(sale), items)
                     /\ Balances(BrowserLines(sale), items)]_vars
  BY <1>1, <1>2
<1> QED BY <1>2, AmountsHold, PTL DEF Spec, ReceiptAddsUp

=============================================================================
