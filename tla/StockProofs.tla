---------------------------- MODULE StockProofs ----------------------------
(***************************************************************************)
(* The derived count is right for any number of tills, sales and stock     *)
(* events, in whatever order they are heard of.                            *)
(***************************************************************************)
EXTENDS Stock, ArithmeticProofs

USE StockAssumption DEF Ids

(* What all the sales and events there are come to.                        *)
Overall == SumFunctionOnSet(delta, Made)

(* A till holds nothing that was not made, and only so much was made.      *)
Kept ==
    /\ delta \in [Ids -> Int]
    /\ held \in [Tills -> SUBSET Made]
    /\ IsFiniteSet(Made)
    /\ tally \in Int
    /\ informed \in BOOLEAN

Stamped == item \in [Tills -> [at : 0..(MaxStamp + 1), tracked : BOOLEAN]]

(* Nothing is sold or moved of an item that no till knows.                 *)
KnownFirst == Made # {} => \E d \in Tills : Has(d)

(* The events make up the tally, wherever they are held.                   *)
AllAddUp == informed => Overall = tally

(* The strengthening that is inductive.                                    *)
StockInv == Kept /\ Stamped /\ KnownFirst /\ AllAddUp

-----------------------------------------------------------------------------
(* Operators.                                                              *)

LEMMA NowIsStamp ==
    ASSUME Stamped, NEW d \in Tills
    PROVE  Now \in 0..(MaxStamp + 1)
<1> DEFINE stamps == {item[e].at : e \in Tills}
           below == {(MaxStamp + 1) - a : a \in stamps}
<1>1. stamps \subseteq 0..(MaxStamp + 1) /\ stamps # {}
  BY DEF Stamped
<1>2. below \subseteq Nat /\ below # {}
  <2> HIDE DEF stamps
  <2>1. \A a \in stamps : (MaxStamp + 1) - a \in Nat
    BY <1>1
  <2> QED BY <1>1, <2>1
<1>3. \E m \in below : \A k \in below : m <= k
  <2> HIDE DEF below
  <2> QED BY <1>2, Least
<1> HIDE DEF stamps
<1>4. \E a \in stamps : \A b \in stamps : (MaxStamp + 1) - a <= (MaxStamp + 1) - b
  BY <1>3
<1>5. \E a \in stamps : \A b \in stamps : a >= b
  BY <1>1, <1>4
<1>6. Now \in stamps
  <2>1. Now = CHOOSE a \in stamps : \A b \in stamps : a >= b
    BY DEF Now, Max, stamps
  <2> QED BY <1>5, <2>1
<1> QED BY <1>1, <1>6

(* A sum of the made is the same whatever else is numbered.                *)
LEMMA HeldAddable ==
    ASSUME Kept
    PROVE  /\ \A s \in SUBSET Made : Addable(delta, s)
           /\ \A d \in Tills : Addable(delta, held[d]) /\ OnHand(d) \in Int
           /\ Overall \in Int
<1>1. ASSUME NEW s \in SUBSET Made PROVE Addable(delta, s)
  BY FS_Subset DEF Kept, Addable, Made
<1>2. ASSUME NEW d \in Tills PROVE Addable(delta, held[d])
  BY <1>1 DEF Kept
<1>3. Made \in SUBSET Made
  OBVIOUS
<1> QED BY <1>1, <1>2, <1>3, SumIsInt DEF OnHand, Overall

(* An event of n adds n to what its till holds, and to all there is.       *)
LEMMA AppendAdds ==
    ASSUME Kept, NEW d \in Tills, NEW kind \in SUBSET Ids, NEW n \in Int,
           Append(d, kind, n)
    PROVE  /\ delta' \in [Ids -> Int]
           /\ held' \in [Tills -> SUBSET Made']
           /\ IsFiniteSet(Made')
           /\ Overall' = Overall + n
           /\ OnHand(d)' = OnHand(d) + n
<1>0. Overall \in Int /\ OnHand(d) \in Int
  BY HeldAddable
<1>1. CASE n = 0
  <2>1. UNCHANGED <<delta, held>>
    BY <1>1 DEF Append
  <2>2. Made' = Made
    BY <2>1 DEF Made
  <2> QED BY <1>0, <1>1, <2>1, <2>2 DEF Kept, Overall, OnHand
<1>2. CASE n # 0
  <2>1. PICK x \in kind \ Made :
           /\ delta' = [delta EXCEPT ![x] = n]
           /\ held' = [held EXCEPT ![d] = @ \cup {x}]
    BY <1>2 DEF Append
  <2>2. x \in Ids /\ x \notin Made /\ x \notin held[d]
    BY <2>1 DEF Kept
  <2>3. /\ delta' \in [Ids -> Int] /\ delta'[x] = n
        /\ \A y \in Ids \ {x} : delta'[y] = delta[y]
    BY <2>1, <2>2 DEF Kept
  <2>4. Made' = Made \cup {x}
    BY <1>2, <2>2, <2>3 DEF Made
  <2>5. held' \in [Tills -> SUBSET Made']
    BY <2>1, <2>4 DEF Kept
  <2>6. IsFiniteSet(Made')
    BY <2>4, FS_AddElement DEF Kept
  <2>7. ASSUME NEW s \in SUBSET Made
        PROVE  SumFunctionOnSet(delta', s \cup {x}) = SumFunctionOnSet(delta, s) + n
    <3>1. Addable(delta, s)
      BY HeldAddable
    <3>2. \A y \in s : y \in Ids \ {x}
      BY <2>2 DEF Made
    <3>3. \A y \in s : delta[y] = delta'[y]
      BY <2>3, <3>2
    <3>4. Addable(delta', s)
      BY <3>1, <3>3 DEF Addable
    <3>5. SumFunctionOnSet(delta', s) = SumFunctionOnSet(delta, s)
      BY <3>1, <3>3, SumSame
    <3>6. x \notin s /\ delta'[x] \in Int
      BY <2>2, <2>3
    <3>7. SumFunctionOnSet(delta', s \cup {x}) = n + SumFunctionOnSet(delta', s)
      BY <2>3, <3>4, <3>6, SumWith
    <3> QED BY <3>1, <3>5, <3>7, SumIsInt
  <2>8. Overall' = Overall + n
    <3>1. Made \in SUBSET Made
      OBVIOUS
    <3> QED BY <2>4, <2>7, <3>1 DEF Overall
  <2>9. OnHand(d)' = OnHand(d) + n
    <3>1. held[d] \in SUBSET Made /\ held'[d] = held[d] \cup {x}
      BY <2>1 DEF Kept
    <3> QED BY <2>7, <3>1 DEF OnHand
  <2> QED BY <2>3, <2>5, <2>6, <2>8, <2>9
<1> QED BY <1>1, <1>2

-----------------------------------------------------------------------------
(* Steps.                                                                  *)

LEMMA InitStock == Init => StockInv
<1> SUFFICES ASSUME Init PROVE StockInv
  OBVIOUS
<1>1. Made = {} /\ Overall = 0
  BY SumOfNone DEF Init, Made, Overall
<1>2. IsFiniteSet(Made)
  BY <1>1, FS_EmptySet
<1>3. Kept
  BY <1>1, <1>2 DEF Init, Kept
<1>4. Stamped
  BY DEF Init, Stamped
<1> QED BY <1>1, <1>3, <1>4 DEF Init, StockInv, KnownFirst, AllAddUp

(* A tracked correction leaves the till with the count that was typed.     *)
LEMMA CorrectTakes ==
    ASSUME Kept, NEW d \in Tills, NEW n \in Counts, SaveForm(d, n, TRUE)
    PROVE  /\ Append(d, Events, n - OnHand(d))
           /\ OnHand(d)' = n
           /\ Overall' = Overall + (n - OnHand(d))
<1>1. Append(d, Events, n - OnHand(d))
  BY DEF SaveForm, Correct
<1>2. OnHand(d) \in Int /\ n \in Int /\ Events \in SUBSET Ids
  BY HeldAddable
<1>3. n - OnHand(d) \in Int
  BY <1>2
<1>4. /\ OnHand(d)' = OnHand(d) + (n - OnHand(d))
      /\ Overall' = Overall + (n - OnHand(d))
  <2> DEFINE by == n - OnHand(d)
  <2>1. by \in Int /\ Append(d, Events, by)
    BY <1>1, <1>3
  <2> HIDE DEF by
  <2>2. OnHand(d)' = OnHand(d) + by /\ Overall' = Overall + by
    BY <1>2, <2>1, AppendAdds
  <2> QED BY <2>2 DEF by
<1> QED BY <1>1, <1>2, <1>4

LEMMA StepStock ==
    ASSUME StockInv, [Next]_vars
    PROVE  StockInv'
<1> USE DEF StockInv
<1>1. ASSUME NEW d \in Tills, NEW n \in Counts, NEW t \in BOOLEAN, AddProduct(d, n, t)
      PROVE  StockInv'
  <2>1. n \in Int /\ Events \in SUBSET Ids
    OBVIOUS
  <2>2. Append(d, Events, n) /\ tally' = n /\ informed' = informed
    BY <1>1 DEF AddProduct
  <2>3. Kept' /\ Overall' = Overall + n
    BY <2>1, <2>2, AppendAdds DEF Kept
  <2>4. Overall = 0
    <3>1. Made = {}
      BY <1>1 DEF AddProduct, KnownFirst
    <3> QED BY <3>1, SumOfNone DEF Overall
  <2>5. Stamped' /\ Has(d)'
    BY <1>1 DEF AddProduct, Stamped, Has
  <2> QED BY <2>1, <2>2, <2>3, <2>4, <2>5 DEF KnownFirst, AllAddUp
<1>2. ASSUME NEW d \in Tills, NEW n \in Counts, NEW t \in BOOLEAN, SaveForm(d, n, t)
      PROVE  StockInv'
  <2>1. Stamped' /\ Has(d)'
    BY <1>2, NowIsStamp DEF SaveForm, Stamped, Has
  <2>2. CASE t = FALSE
    <3>1. UNCHANGED <<delta, held, tally, informed>>
      BY <1>2, <2>2 DEF SaveForm
    <3>2. Made' = Made
      BY <3>1 DEF Made
    <3> QED BY <2>1, <3>1, <3>2 DEF Kept, KnownFirst, AllAddUp, Overall
  <2>3. CASE t = TRUE
    <3>1. tally' = n /\ informed' = (informed /\ held[d] = Made)
      BY <1>2, <2>3 DEF SaveForm
    <3>2. SaveForm(d, n, TRUE)
      BY <1>2, <2>3
    <3>3. /\ Append(d, Events, n - OnHand(d))
          /\ Overall' = Overall + (n - OnHand(d))
      BY <3>2, CorrectTakes
    <3>4. OnHand(d) \in Int /\ Overall \in Int /\ n \in Int /\ Events \in SUBSET Ids
      <4>1. Kept
        OBVIOUS
      <4>2. OnHand(d) \in Int /\ Overall \in Int
        BY <4>1, HeldAddable
      <4>3. n \in Int
        BY StockAssumption
      <4> QED BY <4>2, <4>3
    <3>5. n - OnHand(d) \in Int
      BY <3>4
    <3>6. Kept'
      <4>1. /\ delta' \in [Ids -> Int]
            /\ held' \in [Tills -> SUBSET Made']
            /\ IsFiniteSet(Made')
        BY <3>3, <3>4, <3>5, AppendAdds
      <4> QED BY <3>1, <3>4, <4>1 DEF Kept
    <3>7. AllAddUp'
      <4>1. SUFFICES ASSUME informed' PROVE Overall' = n
        BY <3>1 DEF AllAddUp
      <4>2. held[d] = Made
        BY <3>1, <4>1
      <4>3. OnHand(d) = Overall
        BY <4>2 DEF OnHand, Overall
      <4> QED BY <3>3, <3>4, <4>3
    <3> QED BY <2>1, <3>6, <3>7 DEF KnownFirst
  <2> QED BY <2>2, <2>3
<1>3. ASSUME NEW d \in Tills, OpenForm(d) PROVE StockInv'
  <2>1. UNCHANGED <<item, delta, held, tally, informed>>
    BY <1>3 DEF OpenForm
  <2>2. Made' = Made
    BY <2>1 DEF Made
  <2> QED BY <2>1, <2>2 DEF Kept, Stamped, KnownFirst, AllAddUp, Overall, Has
<1>4. ASSUME NEW d \in Tills, NEW q \in Int, NEW kind \in SUBSET Ids,
             Has(d), Append(d, kind, q), tally' = tally + q,
             UNCHANGED <<item, form, informed>>
      PROVE  StockInv'
  <2>1. Overall \in Int
    BY HeldAddable
  <2>2. Kept' /\ Overall' = Overall + q
    BY <1>4, AppendAdds, SMTT(30) DEF Kept
  <2> QED BY <1>4, <2>1, <2>2 DEF Kept, Stamped, KnownFirst, AllAddUp, Has
<1>5. ASSUME NEW d \in Tills, NEW q \in Moves, Restock(d, q) PROVE StockInv'
  <2>1. q \in Int /\ Events \in SUBSET Ids
    OBVIOUS
  <2> QED BY <1>4, <1>5, <2>1 DEF Restock
<1>6. ASSUME NEW d \in Tills, NEW q \in Quantities, CreateSale(d, q) PROVE StockInv'
  <2>1. -q \in Int /\ Sales \in SUBSET Ids
    OBVIOUS
  <2>2. tally' = tally + (-q)
    BY <1>6, <2>1 DEF CreateSale, Kept
  <2> QED BY <1>4, <1>6, <2>1, <2>2 DEF CreateSale
<1>7. ASSUME NEW d \in Tills, NEW e \in Tills, NEW X \in SUBSET held[e], Pull(d, e, X)
      PROVE  StockInv'
  <2>1. UNCHANGED <<delta, tally, informed>>
    BY <1>7 DEF Pull
  <2>2. Made' = Made
    BY <2>1 DEF Made
  <2>3. Kept'
    BY <1>7, <2>1, <2>2 DEF Pull, Kept
  <2>4. Stamped' /\ \A f \in Tills : item'[f].at >= item[f].at
    <3>1. item' = [item EXCEPT ![d] = IF item[e].at > item[d].at THEN item[e] ELSE item[d]]
      BY <1>7 DEF Pull, Stamped
    <3> QED BY <3>1 DEF Stamped
  <2>5. KnownFirst'
    BY <2>2, <2>4 DEF KnownFirst, Has, Stamped
  <2> QED BY <2>1, <2>2, <2>3, <2>4, <2>5 DEF AllAddUp, Overall
<1>8. CASE UNCHANGED vars
  <2>1. Made' = Made
    BY <1>8 DEF vars, Made
  <2> QED BY <1>8, <2>1 DEF vars, Kept, Stamped, KnownFirst, AllAddUp, Overall, Has
<1> QED BY <1>1, <1>2, <1>3, <1>5, <1>6, <1>7, <1>8 DEF Next

LEMMA StockHolds == Spec => []StockInv
BY InitStock, StepStock, PTL DEF Spec

-----------------------------------------------------------------------------
(* Theorems.                                                               *)

(* "Two offline tills reconcile by adding their events up": unless a count *)
(* was typed at a till that had not heard of everything, every till that   *)
(* has heard of everything derives one and the same count, that of doing   *)
(* it all in turn (stock.go onHandOf, Restock, boltstore.go CreateSale).   *)
THEOREM TillsReconcile == Spec => []CountsAddUp
<1>1. StockInv => CountsAddUp
  BY DEF StockInv, CountsAddUp, AllAddUp, OnHand, Overall
<1> QED BY <1>1, StockHolds, PTL

(* What the owner types is what the till then derives, however far below   *)
(* zero the item was sold (the correcting event of boltstore.go            *)
(* UpdateProduct).                                                         *)
THEOREM TypedCountTakes == Spec => CountTakes
<1>1. ASSUME StockInv, [Next]_vars
      PROVE  [\A d \in Tills, n \in Counts : SaveForm(d, n, TRUE) => OnHand(d)' = n]_vars
  BY <1>1, CorrectTakes DEF StockInv
<1> QED BY <1>1, StockHolds, PTL DEF Spec, CountTakes

(* The count a form shows is a floored one.                                *)
FormTyped == form \in [Tills -> Nat \cup {NoForm}]

LEMMA StepKeepsForm ==
    ASSUME StockInv, FormTyped, [Next]_vars
    PROVE  FormTyped'
<1>1. ASSUME NEW d \in Tills, OpenForm(d) PROVE FormTyped'
  <2>1. OnHand(d) \in Int
    BY HeldAddable DEF StockInv
  <2>2. Shown(d) \in Nat
    BY <2>1 DEF Shown, Floored
  <2> QED BY <1>1, <2>2 DEF OpenForm, FormTyped
<1>2. ASSUME NEW d \in Tills, NEW n \in Counts, NEW t \in BOOLEAN, SaveForm(d, n, t)
      PROVE  FormTyped'
  BY <1>2 DEF SaveForm, FormTyped
<1>3. CASE UNCHANGED form
  BY <1>3 DEF FormTyped
<1> QED BY <1>1, <1>2, <1>3 DEF Next, vars, AddProduct, Restock, CreateSale, Pull

(* Rows, events, forms and the tally are of their types; in particular no  *)
(* form shows a count below zero (stock.go max0).                         *)
THEOREM Typed == Spec => []TypeOK
<1>1. Init => FormTyped
  BY DEF Init, FormTyped
<1>2. StockInv /\ FormTyped /\ [Next]_vars => FormTyped'
  BY StepKeepsForm
<1>3. StockInv /\ FormTyped => TypeOK
  BY DEF StockInv, Kept, Stamped, FormTyped, TypeOK, Made
<1> QED BY <1>1, <1>2, <1>3, StockHolds, PTL DEF Spec

=============================================================================
