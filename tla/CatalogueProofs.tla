-------------------------- MODULE CatalogueProofs --------------------------
(***************************************************************************)
(* Theorems about Catalogue for any number of tills, items and barcodes,   *)
(* with late requests and pulls in any order; the last two for one till    *)
(* that edits while any number of tills pull.                              *)
(***************************************************************************)
EXTENDS Catalogue, TLAPS

(* Re-pointing the index keeps it a map from barcodes to ids.               *)
LEMMA IndexTyped ==
    ASSUME NEW idx \in [Codes -> Ids \cup {NoId}], NEW c, NEW p \in Ids
    PROVE  /\ Without(idx, c) \in [Codes -> Ids \cup {NoId}]
           /\ Pointed(idx, c, p) \in [Codes -> Ids \cup {NoId}]
BY DEF Without, Pointed

(* Every step keeps the types.                                              *)
LEMMA StepTyped == TypeOK /\ [Next]_vars => TypeOK'
<1> SUFFICES ASSUME TypeOK, [Next]_vars PROVE TypeOK'
  OBVIOUS
<1>1. CASE UNCHANGED vars
  BY <1>1 DEF vars, TypeOK
<1>2. ASSUME NEW d \in Tills, NEW p \in Ids, NEW c \in Codes \cup {NoCode},
             NEW a \in BOOLEAN, NEW r \in Nat, NEW L \in SUBSET Codes,
             NEW idx \in [Codes -> Ids \cup {NoId}],
             Write(d, p, c, a, r), index' = [index EXCEPT ![d] = idx],
             late' = [late EXCEPT ![d] = late[d] \cup L]
      PROVE  TypeOK'
  <2>1. clock' \in Nat
    BY <1>2 DEF TypeOK, Write
  <2>2. rows' \in [Tills -> [Ids -> Rows]]
    <3>1. [code |-> c, active |-> a, at |-> clock + 1, removed |-> r] \in Rows
      BY DEF TypeOK, Rows
    <3> QED
      BY <1>2, <3>1 DEF TypeOK, Write
  <2>3. index' \in [Tills -> [Codes -> Ids \cup {NoId}]]
    BY <1>2 DEF TypeOK
  <2>4. late' \in [Tills -> SUBSET Codes]
    BY <1>2 DEF TypeOK
  <2> QED
    BY <1>2, <2>1, <2>2, <2>3, <2>4 DEF TypeOK, Write
<1>3. ASSUME NEW d \in Tills, NEW p \in Ids
      PROVE  /\ rows[d][p].code \in Codes \cup {NoCode}
             /\ rows[d][p].active \in BOOLEAN
             /\ rows[d][p].removed \in Nat
             /\ index[d] \in [Codes -> Ids \cup {NoId}]
             /\ late[d] = late[d] \cup {} /\ late = [late EXCEPT ![d] = late[d]]
             /\ \A c : FreedLate(d, p, c) \in SUBSET Codes
  BY DEF TypeOK, Rows, FreedLate
<1>4. ASSUME NEW d \in Tills, NEW p \in Ids, NEW c \in Codes \cup {NoCode},
             AddProduct(d, p, c)
      PROVE  TypeOK'
  <2>1. Pointed(index[d], c, p) \in [Codes -> Ids \cup {NoId}]
    BY <1>3, IndexTyped
  <2>2. late' = [late EXCEPT ![d] = late[d] \cup {}]
    BY <1>3, <1>4 DEF AddProduct
  <2> QED
    BY <1>2, <1>4, <2>1, <2>2 DEF AddProduct
<1>5. ASSUME NEW d \in Tills, NEW p \in Ids, NEW c \in Codes \cup {NoCode},
             UpdateProduct(d, p, c)
      PROVE  TypeOK'
  <2>1. Repoint(index[d], p, rows[d][p].code, c) \in [Codes -> Ids \cup {NoId}]
    BY <1>3, IndexTyped DEF Repoint
  <2>2. /\ Write(d, p, c, rows[d][p].active, rows[d][p].removed)
        /\ index' = [index EXCEPT ![d] = Repoint(index[d], p, rows[d][p].code, c)]
        /\ late' = [late EXCEPT ![d] = late[d] \cup FreedLate(d, p, c)]
    BY <1>5 DEF UpdateProduct
  <2>3. PICK a \in BOOLEAN, r \in Nat : Write(d, p, c, a, r)
    BY <1>3, <2>2
  <2>4. FreedLate(d, p, c) \in SUBSET Codes
    BY <1>3
  <2> QED
    BY <1>2, <2>1, <2>2, <2>3, <2>4
<1>6. ASSUME NEW d \in Tills, NEW p \in Ids, DeleteProduct(d, p) PROVE TypeOK'
  <2>1. Without(index[d], rows[d][p].code) \in [Codes -> Ids \cup {NoId}]
    BY <1>3, IndexTyped
  <2>2. clock + 1 \in Nat
    BY DEF TypeOK
  <2> QED
    BY <1>2, <1>3, <1>6, <2>1, <2>2 DEF DeleteProduct
<1>7. ASSUME NEW d \in Tills, Products(d) PROVE TypeOK'
  BY <1>7 DEF TypeOK, Products, Active
<1>8. NoRow \in Rows
  BY DEF NoRow, Rows
<1>9. ASSUME NEW d \in Tills, NEW e \in Tills, Pull(d, e) PROVE TypeOK'
  BY <1>8, <1>9 DEF TypeOK, Pull
<1>10. ASSUME NEW d \in Tills, NEW p \in Ids, ApplyPulledProduct(d, p) PROVE TypeOK'
  <2> DEFINE mine == rows[d][p]
             theirs == pulled[d][p]
  <2>1. theirs \in Rows
    BY DEF TypeOK
  <2>2. PulledIndex(index[d], p, mine, theirs) \in [Codes -> Ids \cup {NoId}]
    BY <1>3, IndexTyped DEF PulledIndex
  <2>3. /\ rows' \in [Tills -> [Ids -> Rows]]
        /\ index' \in [Tills -> [Codes -> Ids \cup {NoId}]]
    <3>1. CASE theirs.at > mine.at
      <4>1. /\ rows' = [rows EXCEPT ![d][p] = theirs]
            /\ index' = [index EXCEPT ![d] = PulledIndex(index[d], p, mine, theirs)]
        BY <1>10, <3>1 DEF TypeOK, ApplyPulledProduct
      <4> QED
        BY <2>1, <2>2, <4>1 DEF TypeOK
    <3>2. CASE ~(theirs.at > mine.at)
      BY <1>10, <3>2 DEF TypeOK, ApplyPulledProduct
    <3> QED
      BY <3>1, <3>2
  <2>4. pulled' \in [Tills -> [Ids -> Rows]] /\ applying' \in [Tills -> BOOLEAN]
    BY <1>8, <1>10 DEF TypeOK, ApplyPulledProduct
  <2> QED
    BY <1>10, <2>3, <2>4 DEF TypeOK, ApplyPulledProduct
<1> QED
  BY <1>1, <1>4, <1>5, <1>6, <1>7, <1>9, <1>10 DEF Next

(* A till's entries carry their codes after one row and the index changed   *)
(* together: no entry but the row's own leads to it, and the others stay or *)
(* go.                                                                      *)
LEMMA RowAndIndex ==
    ASSUME TypeOK, TypeOK', EntryCarriesCode, NEW d \in Tills, NEW p \in Ids,
           \A e \in Tills \ {d} : rows'[e] = rows[e] /\ index'[e] = index[e],
           \A q \in Ids \ {p} : rows'[d][q] = rows[d][q],
           \A k \in Codes : index'[d][k] = p =>
               rows'[d][p].at > 0 /\ rows'[d][p].code = k,
           \A k \in Codes : index'[d][k] \in {index[d][k], NoId, p}
    PROVE  EntryCarriesCode'
<1> SUFFICES ASSUME NEW e \in Tills, NEW k \in Codes, index'[e][k] # NoId
             PROVE  /\ rows'[e][index'[e][k]].at > 0
                    /\ rows'[e][index'[e][k]].code = k
  BY DEF EntryCarriesCode, Has
<1>1. CASE e # d
  BY <1>1 DEF EntryCarriesCode, Has
<1>2. CASE e = d /\ index'[d][k] = p
  BY <1>2
<1>3. CASE e = d /\ index'[d][k] # p
  <2>1. index'[d][k] = index[d][k] /\ index[d][k] \in Ids \ {p}
    BY <1>3 DEF TypeOK
  <2> QED
    BY <1>3, <2>1 DEF EntryCarriesCode, Has
<1> QED
  BY <1>1, <1>2, <1>3

(* No row and no entry: the empty store.                                    *)
LEMMA InitTyped == Init => TypeOK
<1>1. NoRow \in Rows
  BY DEF NoRow, Rows
<1> QED
  BY <1>1 DEF Init, TypeOK, NoRows

(* The types hold in every reachable state, whatever is pulled: the index  *)
(* never leads to anything but an id, whichever writer re-points it.       *)
THEOREM Typed == Spec => []TypeOK
BY InitTyped, StepTyped, PTL DEF Spec

(* Every writer of a row leaves the entries of its till with their codes.   *)
LEMMA StepCarries ==
    TypeOK /\ EntryCarriesCode /\ [Next]_vars => EntryCarriesCode'
<1> SUFFICES ASSUME TypeOK, EntryCarriesCode, [Next]_vars
             PROVE  EntryCarriesCode'
  OBVIOUS
<1>0. TypeOK'
  BY StepTyped
<1>1. CASE UNCHANGED <<rows, index>>
  BY <1>1 DEF EntryCarriesCode, Has
<1>2. ASSUME NEW d \in Tills, NEW k \in Codes
      PROVE  /\ index[d][k] \in Ids \cup {NoId}
             /\ \A p \in Ids : index[d][k] = p =>
                   rows[d][p].at > 0 /\ rows[d][p].code = k
  BY CatalogueAssumption DEF TypeOK, EntryCarriesCode, Has
<1>3. ASSUME NEW d \in Tills, NEW p \in Ids, NEW c, NEW a, NEW r, Write(d, p, c, a, r)
      PROVE  /\ rows'[d][p].code = c /\ rows'[d][p].at > 0
             /\ \A q \in Ids \ {p} : rows'[d][q] = rows[d][q]
             /\ \A e \in Tills \ {d} : rows'[e] = rows[e]
  BY <1>3 DEF TypeOK, Write
<1>4. ASSUME NEW d \in Tills, NEW p \in Ids, NEW c \in Codes \cup {NoCode},
             AddProduct(d, p, c)
      PROVE  EntryCarriesCode'
  <2>1. \A k \in Codes : index[d][k] # p
    BY <1>2, <1>4 DEF AddProduct, Has, TypeOK, Rows
  <2>2. /\ \A e \in Tills \ {d} : index'[e] = index[e]
        /\ index'[d] = Pointed(index[d], c, p)
    BY <1>4 DEF AddProduct, TypeOK
  <2>3. \A k \in Codes : index'[d][k] = p => k = c
    BY <2>1, <2>2 DEF Pointed
  <2>4. \A k \in Codes : index'[d][k] \in {index[d][k], NoId, p}
    BY <2>2 DEF Pointed
  <2>5. /\ rows'[d][p].code = c /\ rows'[d][p].at > 0
        /\ \A q \in Ids \ {p} : rows'[d][q] = rows[d][q]
        /\ \A e \in Tills \ {d} : rows'[e] = rows[e]
    BY <1>3, <1>4 DEF AddProduct
  <2> QED
    BY <1>0, <2>2, <2>3, <2>4, <2>5, RowAndIndex
<1>5. ASSUME NEW d \in Tills, NEW p \in Ids, NEW c \in Codes \cup {NoCode},
             UpdateProduct(d, p, c)
      PROVE  EntryCarriesCode'
  <2> DEFINE old == rows[d][p].code
  <2>1. /\ \A e \in Tills \ {d} : index'[e] = index[e]
        /\ index'[d] = Repoint(index[d], p, old, c)
    BY <1>5 DEF UpdateProduct, TypeOK
  <2>2. /\ rows'[d][p].code = c /\ rows'[d][p].at > 0
        /\ \A q \in Ids \ {p} : rows'[d][q] = rows[d][q]
        /\ \A e \in Tills \ {d} : rows'[e] = rows[e]
    BY <1>3, <1>5 DEF UpdateProduct
  <2>3. ASSUME NEW k \in Codes
        PROVE  index'[d][k] = IF k = c THEN p
                              ELSE IF old # c /\ k = old THEN NoId
                              ELSE index[d][k]
    BY <2>1 DEF Repoint, Pointed, Without
  <2>4. \A k \in Codes : index'[d][k] = p => k = c
    BY <1>2, <2>3, CatalogueAssumption
  <2>5. \A k \in Codes : index'[d][k] \in {index[d][k], NoId, p}
    BY <2>3
  <2> QED
    BY <1>0, <2>1, <2>2, <2>4, <2>5, RowAndIndex
<1>6. ASSUME NEW d \in Tills, NEW p \in Ids, DeleteProduct(d, p)
      PROVE  EntryCarriesCode'
  <2> DEFINE old == rows[d][p].code
  <2>1. /\ \A e \in Tills \ {d} : index'[e] = index[e]
        /\ index'[d] = Without(index[d], old)
    BY <1>6 DEF DeleteProduct, TypeOK
  <2>2. /\ rows'[d][p].code = old /\ rows'[d][p].at > 0
        /\ \A q \in Ids \ {p} : rows'[d][q] = rows[d][q]
        /\ \A e \in Tills \ {d} : rows'[e] = rows[e]
    BY <1>3, <1>6 DEF DeleteProduct
  <2>3. \A k \in Codes : index'[d][k] = p => k = old
    BY <1>2, <2>1, CatalogueAssumption DEF Without
  <2>4. \A k \in Codes : index'[d][k] \in {index[d][k], NoId, p}
    BY <2>1 DEF Without
  <2> QED
    BY <1>0, <2>1, <2>2, <2>3, <2>4, RowAndIndex
<1>7. ASSUME NEW d \in Tills, NEW p \in Ids, ApplyPulledProduct(d, p)
      PROVE  EntryCarriesCode'
  <2> DEFINE mine == rows[d][p]
             theirs == pulled[d][p]
             idx == PulledIndex(index[d], p, mine, theirs)
  <2>1. CASE ~(theirs.at > mine.at)
    BY <1>1, <1>7, <2>1 DEF ApplyPulledProduct
  <2>2. CASE theirs.at > mine.at
    <3>1. /\ rows' = [rows EXCEPT ![d][p] = theirs]
          /\ index' = [index EXCEPT ![d] = idx]
      BY <1>7, <2>2 DEF ApplyPulledProduct, TypeOK
    <3>2. /\ rows'[d][p] = theirs
          /\ \A q \in Ids \ {p} : rows'[d][q] = rows[d][q]
          /\ \A e \in Tills \ {d} : rows'[e] = rows[e] /\ index'[e] = index[e]
          /\ index'[d] = idx
      BY <3>1 DEF TypeOK
    <3>3. theirs.at > 0
      BY <2>2 DEF TypeOK, Rows
    <3>4. \A k \in Codes : idx[k] = p => k = theirs.code
      <4> DEFINE freed == IF mine.at > 0 THEN Without(index[d], mine.code)
                                         ELSE index[d]
      <4>1. \A k \in Codes : freed[k] # p
        BY <1>2, CatalogueAssumption DEF Without
      <4>2. idx = IF theirs.active THEN Pointed(freed, theirs.code, p) ELSE freed
        BY DEF PulledIndex
      <4> HIDE DEF freed, idx
      <4> QED
        BY <4>1, <4>2 DEF Pointed
    <3>5. \A k \in Codes : idx[k] \in {index[d][k], NoId, p}
      BY DEF PulledIndex, Pointed, Without
    <3> QED
      BY <1>0, <3>2, <3>3, <3>4, <3>5, RowAndIndex
  <2> QED
    BY <2>1, <2>2
<1>8. CASE \E d \in Tills : Products(d) \/ \E e \in Tills : Pull(d, e)
  BY <1>1, <1>8 DEF Products, Pull
<1>9. CASE UNCHANGED vars
  BY <1>1, <1>9 DEF vars
<1> QED
  BY <1>4, <1>5, <1>6, <1>7, <1>8, <1>9 DEF Next

(* An entry of the index leads to an item with that barcode, however late   *)
(* requests come and in whatever order pulled rows are applied: a scan      *)
(* never sells an item with another barcode.                                *)
THEOREM EntriesCarryTheirCodes == Spec => []EntryCarriesCode
<1>1. Init => EntryCarriesCode
  BY DEF Init, EntryCarriesCode
<1> QED
  BY <1>1, InitTyped, StepTyped, StepCarries, PTL DEF Spec

-----------------------------------------------------------------------------
(* No dead entries.                                                         *)

(* What a write leaves behind.                                              *)
LEMMA WriteMoves ==
    ASSUME TypeOK, NEW d \in Tills, NEW p \in Ids, NEW c, NEW a, NEW r,
           Write(d, p, c, a, r)
    PROVE  /\ d \in Writers
           /\ rows'[d][p] = [code |-> c, active |-> a, at |-> clock + 1, removed |-> r]
           /\ \A q \in Ids \ {p} : rows'[d][q] = rows[d][q]
           /\ \A e \in Tills \ {d} : rows'[e] = rows[e]
           /\ clock' = clock + 1
           /\ UNCHANGED <<pulled, applying>>
BY DEF Write, TypeOK

(* The row of a removed item bears the stamp of its removal, until it is    *)
(* edited, which stamps it later: the clock has passed every removal.       *)
RemovedBefore ==
    \A d \in Tills : \A p \in Ids :
        rows[d][p].removed <= clock /\ pulled[d][p].removed <= clock

LEMMA StepRemoved == TypeOK /\ RemovedBefore /\ [Next]_vars => RemovedBefore'
<1> SUFFICES ASSUME TypeOK, RemovedBefore, [Next]_vars PROVE RemovedBefore'
  OBVIOUS
<1>1. ASSUME NEW d \in Tills, NEW p \in Ids
      PROVE  /\ rows[d][p].removed \in Nat /\ pulled[d][p].removed \in Nat
             /\ clock \in Nat
             /\ rows[d][p].removed <= clock /\ pulled[d][p].removed <= clock
  BY DEF TypeOK, Rows, RemovedBefore
<1>2. ASSUME NEW d \in Tills, NEW p \in Ids, NEW c, NEW a, NEW r \in Nat,
             r <= clock + 1, Write(d, p, c, a, r)
      PROVE  RemovedBefore'
  <2>1. /\ rows'[d][p].removed = r
        /\ \A q \in Ids \ {p} : rows'[d][q] = rows[d][q]
        /\ \A e \in Tills \ {d} : rows'[e] = rows[e]
        /\ clock' = clock + 1
        /\ UNCHANGED pulled
    <3>1. /\ rows'[d][p] = [code |-> c, active |-> a, at |-> clock + 1, removed |-> r]
          /\ \A q \in Ids \ {p} : rows'[d][q] = rows[d][q]
          /\ \A e \in Tills \ {d} : rows'[e] = rows[e]
          /\ clock' = clock + 1
          /\ UNCHANGED pulled
      BY <1>2, WriteMoves
    <3> QED
      BY <3>1
  <2>2. ASSUME NEW e \in Tills, NEW q \in Ids
        PROVE  rows'[e][q].removed <= clock' /\ pulled'[e][q].removed <= clock'
    <3>1. CASE e = d /\ q = p
      BY <1>1, <1>2, <2>1, <3>1
    <3>2. CASE ~(e = d /\ q = p)
      <4>1. rows'[e][q] = rows[e][q] /\ pulled'[e][q] = pulled[e][q]
        BY <2>1, <3>2
      <4> QED
        BY <1>1, <2>1, <4>1
    <3> QED
      BY <3>1, <3>2
  <2> QED
    BY <2>2 DEF RemovedBefore
<1>3. ASSUME NEW d \in Tills, NEW p \in Ids,
             \/ \E c \in Codes \cup {NoCode} : AddProduct(d, p, c) \/ UpdateProduct(d, p, c)
             \/ DeleteProduct(d, p)
      PROVE  RemovedBefore'
  <2>1. \A r \in {0, rows[d][p].removed, clock + 1} : r \in Nat /\ r <= clock + 1
    BY <1>1
  <2>2. CASE \E c \in Codes \cup {NoCode} : AddProduct(d, p, c)
    BY <1>2, <2>1, <2>2 DEF AddProduct
  <2>3. CASE \E c \in Codes \cup {NoCode} : UpdateProduct(d, p, c)
    BY <1>2, <2>1, <2>3 DEF UpdateProduct
  <2>4. CASE DeleteProduct(d, p)
    BY <1>2, <2>1, <2>4 DEF DeleteProduct
  <2> QED
    BY <1>3, <2>2, <2>3, <2>4
<1>4. NoRow.removed = 0
  BY DEF NoRow
<1>5. ASSUME NEW d \in Tills, NEW e \in Tills, Pull(d, e) PROVE RemovedBefore'
  <2>1. /\ rows' = rows /\ clock' = clock
        /\ \A f \in Tills : \A q \in Ids :
              pulled'[f][q] \in {pulled[f][q], rows[e][q], NoRow}
    BY <1>5 DEF Pull, TypeOK
  <2>2. ASSUME NEW f \in Tills, NEW q \in Ids
        PROVE  rows'[f][q].removed <= clock' /\ pulled'[f][q].removed <= clock'
    BY <1>1, <1>4, <2>1
  <2> QED
    BY <2>2 DEF RemovedBefore
<1>6. ASSUME NEW d \in Tills, NEW p \in Ids, ApplyPulledProduct(d, p)
      PROVE  RemovedBefore'
  <2>1. /\ clock' = clock
        /\ \A f \in Tills : \A q \in Ids :
              /\ rows'[f][q] \in {rows[f][q], pulled[f][q]}
              /\ pulled'[f][q] \in {pulled[f][q], NoRow}
    BY <1>6 DEF ApplyPulledProduct, TypeOK
  <2>2. ASSUME NEW f \in Tills, NEW q \in Ids
        PROVE  rows'[f][q].removed <= clock' /\ pulled'[f][q].removed <= clock'
    BY <1>1, <1>4, <2>1
  <2> QED
    BY <2>2 DEF RemovedBefore
<1>7. CASE UNCHANGED vars \/ \E d \in Tills : Products(d)
  BY <1>7 DEF vars, Products, RemovedBefore
<1> QED
  BY <1>3, <1>5, <1>6, <1>7 DEF Next

(* An entry that is new, and the row it leads to.  Whoever writes a row     *)
(* takes the entries away that led to it, or leaves it on sale or edited.   *)
LEMMA RowAndRemoval ==
    ASSUME TypeOK, TypeOK', RemovalFreesCode, NEW d \in Tills, NEW p \in Ids,
           \A e \in Tills \ {d} : rows'[e] = rows[e] /\ index'[e] = index[e],
           \A q \in Ids \ {p} : rows'[d][q] = rows[d][q],
           \A k \in Codes : index'[d][k] = p =>
               rows'[d][p].active \/ rows'[d][p].at # rows'[d][p].removed,
           \A k \in Codes : index'[d][k] \in {index[d][k], NoId, p}
    PROVE  RemovalFreesCode'
<1> SUFFICES ASSUME NEW e \in Tills, NEW k \in Codes, index'[e][k] # NoId
             PROVE  \/ rows'[e][index'[e][k]].active
                    \/ rows'[e][index'[e][k]].at # rows'[e][index'[e][k]].removed
  BY DEF RemovalFreesCode
<1>1. CASE e # d
  BY <1>1 DEF RemovalFreesCode
<1>2. CASE e = d /\ index'[d][k] = p
  BY <1>2
<1>3. CASE e = d /\ index'[d][k] # p
  <2>1. index'[d][k] = index[d][k] /\ index[d][k] \in Ids \ {p}
    BY <1>3 DEF TypeOK
  <2> QED
    BY <1>3, <2>1 DEF RemovalFreesCode
<1> QED
  BY <1>1, <1>2, <1>3

LEMMA StepFrees ==
    /\ TypeOK /\ EntryCarriesCode /\ RemovedBefore /\ RemovalFreesCode
    /\ [Next]_vars
    => RemovalFreesCode'
<1> SUFFICES ASSUME TypeOK, EntryCarriesCode, RemovedBefore, RemovalFreesCode, [Next]_vars
             PROVE  RemovalFreesCode'
  OBVIOUS
<1>0. TypeOK'
  BY StepTyped
<1>1. CASE UNCHANGED <<rows, index>>
  BY <1>1 DEF RemovalFreesCode
<1>2. ASSUME NEW d \in Tills, NEW k \in Codes
      PROVE  \A p \in Ids : index[d][k] = p => rows[d][p].at > 0 /\ rows[d][p].code = k
  BY CatalogueAssumption DEF TypeOK, EntryCarriesCode, Has
<1>3. ASSUME NEW d \in Tills, NEW p \in Ids, NEW c, NEW a, NEW r, Write(d, p, c, a, r)
      PROVE  /\ rows'[d][p].active = a /\ rows'[d][p].at = clock + 1
             /\ rows'[d][p].removed = r
             /\ \A q \in Ids \ {p} : rows'[d][q] = rows[d][q]
             /\ \A e \in Tills \ {d} : rows'[e] = rows[e]
  BY <1>3 DEF TypeOK, Write
<1>4. ASSUME NEW d \in Tills, NEW p \in Ids, NEW c \in Codes \cup {NoCode},
             AddProduct(d, p, c)
      PROVE  RemovalFreesCode'
  <2>1. /\ \A e \in Tills \ {d} : index'[e] = index[e]
        /\ \A k \in Codes : index'[d][k] \in {index[d][k], NoId, p}
    BY <1>4 DEF AddProduct, Pointed, TypeOK
  <2>2. /\ rows'[d][p].active
        /\ \A q \in Ids \ {p} : rows'[d][q] = rows[d][q]
        /\ \A e \in Tills \ {d} : rows'[e] = rows[e]
    BY <1>3, <1>4 DEF AddProduct
  <2> QED
    BY <1>0, <2>1, <2>2, RowAndRemoval
<1>5. ASSUME NEW d \in Tills, NEW p \in Ids, NEW c \in Codes \cup {NoCode},
             UpdateProduct(d, p, c)
      PROVE  RemovalFreesCode'
  <2>1. /\ \A e \in Tills \ {d} : index'[e] = index[e]
        /\ \A k \in Codes : index'[d][k] \in {index[d][k], NoId, p}
    BY <1>5 DEF UpdateProduct, Repoint, Pointed, Without, TypeOK
  <2>2. /\ rows'[d][p].at = clock + 1 /\ rows'[d][p].removed = rows[d][p].removed
        /\ \A q \in Ids \ {p} : rows'[d][q] = rows[d][q]
        /\ \A e \in Tills \ {d} : rows'[e] = rows[e]
    BY <1>3, <1>5 DEF UpdateProduct
  <2>3. /\ rows[d][p].removed \in Nat /\ clock \in Nat
        /\ rows[d][p].removed <= clock
    BY DEF TypeOK, Rows, RemovedBefore
  <2>4. rows'[d][p].at # rows'[d][p].removed
    BY <2>2, <2>3
  <2> QED
    BY <1>0, <2>1, <2>2, <2>4, RowAndRemoval
<1>6. ASSUME NEW d \in Tills, NEW p \in Ids, DeleteProduct(d, p)
      PROVE  RemovalFreesCode'
  <2>1. /\ \A e \in Tills \ {d} : index'[e] = index[e]
        /\ index'[d] = Without(index[d], rows[d][p].code)
    BY <1>6 DEF DeleteProduct, TypeOK
  <2>2. /\ \A q \in Ids \ {p} : rows'[d][q] = rows[d][q]
        /\ \A e \in Tills \ {d} : rows'[e] = rows[e]
    BY <1>3, <1>6 DEF DeleteProduct
  <2>3. \A k \in Codes : index'[d][k] # p /\ index'[d][k] \in {index[d][k], NoId, p}
    BY <1>2, <2>1, CatalogueAssumption DEF Without
  <2> QED
    BY <1>0, <2>1, <2>2, <2>3, RowAndRemoval
<1>7. ASSUME NEW d \in Tills, NEW p \in Ids, ApplyPulledProduct(d, p)
      PROVE  RemovalFreesCode'
  <2> DEFINE mine == rows[d][p]
             theirs == pulled[d][p]
             idx == PulledIndex(index[d], p, mine, theirs)
  <2>1. CASE ~(theirs.at > mine.at)
    BY <1>1, <1>7, <2>1 DEF ApplyPulledProduct
  <2>2. CASE theirs.at > mine.at
    <3>1. /\ rows'[d][p] = theirs
          /\ \A q \in Ids \ {p} : rows'[d][q] = rows[d][q]
          /\ \A e \in Tills \ {d} : rows'[e] = rows[e] /\ index'[e] = index[e]
          /\ index'[d] = idx
      BY <1>7, <2>2 DEF ApplyPulledProduct, TypeOK
    <3>2. \A k \in Codes : idx[k] = p => theirs.active
      <4> DEFINE freed == IF mine.at > 0 THEN Without(index[d], mine.code)
                                         ELSE index[d]
      <4>1. \A k \in Codes : freed[k] # p
        BY <1>2, CatalogueAssumption DEF Without
      <4>2. idx = IF theirs.active THEN Pointed(freed, theirs.code, p) ELSE freed
        BY DEF PulledIndex
      <4> HIDE DEF freed, idx
      <4> QED
        BY <4>1, <4>2
    <3>3. \A k \in Codes : idx[k] \in {index[d][k], NoId, p}
      BY DEF PulledIndex, Pointed, Without
    <3> QED
      BY <1>0, <3>1, <3>2, <3>3, RowAndRemoval
  <2> QED
    BY <2>1, <2>2
<1>8. CASE \E d \in Tills : Products(d) \/ \E e \in Tills : Pull(d, e)
  BY <1>1, <1>8 DEF Products, Pull
<1>9. CASE UNCHANGED vars
  BY <1>1, <1>9 DEF vars
<1> QED
  BY <1>4, <1>5, <1>6, <1>7, <1>8, <1>9 DEF Next

(* No removal and no pulled row leaves an entry behind that keeps the       *)
(* barcode from a new item, on any number of tills that edit and pull, in   *)
(* any order: only an edit of an item that is removed already can.          *)
THEOREM RemovalsFreeCodes == Spec => []RemovalFreesCode
<1>1. Init => EntryCarriesCode /\ RemovalFreesCode /\ RemovedBefore
  BY DEF Init, EntryCarriesCode, RemovalFreesCode, RemovedBefore, NoRows, NoRow
<1> QED
  BY <1>1, InitTyped, StepTyped, StepCarries, StepRemoved, StepFrees, PTL DEF Spec

-----------------------------------------------------------------------------
(* One till w whose owner edits the catalogue.  (With two of them, two      *)
(* items may come to carry one barcode: this is in the code.)               *)

(* The latest version of every row is on the till that edits.               *)
WriterAhead(w) ==
    /\ pulled[w] = NoRows
    /\ ~applying[w]
    /\ \A p \in Ids : rows[w][p].at <= clock
    /\ \A d \in Tills : \A p \in Ids : /\ rows[d][p].at <= rows[w][p].at
                                       /\ pulled[d][p].at <= rows[w][p].at

(* Its index has every item on sale, but for the codes freed late.          *)
WriterSound(w) ==
    \A p \in Ids :
        rows[w][p].active /\ rows[w][p].code \notin late[w] \cup {NoCode}
            => index[w][rows[w][p].code] = p

WriterInv(w) == TypeOK /\ WriterAhead(w) /\ WriterSound(w)

(* Every write comes from one of three actions, and nothing else moves the  *)
(* clock.                                                                   *)
Edits(w, p) ==
    \E c \in Codes \cup {NoCode}, a \in BOOLEAN, r \in Nat : Write(w, p, c, a, r)

LEMMA Steps ==
    ASSUME NEW w \in Tills, Writers = {w}, TypeOK, [Next]_vars
    PROVE  \/ \E p \in Ids : Edits(w, p)
           \/ UNCHANGED <<rows, index, pulled, applying, clock>>
           \/ \E d \in Tills, e \in Tills : Pull(d, e)
           \/ \E d \in Tills, p \in Ids : ApplyPulledProduct(d, p)
<1>1. ASSUME NEW d \in Tills, NEW p \in Ids,
             \/ \E c \in Codes \cup {NoCode} : AddProduct(d, p, c) \/ UpdateProduct(d, p, c)
             \/ DeleteProduct(d, p)
      PROVE  Edits(w, p)
  <2>1. /\ rows[d][p].code \in Codes \cup {NoCode} /\ rows[d][p].active \in BOOLEAN
        /\ rows[d][p].removed \in Nat /\ clock + 1 \in Nat
    BY DEF TypeOK, Rows
  <2>2. \E c \in Codes \cup {NoCode}, a \in BOOLEAN, r \in Nat : Write(d, p, c, a, r)
    BY <1>1, <2>1 DEF AddProduct, UpdateProduct, DeleteProduct
  <2>3. d = w
    BY <2>2 DEF Write
  <2> QED
    BY <2>2, <2>3 DEF Edits
<1> QED
  BY <1>1 DEF Next, vars, Products

LEMMA StepAhead ==
    ASSUME NEW w \in Tills, Writers = {w}, TypeOK, TypeOK', WriterAhead(w), [Next]_vars
    PROVE  WriterAhead(w)'
<1>1. ASSUME NEW d \in Tills, NEW p \in Ids
      PROVE  /\ rows[d][p].at \in Nat /\ pulled[d][p].at \in Nat
             /\ rows[d][p].at <= rows[w][p].at /\ pulled[d][p].at <= rows[w][p].at
             /\ rows[w][p].at <= clock /\ rows[w][p].at \in Nat /\ clock \in Nat
  BY DEF TypeOK, Rows, WriterAhead
<1>2. ASSUME NEW p \in Ids, Edits(w, p) PROVE WriterAhead(w)'
  <2>0. PICK c \in Codes \cup {NoCode}, a \in BOOLEAN, r \in Nat : Write(w, p, c, a, r)
    BY <1>2 DEF Edits
  <2>1. /\ rows'[w][p].at = clock + 1
        /\ \A q \in Ids \ {p} : rows'[w][q] = rows[w][q]
        /\ \A e \in Tills \ {w} : rows'[e] = rows[e]
        /\ clock' = clock + 1
        /\ UNCHANGED <<pulled, applying>>
    <3>1. /\ rows'[w][p] = [code |-> c, active |-> a, at |-> clock + 1, removed |-> r]
          /\ \A q \in Ids \ {p} : rows'[w][q] = rows[w][q]
          /\ \A e \in Tills \ {w} : rows'[e] = rows[e]
          /\ clock' = clock + 1
          /\ UNCHANGED <<pulled, applying>>
      BY <2>0, WriteMoves
    <3> QED
      BY <3>1
  <2>2. ASSUME NEW q \in Ids
        PROVE  rows[w][q].at <= rows'[w][q].at /\ rows'[w][q].at <= clock'
    BY <1>1, <2>1
  <2>3. ASSUME NEW e \in Tills, NEW q \in Ids
        PROVE  rows'[e][q].at <= rows'[w][q].at /\ pulled'[e][q].at <= rows'[w][q].at
    <3>1. rows'[w][q].at \in Nat
      BY DEF TypeOK, Rows
    <3>2. CASE e = w
      BY <1>1, <2>1, <2>2, <3>1, <3>2
    <3>3. CASE e # w
      BY <1>1, <2>1, <2>2, <3>1, <3>3
    <3> QED
      BY <3>2, <3>3
  <2> QED
    BY <2>1, <2>2, <2>3 DEF WriterAhead
<1>3. CASE UNCHANGED <<rows, index, pulled, applying, clock>>
  BY <1>3 DEF WriterAhead
<1>4. ASSUME NEW d \in Tills, NEW e \in Tills, Pull(d, e) PROVE WriterAhead(w)'
  <2>1. d # w
    BY <1>1, <1>4 DEF Pull, Later
  <2>2. /\ \A p \in Ids : pulled'[d][p] \in {rows[e][p], NoRow}
        /\ \A f \in Tills \ {d} : pulled'[f] = pulled[f]
        /\ UNCHANGED <<rows, applying, clock>>
    BY <1>4 DEF Pull, TypeOK
  <2>3. NoRow.at = 0
    BY DEF NoRow
  <2>4. ASSUME NEW f \in Tills, NEW p \in Ids PROVE pulled'[f][p].at <= rows[w][p].at
    BY <1>1, <2>2, <2>3
  <2> QED
    BY <2>1, <2>2, <2>4 DEF WriterAhead
<1>5. ASSUME NEW d \in Tills, NEW p \in Ids, ApplyPulledProduct(d, p)
      PROVE  WriterAhead(w)'
  <2>1. d # w
    BY <1>5 DEF ApplyPulledProduct, WriterAhead, NoRows
  <2>2. /\ \A q \in Ids : rows'[d][q] \in {rows[d][q], pulled[d][q]}
        /\ \A q \in Ids : pulled'[d][q] \in {pulled[d][q], NoRow}
        /\ \A e \in Tills \ {d} : /\ rows'[e] = rows[e] /\ pulled'[e] = pulled[e]
                                  /\ applying'[e] = applying[e]
        /\ clock' = clock
    BY <1>5 DEF ApplyPulledProduct, TypeOK
  <2>3. NoRow.at = 0
    BY DEF NoRow
  <2>4. ASSUME NEW f \in Tills, NEW q \in Ids
        PROVE  rows'[f][q].at <= rows[w][q].at /\ pulled'[f][q].at <= rows[w][q].at
    BY <1>1, <2>2, <2>3
  <2> QED
    BY <2>1, <2>2, <2>4 DEF WriterAhead
<1> QED
  BY <1>2, <1>3, <1>4, <1>5, Steps

(* A row and the index changed together: the row has its entry if it is on  *)
(* sale, and the other items on sale keep theirs, unless a code was freed   *)
(* late.                                                                    *)
LEMMA EditSound ==
    ASSUME NEW w \in Tills, TypeOK, TypeOK', WriterSound(w), NEW p \in Ids, NEW c, NEW a, NEW r,
           Write(w, p, c, a, r),
           late[w] \subseteq late'[w],
           a /\ c # NoCode => index'[w][c] = p,
           \A k \in Codes : index'[w][k] = index[w][k] \/ index[w][k] \in {NoId, p}
                               \/ k \in late'[w]
    PROVE  WriterSound(w)'
<1>1. /\ rows'[w][p].code = c /\ rows'[w][p].active = a
      /\ \A q \in Ids \ {p} : rows'[w][q] = rows[w][q]
  <2>1. /\ rows'[w][p] = [code |-> c, active |-> a, at |-> clock + 1, removed |-> r]
        /\ \A q \in Ids \ {p} : rows'[w][q] = rows[w][q]
    BY WriteMoves
  <2> QED
    BY <2>1
<1> SUFFICES ASSUME NEW q \in Ids, rows'[w][q].active,
                    rows'[w][q].code \notin late'[w] \cup {NoCode}
             PROVE  index'[w][rows'[w][q].code] = q
  BY DEF WriterSound
<1>2. CASE q = p
  BY <1>1, <1>2
<1>3. CASE q # p
  <2> DEFINE k == rows[w][q].code
  <2>1. rows'[w][q] = rows[w][q]
    BY <1>1, <1>3
  <2>2. k \in Codes /\ k \notin late'[w]
    BY <2>1 DEF TypeOK, Rows
  <2>3. index[w][k] = q
    BY <2>1, <2>2 DEF WriterSound
  <2> QED
    BY <1>3, <2>1, <2>2, <2>3, CatalogueAssumption
<1> QED
  BY <1>2, <1>3

(* The edits of the owner keep the index true to the rows on sale.          *)
LEMMA OwnerSound ==
    ASSUME NEW w \in Tills, TypeOK, TypeOK', WriterSound(w), NEW p \in Ids,
           \/ \E c \in Codes \cup {NoCode} : AddProduct(w, p, c) \/ UpdateProduct(w, p, c)
           \/ DeleteProduct(w, p)
    PROVE  WriterSound(w)' /\ late[w] \subseteq late'[w]
<1> DEFINE old == rows[w][p].code
<1>1. /\ old \in Codes \cup {NoCode}
      /\ \A k \in Codes : index[w][k] \in Ids \cup {NoId}
      /\ rows[w][p].active \in BOOLEAN
      /\ NoCode \notin Codes /\ NoId \notin Ids
  BY CatalogueAssumption DEF TypeOK, Rows
<1>2. CASE \E c \in Codes \cup {NoCode} : AddProduct(w, p, c)
  <2>1. PICK c \in Codes \cup {NoCode} : AddProduct(w, p, c)
    BY <1>2
  <2>2. /\ \A k \in Codes : index'[w][k] = IF k = c THEN p ELSE index[w][k]
        /\ c \in Codes => index[w][c] = NoId
        /\ late' = late
        /\ Write(w, p, c, TRUE, 0)
    BY <2>1 DEF AddProduct, Pointed, TypeOK
  <2>3. \A k \in Codes : index'[w][k] = index[w][k] \/ index[w][k] \in {NoId, p}
    BY <2>2
  <2> QED
    BY <2>2, <2>3, EditSound
<1>3. CASE \E c \in Codes \cup {NoCode} : UpdateProduct(w, p, c)
  <2>1. PICK c \in Codes \cup {NoCode} : UpdateProduct(w, p, c)
    BY <1>3
  <2>2. /\ index'[w] = Repoint(index[w], p, old, c)
        /\ c \in Codes => index[w][c] \in {NoId, p}
        /\ late'[w] = late[w] \cup FreedLate(w, p, c)
        /\ Write(w, p, c, rows[w][p].active, rows[w][p].removed)
    BY <2>1 DEF UpdateProduct, TypeOK
  <2>3. \A k \in Codes : index'[w][k] = IF k = c THEN p
                                        ELSE IF old # c /\ k = old THEN NoId
                                        ELSE index[w][k]
    BY <2>2 DEF Repoint, Pointed, Without
  <2>4. ASSUME NEW k \in Codes
        PROVE  index'[w][k] = index[w][k] \/ index[w][k] \in {NoId, p} \/ k \in late'[w]
    <3>1. CASE k = c \/ k # old
      BY <2>2, <2>3, <3>1
    <3>2. CASE k # c /\ k = old /\ rows[w][p].active
      BY <1>1, <2>2, <3>2 DEF WriterSound
    <3>3. CASE k # c /\ k = old /\ ~rows[w][p].active
      BY <1>1, <2>2, <3>3 DEF FreedLate
    <3> QED
      BY <3>1, <3>2, <3>3
  <2>5. c # NoCode => index'[w][c] = p
    BY <2>3
  <2>6. late[w] \subseteq late'[w]
    BY <2>2
  <2> QED
    BY <2>2, <2>4, <2>5, <2>6, EditSound
<1>4. CASE DeleteProduct(w, p)
  <2>1. /\ \A k \in Codes : index'[w][k] = IF k = old THEN NoId ELSE index[w][k]
        /\ late'[w] = late[w] \cup FreedLate(w, p, NoCode)
        /\ Write(w, p, old, FALSE, clock + 1)
    BY <1>4 DEF DeleteProduct, Without, TypeOK
  <2>2. ASSUME NEW k \in Codes
        PROVE  index'[w][k] = index[w][k] \/ index[w][k] \in {NoId, p} \/ k \in late'[w]
    <3>1. CASE k # old
      BY <2>1, <3>1
    <3>2. CASE k = old /\ rows[w][p].active
      BY <1>1, <2>1, <3>2 DEF WriterSound
    <3>3. CASE k = old /\ ~rows[w][p].active
      BY <1>1, <2>1, <3>3 DEF FreedLate
    <3> QED
      BY <3>1, <3>2, <3>3
  <2>3. late[w] \subseteq late'[w]
    BY <2>1
  <2> QED
    BY <2>1, <2>2, <2>3, EditSound
<1> QED
  BY <1>2, <1>3, <1>4

LEMMA StepWriter ==
    ASSUME NEW w \in Tills, Writers = {w}
    PROVE  WriterInv(w) /\ [Next]_vars => WriterInv(w)' /\ late[w] \subseteq late'[w]
<1> SUFFICES ASSUME WriterInv(w), [Next]_vars
             PROVE  WriterInv(w)' /\ late[w] \subseteq late'[w]
  OBVIOUS
<1>1. TypeOK /\ TypeOK' /\ WriterSound(w)
  BY StepTyped DEF WriterInv
<1>2. WriterAhead(w) /\ WriterAhead(w)'
  BY <1>1, StepAhead DEF WriterInv
<1> SUFFICES WriterSound(w)' /\ late[w] \subseteq late'[w]
  BY <1>1, <1>2 DEF WriterInv
<1>3. ASSUME rows'[w] = rows[w], index'[w] = index[w], late'[w] = late[w]
      PROVE  WriterSound(w)' /\ late[w] \subseteq late'[w]
  BY <1>1, <1>3 DEF WriterSound
<1>4. CASE UNCHANGED vars
  BY <1>3, <1>4 DEF vars
<1>5. ASSUME NEW d \in Tills, NEW p \in Ids,
             \/ \E c \in Codes \cup {NoCode} : AddProduct(d, p, c) \/ UpdateProduct(d, p, c)
             \/ DeleteProduct(d, p)
      PROVE  WriterSound(w)' /\ late[w] \subseteq late'[w]
  <2>1. d = w
    BY <1>5 DEF AddProduct, UpdateProduct, DeleteProduct, Write
  <2> QED
    BY <1>1, <1>5, <2>1, OwnerSound
<1>6. ASSUME NEW d \in Tills, Products(d) \/ \E e \in Tills : Pull(d, e)
      PROVE  WriterSound(w)' /\ late[w] \subseteq late'[w]
  BY <1>3, <1>6 DEF Products, Pull
<1>7. ASSUME NEW d \in Tills, NEW p \in Ids, ApplyPulledProduct(d, p)
      PROVE  WriterSound(w)' /\ late[w] \subseteq late'[w]
  <2>1. d # w
    BY <1>2, <1>7 DEF ApplyPulledProduct, WriterAhead, NoRows
  <2>2. rows'[w] = rows[w] /\ index'[w] = index[w] /\ late' = late
    BY <1>1, <1>7, <2>1 DEF ApplyPulledProduct, TypeOK
  <2> QED
    BY <1>3, <2>2
<1> QED
  BY <1>4, <1>5, <1>6, <1>7 DEF Next

LEMMA InitWriter ==
    ASSUME NEW w \in Tills, Writers = {w}
    PROVE  Init => WriterInv(w)
<1> SUFFICES ASSUME Init PROVE WriterInv(w)
  OBVIOUS
<1>1. /\ \A d \in Tills : \A p \in Ids : rows[d][p].at = 0 /\ pulled[d][p].at = 0
      /\ \A p \in Ids : ~rows[w][p].active
      /\ pulled[w] = NoRows /\ ~applying[w] /\ clock = 0
  BY DEF Init, NoRows, NoRow
<1> QED
  BY <1>1, InitTyped DEF WriterInv, WriterAhead, WriterSound

(* On the till that alone edits the catalogue, a scan of a barcode finds    *)
(* the item on sale that carries it, after any edits and however late       *)
(* requests came, but for the codes that one of them freed for an item that *)
(* had been removed.                                                        *)
THEOREM ScansFindItems ==
    ASSUME NEW w \in Tills, Writers = {w}
    PROVE  Spec => []ScanFindsItem
<1>1. WriterInv(w) => ScanFindsItem
  <2> SUFFICES ASSUME WriterInv(w), NEW d \in Tills, NEW p \in Ids, Writers = {d},
                      rows[d][p].active, rows[d][p].code \notin late[d] \cup {NoCode}
               PROVE  Scanned(d, rows[d][p].code) = p
    BY DEF ScanFindsItem
  <2>1. d = w /\ index[w][rows[w][p].code] = p
    BY DEF WriterInv, WriterSound
  <2> QED
    BY <2>1, CatalogueAssumption DEF Scanned
<1> QED
  BY <1>1, InitWriter, StepWriter, PTL DEF Spec

-----------------------------------------------------------------------------
(* Every till that pulls has, between two transactions, the catalogue as it *)
(* once was on the till that edits it, and so has what a pull in hand will  *)
(* make of it.                                                              *)

Latest(mine, theirs) ==
    [p \in Ids |-> IF theirs[p].at > mine[p].at THEN theirs[p] ELSE mine[p]]

WhenApplied(d) == Latest(rows[d], pulled[d])

Wholes == {WhenApplied(d) : d \in Tills}
          \cup {rows[d] : d \in {e \in Tills : ~applying[e]}}

Covers(x, y) == \A p \in Ids : x[p].at >= y[p].at

UniqueCodes(x, excepted) ==
    \A p, q \in Active(x) :
        p # q /\ x[p].code # NoCode /\ x[p].code = x[q].code => x[p].code \in excepted

(* The versions of a row that are about; a stamp tells them apart.          *)
Seen(rs, pl, p) == {NoRow} \cup {rs[d][p] : d \in Tills} \cup {pl[d][p] : d \in Tills}

OneVersion == \A p \in Ids : \A v, u \in Seen(rows, pulled, p) : v.at = u.at => v = u

(* One of two whole catalogues is the other one's past.                     *)
Chain == \A x, y \in Wholes : Covers(x, y) \/ Covers(y, x)

SnapshotInv(w) ==
    /\ WriterInv(w)
    /\ OneVersion
    /\ Chain
    /\ \A x \in Wholes : UniqueCodes(x, late[w])

(* The later of two catalogues is what comes of merging them.               *)
LEMMA LatestOfChain ==
    ASSUME NEW x \in [Ids -> Rows], NEW y \in [Ids -> Rows],
           Covers(x, y) \/ Covers(y, x),
           \A p \in Ids : x[p].at = y[p].at => x[p] = y[p]
    PROVE  Latest(x, y) \in {x, y}
<1>1. \A p \in Ids : x[p].at \in Nat /\ y[p].at \in Nat
  BY DEF Rows
<1>2. CASE Covers(x, y)
  <2>1. \A p \in Ids : ~(y[p].at > x[p].at)
    BY <1>1, <1>2 DEF Covers
  <2> QED
    BY <2>1 DEF Latest
<1>3. CASE Covers(y, x)
  <2>1. \A p \in Ids : y[p].at > x[p].at \/ x[p] = y[p]
    BY <1>1, <1>3 DEF Covers
  <2>2. Latest(x, y) = y
    BY <2>1 DEF Latest
  <2> QED
    BY <2>2
<1> QED
  BY <1>2, <1>3

(* What a step adds to the versions that are about: an edit's, which is     *)
(* stamped later than all of them.                                          *)
LEMMA SeenMove ==
    ASSUME NEW w \in Tills, Writers = {w}, TypeOK, TypeOK', WriterAhead(w), [Next]_vars, NEW q \in Ids
    PROVE  \A v \in Seen(rows', pulled', q) :
               \/ v \in Seen(rows, pulled, q)
               \/ v = rows'[w][q] /\ v.at = clock + 1
<1>1. ASSUME NEW p \in Ids, Edits(w, p)
      PROVE  \A v \in Seen(rows', pulled', q) :
                 \/ v \in Seen(rows, pulled, q)
                 \/ v = rows'[w][q] /\ v.at = clock + 1
  <2>1. PICK c \in Codes \cup {NoCode}, a \in BOOLEAN, r \in Nat : Write(w, p, c, a, r)
    BY <1>1 DEF Edits
  <2>2. /\ rows'[w][p] = [code |-> c, active |-> a, at |-> clock + 1, removed |-> r]
        /\ \A t \in Ids \ {p} : rows'[w][t] = rows[w][t]
        /\ \A e \in Tills \ {w} : rows'[e] = rows[e]
        /\ UNCHANGED pulled
    BY <2>1, WriteMoves
  <2>3. rows'[w][p].at = clock + 1
    BY <2>2
  <2>4. rows'[w][q] = rows[w][q] \/ rows'[w][q].at = clock + 1
    BY <2>2, <2>3
  <2>5. ASSUME NEW e \in Tills
        PROVE  \/ rows'[e][q] \in Seen(rows, pulled, q)
               \/ rows'[e][q] = rows'[w][q] /\ rows'[w][q].at = clock + 1
    <3>1. rows[e][q] \in Seen(rows, pulled, q)
      BY DEF Seen
    <3> QED
      BY <2>2, <2>4, <3>1
  <2>6. ASSUME NEW e \in Tills PROVE pulled'[e][q] \in Seen(rows, pulled, q)
    BY <2>2 DEF Seen
  <2>7. NoRow \in Seen(rows, pulled, q)
    BY DEF Seen
  <2> TAKE v \in Seen(rows', pulled', q)
  <2>8. v = NoRow \/ \E e \in Tills : v = rows'[e][q] \/ v = pulled'[e][q]
    BY DEF Seen
  <2> QED
    BY <2>5, <2>6, <2>7, <2>8
<1>2. ASSUME NEW d \in Tills, NEW e \in Tills, Pull(d, e)
      PROVE  \A v \in Seen(rows', pulled', q) : v \in Seen(rows, pulled, q)
  <2>1. /\ UNCHANGED rows
        /\ \A f \in Tills : pulled'[f][q] \in {pulled[f][q], rows[e][q], NoRow}
    BY <1>2 DEF Pull, TypeOK
  <2> QED
    BY <2>1 DEF Seen
<1>3. ASSUME NEW d \in Tills, NEW p \in Ids, ApplyPulledProduct(d, p)
      PROVE  \A v \in Seen(rows', pulled', q) : v \in Seen(rows, pulled, q)
  <2>1. \A f \in Tills : /\ rows'[f][q] \in {rows[f][q], pulled[f][q]}
                         /\ pulled'[f][q] \in {pulled[f][q], NoRow}
    BY <1>3 DEF ApplyPulledProduct, TypeOK
  <2> QED
    BY <2>1 DEF Seen
<1>4. CASE UNCHANGED <<rows, index, pulled, applying, clock>>
  <2>1. Seen(rows', pulled', q) = Seen(rows, pulled, q)
    BY <1>4
  <2> QED
    BY <2>1
<1>5. CASE \E p \in Ids : Edits(w, p)
  BY <1>1, <1>5
<1>6. CASE \E d \in Tills, e \in Tills : Pull(d, e)
  BY <1>2, <1>6
<1>7. CASE \E d \in Tills, p \in Ids : ApplyPulledProduct(d, p)
  BY <1>3, <1>7
<1> QED
  BY <1>4, <1>5, <1>6, <1>7, Steps

(* What a step adds to the whole catalogues: the editing till's new one.    *)
LEMMA WholesMove ==
    ASSUME NEW w \in Tills, Writers = {w},
           TypeOK, TypeOK', WriterAhead(w), WriterAhead(w)', OneVersion, Chain,
           [Next]_vars
    PROVE  \A x \in Wholes' : x \in Wholes \/ x = rows'[w]
<1> SUFFICES ASSUME NEW d \in Tills
             PROVE  /\ WhenApplied(d)' \in Wholes \/ WhenApplied(d)' = rows'[w]
                    /\ ~applying'[d] => rows'[d] \in Wholes \/ rows'[d] = rows'[w]
  BY DEF Wholes
<1>1. CASE d = w
  <2>1. WhenApplied(w)' = rows'[w]
    <3>1. /\ rows'[w] \in [Ids -> Rows] /\ pulled'[w] = NoRows
          /\ \A p \in Ids : rows'[w][p].at \in Nat
      BY DEF TypeOK, Rows, WriterAhead
    <3>2. \A p \in Ids : NoRows[p].at = 0
      BY DEF NoRows, NoRow
    <3> QED
      BY <3>1, <3>2 DEF WhenApplied, Latest
  <2> QED
    BY <1>1, <2>1
<1> SUFFICES ASSUME d # w
             PROVE  /\ WhenApplied(d)' \in Wholes \/ WhenApplied(d)' = rows'[w]
                    /\ ~applying'[d] => rows'[d] \in Wholes \/ rows'[d] = rows'[w]
  BY <1>1
<1>2. CASE rows'[d] = rows[d] /\ pulled'[d] = pulled[d] /\ applying'[d] = applying[d]
  BY <1>2 DEF WhenApplied, Latest, Wholes
<1>3. ASSUME NEW p \in Ids, Edits(w, p)
      PROVE  rows'[d] = rows[d] /\ pulled'[d] = pulled[d] /\ applying'[d] = applying[d]
  <2>1. PICK c \in Codes \cup {NoCode}, a \in BOOLEAN, r \in Nat : Write(w, p, c, a, r)
    BY <1>3 DEF Edits
  <2> QED
    BY <2>1, WriteMoves
<1>4. ASSUME NEW e \in Tills, Pull(d, e)
      PROVE  WhenApplied(d)' \in Wholes /\ rows'[d] \in Wholes
  <2>1. /\ rows' = rows
        /\ rows[d] \in Wholes /\ rows[e] \in Wholes
        /\ pulled'[d] = [p \in Ids |-> IF p \in Later(d, e) THEN rows[e][p] ELSE NoRow]
    BY <1>4 DEF Pull, Wholes, TypeOK
  <2>2. ASSUME NEW p \in Ids
        PROVE  /\ ~(NoRow.at > rows[d][p].at)
               /\ rows[d][p].at = rows[e][p].at => rows[d][p] = rows[e][p]
    <3>1. NoRow.at = 0 /\ rows[d][p].at \in Nat
      BY DEF NoRow, TypeOK, Rows
    <3>2. rows[d][p] \in Seen(rows, pulled, p) /\ rows[e][p] \in Seen(rows, pulled, p)
      BY DEF Seen
    <3> QED
      BY <3>1, <3>2 DEF OneVersion
  <2>3. WhenApplied(d)' = Latest(rows[d], rows[e])
    BY <2>1, <2>2 DEF WhenApplied, Latest, Later
  <2>4. Latest(rows[d], rows[e]) \in {rows[d], rows[e]}
    <3>1. rows[d] \in [Ids -> Rows] /\ rows[e] \in [Ids -> Rows]
      BY DEF TypeOK
    <3>2. Covers(rows[d], rows[e]) \/ Covers(rows[e], rows[d])
      BY <2>1 DEF Chain
    <3> QED
      BY <2>2, <3>1, <3>2, LatestOfChain
  <2> QED
    BY <2>1, <2>3, <2>4
<1>5. ASSUME NEW f \in Tills, NEW e \in Tills, Pull(f, e), f # d
      PROVE  rows'[d] = rows[d] /\ pulled'[d] = pulled[d] /\ applying'[d] = applying[d]
  BY <1>5 DEF Pull, TypeOK
<1>6. ASSUME NEW p \in Ids, ApplyPulledProduct(d, p)
      PROVE  /\ WhenApplied(d)' \in Wholes
             /\ ~applying'[d] => rows'[d] \in Wholes
  <2>1. /\ rows'[d] = IF pulled[d][p].at > rows[d][p].at
                      THEN [rows[d] EXCEPT ![p] = pulled[d][p]] ELSE rows[d]
        /\ pulled'[d] = [pulled[d] EXCEPT ![p] = NoRow]
        /\ applying'[d] = (pulled'[d] # NoRows)
    BY <1>6 DEF ApplyPulledProduct, TypeOK
  <2>2. /\ rows[d] \in [Ids -> Rows] /\ pulled[d] \in [Ids -> Rows]
        /\ NoRow.at = 0
        /\ \A q \in Ids : rows[d][q].at \in Nat /\ pulled[d][q].at \in Nat
    BY DEF TypeOK, NoRow, Rows
  <2>3. WhenApplied(d)' = WhenApplied(d)
    BY <2>1, <2>2 DEF WhenApplied, Latest
  <2>4. ASSUME ~applying'[d] PROVE rows'[d] = WhenApplied(d)'
    <3>1. pulled'[d] = NoRows
      BY <2>1, <2>4
    <3>2. rows'[d] \in [Ids -> Rows] /\ \A q \in Ids : rows'[d][q].at \in Nat
      BY DEF TypeOK, Rows
    <3> QED
      BY <2>2, <3>1, <3>2 DEF WhenApplied, Latest, NoRows
  <2> QED
    BY <2>3, <2>4 DEF Wholes
<1>7. ASSUME NEW f \in Tills, NEW p \in Ids, ApplyPulledProduct(f, p), f # d
      PROVE  rows'[d] = rows[d] /\ pulled'[d] = pulled[d] /\ applying'[d] = applying[d]
  BY <1>7 DEF ApplyPulledProduct, TypeOK
<1>8. CASE UNCHANGED <<rows, index, pulled, applying, clock>>
  BY <1>2, <1>8
<1> QED
  BY <1>2, <1>3, <1>4, <1>5, <1>6, <1>7, <1>8, Steps

LEMMA StepSnapshot ==
    ASSUME NEW w \in Tills, Writers = {w}
    PROVE  SnapshotInv(w) /\ [Next]_vars => SnapshotInv(w)'
<1> SUFFICES ASSUME SnapshotInv(w), [Next]_vars PROVE SnapshotInv(w)'
  OBVIOUS
<1>1. /\ WriterInv(w) /\ WriterInv(w)'
      /\ TypeOK /\ TypeOK' /\ WriterAhead(w) /\ WriterAhead(w)'
      /\ OneVersion /\ Chain
      /\ late[w] \subseteq late'[w]
  BY StepWriter DEF SnapshotInv, WriterInv
<1>2. \A x \in Wholes' : x \in Wholes \/ x = rows'[w]
  BY <1>1, WholesMove
<1>3. Chain'
  <2>1. \A x \in Wholes' : Covers(rows'[w], x)
    <3>1. ASSUME NEW d \in Tills, NEW p \in Ids
          PROVE  /\ rows'[d][p].at \in Nat /\ pulled'[d][p].at \in Nat
                 /\ rows'[w][p].at \in Nat
                 /\ rows'[d][p].at <= rows'[w][p].at /\ pulled'[d][p].at <= rows'[w][p].at
      BY <1>1 DEF TypeOK, Rows, WriterAhead
    <3>2. ASSUME NEW d \in Tills PROVE Covers(rows'[w], WhenApplied(d)')
      BY <3>1 DEF WhenApplied, Latest, Covers
    <3>3. ASSUME NEW d \in Tills PROVE Covers(rows'[w], rows'[d])
      BY <3>1 DEF Covers
    <3> QED
      BY <3>2, <3>3 DEF Wholes
  <2> QED
    BY <1>1, <1>2, <2>1 DEF Chain
<1>4. ASSUME NEW x \in Wholes' PROVE UniqueCodes(x, late'[w])
  <2>1. UniqueCodes(rows'[w], late'[w])
    <3>1. WriterSound(w)'
      BY <1>1 DEF WriterInv
    <3> QED
      BY <3>1 DEF WriterSound, UniqueCodes, Active
  <2>2. x \in Wholes => UniqueCodes(x, late[w])
    BY DEF SnapshotInv
  <2> QED
    BY <1>1, <1>2, <1>4, <2>1, <2>2 DEF UniqueCodes
<1>5. OneVersion'
  <2> SUFFICES ASSUME NEW p \in Ids, NEW v \in Seen(rows', pulled', p),
                      NEW u \in Seen(rows', pulled', p), v.at = u.at
               PROVE  v = u
    BY DEF OneVersion
  <2>1. \A x \in Seen(rows, pulled, p) : x.at \in Nat /\ x.at <= clock
    <3>1. NoRow.at = 0
      BY DEF NoRow
    <3>2. ASSUME NEW d \in Tills
          PROVE  /\ rows[d][p].at \in Nat /\ rows[d][p].at <= clock
                 /\ pulled[d][p].at \in Nat /\ pulled[d][p].at <= clock
      <4>1. /\ rows[d][p].at \in Nat /\ pulled[d][p].at \in Nat
            /\ rows[w][p].at \in Nat /\ clock \in Nat
        BY <1>1 DEF TypeOK, Rows
      <4> QED
        BY <1>1, <4>1 DEF WriterAhead
    <3>3. clock \in Nat
      BY <1>1 DEF TypeOK
    <3> QED
      BY <3>1, <3>2, <3>3 DEF Seen
  <2>2. \A x \in Seen(rows', pulled', p) :
            \/ x \in Seen(rows, pulled, p)
            \/ x = rows'[w][p] /\ x.at = clock + 1
    BY <1>1, SeenMove
  <2>3. clock \in Nat
    BY <1>1 DEF TypeOK
  <2>4. CASE v \in Seen(rows, pulled, p) /\ u \in Seen(rows, pulled, p)
    BY <1>1, <2>4 DEF OneVersion
  <2>5. CASE v \notin Seen(rows, pulled, p) \/ u \notin Seen(rows, pulled, p)
    <3>1. v = rows'[w][p] \/ ~(v.at = clock + 1)
      BY <2>1, <2>2, <2>3
    <3>2. u = rows'[w][p] \/ ~(u.at = clock + 1)
      BY <2>1, <2>2, <2>3
    <3>3. v.at = clock + 1 \/ u.at = clock + 1
      BY <2>2, <2>5
    <3> QED
      BY <3>1, <3>2, <3>3
  <2> QED
    BY <2>4, <2>5
<1> QED
  BY <1>1, <1>3, <1>4, <1>5 DEF SnapshotInv

LEMMA InitSnapshot ==
    ASSUME NEW w \in Tills, Writers = {w}
    PROVE  Init => SnapshotInv(w)
<1> SUFFICES ASSUME Init PROVE SnapshotInv(w)
  OBVIOUS
<1>1. /\ WriterInv(w)
      /\ \A d \in Tills : rows[d] = NoRows /\ pulled[d] = NoRows
  BY InitWriter DEF Init
<1>2. \A p \in Ids : Seen(rows, pulled, p) = {NoRow}
  BY <1>1 DEF Seen, NoRows
<1>3. \A x \in Wholes : x = NoRows
  <2>1. Latest(NoRows, NoRows) = NoRows
    BY DEF Latest, NoRows
  <2> QED
    BY <1>1, <2>1 DEF Wholes, WhenApplied
<1>4. Covers(NoRows, NoRows) /\ UniqueCodes(NoRows, late[w])
  BY DEF Covers, UniqueCodes, Active, NoRows, NoRow
<1> QED
  BY <1>1, <1>2, <1>3, <1>4 DEF SnapshotInv, OneVersion, Chain

(* If one till edits the catalogue, two items on sale carry one barcode at  *)
(* no till, on any number of them that pull from each other, however late,  *)
(* unless a late request freed that barcode for an item that was removed.   *)
THEOREM CodesAreUnique ==
    ASSUME NEW w \in Tills, Writers = {w}
    PROVE  Spec => []ClashNeedsLateRequest
<1>1. SnapshotInv(w) => ClashNeedsLateRequest
  <2> SUFFICES ASSUME SnapshotInv(w), NEW v \in Tills, NEW d \in Tills,
                      NEW p \in Ids, NEW q \in Ids,
                      Writers = {v}, ~applying[d], Clash(d, p, q)
               PROVE  rows[d][p].code \in late[v]
    BY DEF ClashNeedsLateRequest
  <2>1. v = w /\ UniqueCodes(rows[d], late[w])
    BY DEF SnapshotInv, Wholes
  <2> QED
    BY <2>1 DEF UniqueCodes, Clash, Active
<1> QED
  BY <1>1, InitSnapshot, StepSnapshot, PTL DEF Spec
=============================================================================
