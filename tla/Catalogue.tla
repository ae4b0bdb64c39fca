----------------------------- MODULE Catalogue -----------------------------
(***************************************************************************)
(* The catalogue of a till and its barcode index.                          *)
(*                                                                         *)
(* The store keeps catalogue rows by id and, beside them, an index from a  *)
(* barcode to the id a scan stands for (boltstore.go, bucket barcode_idx). *)
(* Every handler keeps both in step by hand in one write transaction; a    *)
(* pull (sync.go, applyPulledProduct) does so row by row inside one        *)
(* transaction, in the order the rows arrive.  A request, its answer and   *)
(* the list a page then loads are steps of their own (app.js, saveItem and *)
(* doDelete): requests overlap, an answer may be lost, and a sheet stays   *)
(* open, so a request may name any item that a page has ever listed, also  *)
(* one that has been removed since.                                        *)
(*                                                                         *)
(* A row is abstracted to its barcode, its Active flag and its stamps.     *)
(***************************************************************************)
EXTENDS Integers

CONSTANTS
    Tills,
    Writers,   \* the tills whose owners edit the catalogue
    Ids,       \* product ids (UUIDs: no two tills mint the same one)
    Codes,     \* barcodes
    NoCode,    \* the empty barcode
    NoId,      \* what an index without an entry returns
    MaxClock   \* bound: how many catalogue writes there may be

ASSUME CatalogueAssumption ==
    /\ Writers \subseteq Tills
    /\ NoCode \notin Codes
    /\ NoId \notin Ids
    /\ MaxClock \in Nat

(* at is UpdatedAt; removed is DeletedAt, 0 for an item never removed.      *)
Rows == [code : Codes \cup {NoCode}, active : BOOLEAN, at : Nat, removed : Nat]
NoRow == [code |-> NoCode, active |-> FALSE, at |-> 0, removed |-> 0]
NoRows == [p \in Ids |-> NoRow]

VARIABLES
    rows,     \* [Tills -> [Ids -> Rows]]: bucket products
    index,    \* [Tills -> [Codes -> Ids \cup {NoId}]]: bucket barcode_idx
    listed,   \* [Tills -> SUBSET Ids]: the items a page has been given
    late,     \* [Tills -> SUBSET Codes]: the barcodes freed once more for an
              \* item that had been removed before (history)
    pulled,   \* [Tills -> [Ids -> Rows]]: the rows of a pull, until applied
    applying, \* [Tills -> BOOLEAN]: the transaction that applies them is open
    clock     \* the stamp of the last write

vars == <<rows, index, listed, late, pulled, applying, clock>>

TypeOK ==
    /\ rows \in [Tills -> [Ids -> Rows]]
    /\ index \in [Tills -> [Codes -> Ids \cup {NoId}]]
    /\ listed \in [Tills -> SUBSET Ids]
    /\ late \in [Tills -> SUBSET Codes]
    /\ pulled \in [Tills -> [Ids -> Rows]]
    /\ applying \in [Tills -> BOOLEAN]
    /\ clock \in Nat

Init ==
    /\ rows = [d \in Tills |-> NoRows]
    /\ index = [d \in Tills |-> [c \in Codes |-> NoId]]
    /\ listed = [d \in Tills |-> {}]
    /\ late = [d \in Tills |-> {}]
    /\ pulled = [d \in Tills |-> NoRows]
    /\ applying = [d \in Tills |-> FALSE]
    /\ clock = 0

Has(d, p) == rows[d][p].at > 0
Active(r) == {p \in Ids : r[p].active}

-----------------------------------------------------------------------------
(* The index after the deletion of code c and after pointing it at p.       *)
Without(idx, c) == [k \in Codes |-> IF k = c THEN NoId ELSE idx[k]]

Pointed(idx, c, p) == [k \in Codes |-> IF k = c THEN p ELSE idx[k]]

(* The barcode that a request frees though the item is a tombstone.         *)
FreedLate(d, p, new) ==
    IF rows[d][p].active THEN {} ELSE {rows[d][p].code} \ {new, NoCode}

(* Every write stamps the row.  bbolt runs one write transaction at a time. *)
Write(d, p, code, active, removed) ==
    /\ d \in Writers
    /\ ~applying[d]
    /\ clock < MaxClock
    /\ clock' = clock + 1
    /\ rows' = [rows EXCEPT ![d][p] =
                  [code |-> code, active |-> active, at |-> clock + 1,
                   removed |-> removed]]
    /\ UNCHANGED <<listed, pulled, applying>>

(* Variant: the barcode may be in use.                                      *)
AddWithAnyCode(d, p, c) ==
    /\ \A e \in Tills : ~Has(e, p)
    /\ Write(d, p, c, TRUE, 0)
    /\ index' = [index EXCEPT ![d] = Pointed(@, c, p)]
    /\ UNCHANGED late

AddProduct(d, p, c) ==
    /\ \A e \in Tills : ~Has(e, p)
    /\ c \in Codes => index[d][c] = NoId
    /\ Write(d, p, c, TRUE, 0)
    /\ index' = [index EXCEPT ![d] = Pointed(@, c, p)]
    /\ UNCHANGED late

(* Variant: the old barcode is deleted last.                                *)
RepointDropsLast(idx, p, old, new) == Without(Pointed(idx, new, p), old)

(* The entry of the old barcode goes whoever it points at.                  *)
Repoint(idx, p, old, new) ==
    Pointed(IF old # new THEN Without(idx, old) ELSE idx, new, p)

(* The item may be a tombstone: its Active flag is neither asked nor set.   *)
UpdateProduct(d, p, c) ==
    /\ p \in listed[d]
    /\ c \in Codes => index[d][c] \in {NoId, p}
    /\ Write(d, p, c, rows[d][p].active, rows[d][p].removed)
    /\ index' = [index EXCEPT ![d] = Repoint(@, p, rows[d][p].code, c)]
    /\ late' = [late EXCEPT ![d] = @ \cup FreedLate(d, p, c)]

(* Variant: a deleted item's barcode is not freed.                          *)
DeleteKeepsCode(d, p) ==
    /\ p \in listed[d]
    /\ Write(d, p, rows[d][p].code, FALSE, clock + 1)
    /\ UNCHANGED <<index, late>>

(* The barcode is freed whoever its entry points at.                        *)
DeleteProduct(d, p) ==
    /\ p \in listed[d]
    /\ Write(d, p, rows[d][p].code, FALSE, clock + 1)
    /\ index' = [index EXCEPT ![d] = Without(@, rows[d][p].code)]
    /\ late' = [late EXCEPT ![d] = @ \cup FreedLate(d, p, NoCode)]

(* A page loads the list: when it opens, and after an answer it has seen.   *)
Products(d) ==
    /\ d \in Writers
    /\ ~applying[d]
    /\ listed' = [listed EXCEPT ![d] = @ \cup Active(rows[d])]
    /\ UNCHANGED <<rows, index, late, pulled, applying, clock>>

-----------------------------------------------------------------------------
(* A pull brings what another till has pushed: all its rows that are later  *)
(* than this till's, as they were when it pushed.                           *)
Later(d, e) == {p \in Ids : rows[e][p].at > rows[d][p].at}

Pull(d, e) ==
    /\ ~applying[d] /\ ~applying[e]
    /\ Later(d, e) # {}
    /\ pulled' = [pulled EXCEPT ![d] =
                     [p \in Ids |-> IF p \in Later(d, e) THEN rows[e][p] ELSE NoRow]]
    /\ UNCHANGED <<rows, index, listed, late, applying, clock>>

(* Variant: the entry of the till's own version is left in the index.       *)
PulledKeepsOld(idx, p, mine, theirs) ==
    IF theirs.active THEN Pointed(idx, theirs.code, p) ELSE idx

(* The entry of the till's own version goes, whoever it points at, and an   *)
(* active row takes its barcode, whoever had it.                            *)
PulledIndex(idx, p, mine, theirs) ==
    LET freed == IF mine.at > 0 THEN Without(idx, mine.code) ELSE idx
    IN  IF theirs.active THEN Pointed(freed, theirs.code, p) ELSE freed

(* One row of a pull; the first opens the transaction, the last commits.    *)
ApplyPulledProduct(d, p) ==
    LET mine == rows[d][p]
        theirs == pulled[d][p]
    IN  /\ theirs # NoRow
        /\ pulled' = [pulled EXCEPT ![d][p] = NoRow]
        /\ applying' = [applying EXCEPT ![d] = pulled'[d] # NoRows]
        /\ IF theirs.at > mine.at
           THEN /\ rows' = [rows EXCEPT ![d][p] = theirs]
                /\ index' = [index EXCEPT ![d] = PulledIndex(@, p, mine, theirs)]
           ELSE UNCHANGED <<rows, index>>
        /\ UNCHANGED <<listed, late, clock>>

-----------------------------------------------------------------------------
Next ==
    \E d \in Tills :
        \/ \E p \in Ids, c \in Codes \cup {NoCode} :
              AddProduct(d, p, c) \/ UpdateProduct(d, p, c)
        \/ \E p \in Ids : DeleteProduct(d, p)
        \/ Products(d)
        \/ \E e \in Tills : Pull(d, e)
        \/ \E p \in Ids : ApplyPulledProduct(d, p)

Spec == Init /\ [][Next]_vars

-----------------------------------------------------------------------------
(* What a scan of code c sells at till d (ProductByBarcode): an entry that  *)
(* leads to a tombstone is as good as none.                                 *)
Scanned(d, c) ==
    LET p == index[d][c]
    IN  IF p # NoId /\ rows[d][p].active THEN p ELSE NoId

(* An entry of the index leads to an item that carries that barcode, also   *)
(* in the middle of a pull and after requests that came late: a scan never  *)
(* sells an item with another barcode (the index is re-pointed in the same  *)
(* transaction by every writer of a row).                                   *)
EntryCarriesCode ==
    \A d \in Tills : \A c \in Codes :
        index[d][c] # NoId => /\ Has(d, index[d][c])
                              /\ rows[d][index[d][c]].code = c

(* No removal, and no pulled row, leaves an entry behind that keeps the     *)
(* barcode from a new item.  Only an edit does that names an item which has *)
(* been removed before: UpdateProduct then points the barcode at it.        *)
RemovalFreesCode ==
    \A d \in Tills : \A c \in Codes :
        LET r == rows[d][index[d][c]]
        IN  index[d][c] # NoId => r.active \/ r.at # r.removed

(* On the till that alone edits the catalogue a scan finds the item that    *)
(* carries the code, whatever was edited before and however late requests   *)
(* came, but for the codes that one of them freed for an item that had been *)
(* removed.  (A till that pulls may lose an entry: the rows arrive in an    *)
(* order of the cloud's.)                                                   *)
ScanFindsItem ==
    \A d \in Tills : \A p \in Ids :
        LET c == rows[d][p].code
        IN  Writers = {d} /\ rows[d][p].active /\ c \notin late[d] \cup {NoCode}
                => Scanned(d, c) = p

(* Two items on sale that carry one barcode.                                *)
Clash(d, p, q) ==
    /\ p # q
    /\ rows[d][p].active /\ rows[d][q].active
    /\ rows[d][p].code = rows[d][q].code
    /\ rows[d][p].code # NoCode

(* If one till edits the catalogue, two items on sale carry one barcode at  *)
(* no till, between two transactions, unless a late request freed it there. *)
ClashNeedsLateRequest ==
    \A w, d \in Tills : \A p, q \in Ids :
        Writers = {w} /\ ~applying[d] /\ Clash(d, p, q)
            => rows[d][p].code \in late[w]

(* "A scan maps to exactly one product": no two items of a till that are on *)
(* sale carry one barcode.                                                  *)
OneItemPerCode ==
    \A d \in Tills : \A p, q \in Ids : ~applying[d] => ~Clash(d, p, q)

=============================================================================
