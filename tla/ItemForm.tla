------------------------------ MODULE ItemForm ------------------------------
(***************************************************************************)
(* The Add/Edit sheet of the page and the requests it sends (ui/app.js     *)
(* fillItemForm, openItem, openEditItem, handleScan, saveItem, doDelete;   *)
(* web handleProducts and its siblings).                                   *)
(*                                                                         *)
(* saveItem awaits twice, the answer and the reload of the items, and ends *)
(* by resetting what the sheet stands for.  The Save button stays enabled  *)
(* and the sheet can be put away, so more saves and other sheets fall in   *)
(* between.  A request is a step of the server of its own; when the agent  *)
(* is killed, fetch throws, and what is left of saveItem does not run.     *)
(*                                                                         *)
(* The fields of an item are abstracted to whose they are: the sheet keeps *)
(* the item it was filled from, and so does what is sent.  The cart is     *)
(* Till's; here a save only knows whether it will put its item in it.      *)
(***************************************************************************)
EXTENDS Startup

CONSTANTS
    NoId,      \* no item: the sheet adds one
    MaxSaves   \* bound: presses of the Save button

ASSUME FormAssumption == NoId \notin Ids /\ MaxSaves \in Nat

Some == Ids \cup {NoId}
SheetStates == [open : BOOLEAN, from : Some, scan : BOOLEAN]
Idle == [open |-> FALSE, from |-> NoId, scan |-> FALSE]
Requests == [status : {"none", "sent", "served", "loading", "cut", "over"},
             id : Some, scan : BOOLEAN, fields : SheetStates, made : Some]
Request(status) == [status |-> status, id |-> NoId, scan |-> FALSE,
                    fields |-> Idle, made |-> NoId]

VARIABLES
    list,         \* the page's copy of the catalogue, as ids
    sheet,        \* what the sheet shows: the item its fields were filled
                  \* from, and whether a scan opened it
    editId,       \* the item that Save would update
    scanAddToCart, \* whether Save would put the new item in the cart
    posts,        \* [1..MaxSaves -> each save sent]
    crossed       \* a save of before this sheet has ended under it (history)

sheetVars == <<sheet, editId, scanAddToCart, crossed>>
page == <<list, sheetVars>>
formVars == <<page, posts>>

FormTypeOK ==
    /\ list \subseteq Ids
    /\ sheet \in SheetStates
    /\ editId \in Some
    /\ scanAddToCart \in BOOLEAN
    /\ posts \in [1..MaxSaves -> Requests]
    /\ crossed \in BOOLEAN

FormInit ==
    /\ list = {}
    /\ sheet = Idle /\ editId = NoId /\ scanAddToCart = FALSE
    /\ posts = [n \in 1..MaxSaves |-> Request("none")]
    /\ crossed = FALSE

-----------------------------------------------------------------------------
(* The sheet.                                                              *)

LoadProducts ==
    /\ Up
    /\ list' = active
    /\ UNCHANGED <<agent, shelf, sheetVars, posts>>

(* Mutant: a blank sheet does not reset what is edited.                    *)
FillFormKeepsId(p) == editId' = IF p = NoId THEN editId ELSE p

FillForm(p) == editId' = p

OpenSheet(p, scan) ==
    /\ ~sheet.open
    /\ scanAddToCart' = scan
    /\ FillForm(p)
    /\ sheet' = [open |-> TRUE, from |-> p, scan |-> scan]
    /\ crossed' = FALSE
    /\ UNCHANGED <<agent, shelf, list, posts>>

OpenItem == OpenSheet(NoId, FALSE)

(* Mutant: the sheet for an edit leaves the other flag as it is.           *)
OpenEditKeepsFlag(p) ==
    /\ p \in list /\ ~sheet.open
    /\ FillForm(p)
    /\ sheet' = [open |-> TRUE, from |-> p, scan |-> FALSE]
    /\ crossed' = FALSE
    /\ UNCHANGED <<agent, shelf, list, scanAddToCart, posts>>

OpenEditItem(p) == p \in list /\ OpenSheet(p, FALSE)

(* A scan of a code that no listed item carries.                           *)
ScanUnknown == OpenSheet(NoId, TRUE)

(* Cancel and Escape hide the sheet and reset nothing.                     *)
CloseItemSheet ==
    /\ sheet.open
    /\ sheet' = Idle
    /\ UNCHANGED <<agent, shelf, list, editId, scanAddToCart, posts, crossed>>

-----------------------------------------------------------------------------
(* A save.                                                                 *)

InTheAir(n) == posts[n].status \in {"sent", "served", "loading", "cut"}
Pressed == {n \in 1..MaxSaves : posts[n].status # "none"}

(* The presses are numbered in order.                                      *)
SaveItem(n) ==
    /\ sheet.open
    /\ Pressed = 1..(n - 1)
    /\ posts' = [posts EXCEPT ![n] =
           [status |-> IF Up THEN "sent" ELSE "cut",
            id     |-> editId,
            scan   |-> scanAddToCart /\ editId = NoId,
            fields |-> sheet,
            made   |-> NoId]]
    /\ UNCHANGED <<agent, shelf, page>>

(* What the store refuses is left open: a barcode in use (see Catalogue).  *)
RefuseItem(n) ==
    /\ Up
    /\ posts[n].status = "sent"
    /\ posts' = [posts EXCEPT ![n].status = "served"]
    /\ UNCHANGED <<agent, shelf, page>>

AddProduct(n, p) ==
    /\ Up
    /\ posts[n].status = "sent" /\ posts[n].id = NoId
    /\ PutNew(p, 0)
    /\ posts' = [posts EXCEPT ![n].status = "served", ![n].made = p]
    /\ UNCHANGED <<agent, page>>

(* A removed item may be updated; it stays removed.                        *)
UpdateProduct(n) ==
    /\ Up
    /\ posts[n].status = "sent" /\ posts[n].id \in active \cup removed
    /\ posts' = [posts EXCEPT ![n].status = "served", ![n].made = posts[n].id]
    /\ UNCHANGED <<agent, shelf, page>>

DeleteProduct(p) ==
    /\ Up
    /\ p \in list
    /\ active' = active \ {p}
    /\ removed' = removed \cup {p}
    /\ UNCHANGED <<agent, starter, page, posts>>

(* The answer hides the sheet, whichever it is by now, and the items are   *)
(* loaded again; a refusal is a toast.                                     *)
SaveAnswered(n) ==
    /\ posts[n].status = "served"
    /\ IF posts[n].made = NoId
       THEN /\ posts' = [posts EXCEPT ![n] = Request("over")]
            /\ UNCHANGED sheet
       ELSE /\ posts' = [posts EXCEPT ![n].status = "loading"]
            /\ sheet' = Idle
    /\ UNCHANGED <<agent, shelf, list, editId, scanAddToCart, crossed>>

(* The end of saveItem.                                                    *)
ResetForm ==
    /\ scanAddToCart' = FALSE
    /\ editId' = NoId
    /\ crossed' = sheet.open

SaveDone(n) ==
    /\ Up
    /\ posts[n].status = "loading"
    /\ list' = active
    /\ ResetForm
    /\ posts' = [posts EXCEPT ![n] = Request("over")]
    /\ UNCHANGED <<agent, shelf, sheet>>

SaveThrows(n) ==
    /\ posts[n].status = "cut"
    /\ posts' = [posts EXCEPT ![n] = Request("over")]
    /\ UNCHANGED <<agent, shelf, page>>

(* What a killed agent does to the saves.                                  *)
CutSaves ==
    posts' = [n \in 1..MaxSaves |->
        IF InTheAir(n) THEN [posts[n] EXCEPT !.status = "cut"] ELSE posts[n]]

FormInput ==
    \/ OpenItem
    \/ \E p \in Ids : OpenEditItem(p)
    \/ ScanUnknown
    \/ CloseItemSheet
    \/ \E n \in 1..MaxSaves : SaveItem(n)
    \/ \E p \in Ids : DeleteProduct(p)

FormWork ==
    \/ LoadProducts
    \/ \E n \in 1..MaxSaves : RefuseItem(n)
    \/ \E n \in 1..MaxSaves, p \in Ids : AddProduct(n, p)
    \/ \E n \in 1..MaxSaves : UpdateProduct(n)
    \/ \E n \in 1..MaxSaves : SaveAnswered(n)
    \/ \E n \in 1..MaxSaves : SaveDone(n)
    \/ \E n \in 1..MaxSaves : SaveThrows(n)

-----------------------------------------------------------------------------
(* Properties.                                                             *)

(* Whatever is pressed, put away, answered and killed in between, a save   *)
(* never writes the fields of one item, or of a new one, over another      *)
(* item, and never puts in the cart what no scan asked for (saveItem's url *)
(* and wasScanAdd against what fillItemForm put in the fields).            *)
NeverAnother ==
    \A n \in 1..MaxSaves : InTheAir(n) =>
        /\ posts[n].id # NoId => posts[n].id = posts[n].fields.from
        /\ posts[n].scan => posts[n].fields.scan

(* Unless a save of an earlier sheet ended under it, a sheet saves as what *)
(* it was opened for: an edit as an edit, a scanned item into the cart and *)
(* no other item (openItem, openEditItem, the last lines of saveItem).     *)
AsOpened ==
    sheet.open /\ ~crossed => editId = sheet.from /\ (scanAddToCart <=> sheet.scan)

=============================================================================
