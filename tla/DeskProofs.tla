----------------------------- MODULE DeskProofs -----------------------------
(***************************************************************************)
(* What is proved of Desk, for any number of items, sales, requests, kills *)
(* and inputs, and at the end of Scan, the search for the printers that    *)
(* the desk prints on, for any number of probes and slots.                 *)
(***************************************************************************)
EXTENDS Desk, Scan, FiniteSetTheorems, TLAPS

USE StartupAssumption, FormAssumption, PrintAssumption, DeskAssumption

shelfVars == <<agent, shelf>>

(* Every step of the desk is a step of one part, and the parts not named   *)
(* stay as they are.                                                       *)
LEMMA Parts ==
    ASSUME [Next]_vars
    PROVE  \/ StartupNext /\ UNCHANGED <<formVars, printVars, inputs>>
           \/ FormInput /\ UNCHANGED printVars /\ inputs' = inputs + 1 /\ inputs < MaxInputs
           \/ FormWork /\ UNCHANGED <<printVars, inputs>>
           \/ PrintInput /\ UNCHANGED formVars /\ inputs' = inputs + 1 /\ inputs < MaxInputs
           \/ PrintWork /\ UNCHANGED <<formVars, inputs>>
           \/ Die
           \/ UNCHANGED vars
BY DEF Next, Input, Work

-----------------------------------------------------------------------------
(* The agent and the shelf.                                                *)

(* What a step can do to the shelf, whichever part makes it.               *)
ShelfStep ==
    \/ Open
    \/ \E p \in Ids : Seed(p)
    \/ Listen
    \/ Kill
    \/ Up /\ UNCHANGED agent /\ \E p \in Ids : PutNew(p, 0)
    \/ Up /\ UNCHANGED <<agent, starter>> /\ \E p \in Ids :
            active' = active \ {p} /\ removed' = removed \cup {p}
    \/ UNCHANGED shelfVars

LEMMA ShelfSteps ==
    ASSUME [Next]_vars
    PROVE  ShelfStep
<1>1. CASE StartupNext
  BY <1>1 DEF StartupNext, ShelfStep
<1>2. CASE FormInput
  <2>1. CASE \E p \in Ids : DeleteProduct(p)
    BY <2>1 DEF DeleteProduct, ShelfStep
  <2>2. CASE ~ \E p \in Ids : DeleteProduct(p)
    <3>1. UNCHANGED shelfVars
      BY <1>2, <2>2 DEF FormInput, OpenItem, OpenEditItem, ScanUnknown, OpenSheet,
         CloseItemSheet, SaveItem, shelfVars
    <3> QED BY <3>1 DEF ShelfStep
  <2> QED BY <2>1, <2>2
<1>3. CASE FormWork
  <2>1. CASE \E n \in 1..MaxSaves, p \in Ids : AddProduct(n, p)
    BY <2>1 DEF AddProduct, ShelfStep
  <2>2. CASE ~ \E n \in 1..MaxSaves, p \in Ids : AddProduct(n, p)
    <3>1. UNCHANGED shelfVars
      BY <1>3, <2>2 DEF FormWork, LoadProducts, RefuseItem, UpdateProduct, SaveAnswered,
         SaveDone, SaveThrows, shelfVars
    <3> QED BY <3>1 DEF ShelfStep
  <2> QED BY <2>1, <2>2
<1>4. CASE PrintInput
  <2>1. UNCHANGED shelfVars
    BY <1>4 DEF PrintInput, SaleCompleted, CloseSuccess, SavePrinter, RetryPrint,
       ReprintSale, shelfVars
  <2> QED BY <2>1 DEF ShelfStep
<1>5. CASE PrintWork
  <2>1. UNCHANGED shelfVars
    BY <1>5 DEF PrintWork, PrintSale, PrintAnswered, PrintThrows, shelfVars
  <2> QED BY <2>1 DEF ShelfStep
<1>6. CASE Die
  BY <1>6 DEF Die, ShelfStep
<1>7. CASE UNCHANGED vars
  BY <1>7 DEF vars, ShelfStep, shelfVars
<1> QED BY Parts, <1>1, <1>2, <1>3, <1>4, <1>5, <1>6, <1>7

(* While an agent adds its starter items, those on the shelf are the ones  *)
(* before the next: it started with an empty shelf and nobody else writes. *)
SeedingInOrder ==
    phase = "seeding" =>
        /\ todo \in 1..Starters
        /\ \A p \in active : starter[p] < todo

ShelfInv == StartupTypeOK /\ SeedingInOrder /\ StarterShelf

LEMMA ShelfStepsKeep ==
    ASSUME ShelfInv, ShelfStep
    PROVE  ShelfInv'
<1> USE DEF ShelfInv, StartupTypeOK, Phases
<1>1. CASE Open
  BY <1>1 DEF Open, SeedingInOrder, StarterShelf, shelf
<1>2. ASSUME NEW p \in Ids, Seed(p)
      PROVE  ShelfInv'
  <2>1. StartupTypeOK'
    BY <1>2 DEF Seed, PutNew, Unused, SeedingInOrder
  <2>2. starter'[p] = todo /\ \A q \in active : q # p /\ starter'[q] = starter[q]
    BY <1>2 DEF Seed, PutNew, Unused
  <2>3. \A q \in active : starter[q] < todo
    BY <1>2 DEF Seed, SeedingInOrder
  <2>4. active' = active \cup {p} /\ todo' = todo + 1 /\ phase = "seeding"
        /\ phase' = IF todo = Starters THEN "ready" ELSE "seeding"
    BY <1>2 DEF Seed, PutNew
  <2>5. todo \in 1..Starters
    BY <2>4 DEF SeedingInOrder
  <2>6. SeedingInOrder'
    BY <2>2, <2>3, <2>4, <2>5 DEF SeedingInOrder
  <2>7. StarterShelf'
    BY <2>2, <2>3, <2>4, <2>5 DEF StarterShelf
  <2> QED BY <2>1, <2>6, <2>7
<1>3. CASE Listen
  BY <1>3 DEF Listen, shelf, SeedingInOrder, StarterShelf
<1>4. CASE Kill
  BY <1>4 DEF Kill, shelf, SeedingInOrder, StarterShelf
<1>5. ASSUME Up, UNCHANGED agent, NEW p \in Ids, PutNew(p, 0)
      PROVE  ShelfInv'
  <2>1. StartupTypeOK'
    BY <1>5 DEF PutNew, Unused, agent
  <2>2. starter'[p] = 0 /\ \A q \in active : q # p /\ starter'[q] = starter[q]
    BY <1>5 DEF PutNew, Unused
  <2>3. active' = active \cup {p} /\ phase' = "serving"
    BY <1>5 DEF PutNew, Up, agent
  <2>4. SeedingInOrder' /\ StarterShelf'
    BY <2>2, <2>3 DEF SeedingInOrder, StarterShelf
  <2> QED BY <2>1, <2>4
<1>6. ASSUME Up, UNCHANGED <<agent, starter>>, NEW p \in Ids,
             active' = active \ {p}, removed' = removed \cup {p}
      PROVE  ShelfInv'
  BY <1>6 DEF Up, agent, SeedingInOrder, StarterShelf
<1>7. CASE UNCHANGED shelfVars
  BY <1>7 DEF shelfVars, agent, shelf, SeedingInOrder, StarterShelf
<1> QED BY <1>1, <1>2, <1>3, <1>4, <1>5, <1>6, <1>7 DEF ShelfStep

LEMMA ShelfKept == Spec => []ShelfInv
<1>1. Init => ShelfInv
  BY DEF Init, StartupInit, ShelfInv, StartupTypeOK, Phases, SeedingInOrder, StarterShelf
<1>2. ShelfInv /\ [Next]_vars => ShelfInv'
  BY ShelfSteps, ShelfStepsKeep
<1> QED BY <1>1, <1>2, PTL DEF Spec

(* A starter item is never on the shelf twice and no agent serves an empty *)
(* shelf to begin with, however often agents die among the starter items.  *)
THEOREM StartersOnce == Spec => []StarterShelf
<1>1. ShelfInv => StarterShelf
  BY DEF ShelfInv
<1> QED BY <1>1, ShelfKept, PTL

-----------------------------------------------------------------------------
(* The Add/Edit sheet.                                                     *)

(* What a sheet that is open holds: never another item than the one its    *)
(* fields were filled from, and no wish of a scan that did not open it.    *)
SheetTrue ==
    sheet.open =>
        /\ editId # NoId => editId = sheet.from
        /\ scanAddToCart => sheet.scan

FormInv == FormTypeOK /\ SheetTrue /\ AsOpened /\ NeverAnother

LEMMA FormUntouched ==
    ASSUME FormInv, UNCHANGED formVars
    PROVE  FormInv'
BY DEF FormInv, FormTypeOK, SheetTrue, AsOpened, NeverAnother, InTheAir, formVars, page,
   sheetVars

(* A sheet that is opened or closed; no save changes.                      *)
LEMMA SheetOpened ==
    ASSUME FormInv, NEW p \in Some, NEW scan \in BOOLEAN, OpenSheet(p, scan)
    PROVE  FormInv'
BY DEF FormInv, FormTypeOK, SheetTrue, AsOpened, NeverAnother, InTheAir, OpenSheet, FillForm,
   SheetStates

LEMMA SheetClosed ==
    ASSUME FormInv, CloseItemSheet
    PROVE  FormInv'
BY DEF FormInv, FormTypeOK, SheetTrue, AsOpened, NeverAnother, InTheAir, CloseItemSheet,
   SheetStates, Idle, Some

(* A save that moves on keeps what it sends.                               *)
LEMMA SaveMoves ==
    ASSUME FormInv, NEW n \in 1..MaxSaves, InTheAir(n),
           NEW made \in Some, NEW status \in {"served", "loading", "cut"},
           posts' = [posts EXCEPT ![n].status = status, ![n].made = made],
           UNCHANGED <<list, editId, scanAddToCart, crossed>>,
           sheet' = sheet \/ sheet' = Idle
    PROVE  FormInv'
<1>1. FormTypeOK'
  <2>1. sheet' \in SheetStates
    <3>1. Idle \in SheetStates
      BY DEF SheetStates, Idle, Some
    <3> QED BY <3>1 DEF FormInv, FormTypeOK
  <2>2. posts' \in [1..MaxSaves -> Requests]
    BY ZenonT(30) DEF FormInv, FormTypeOK, Requests
  <2> QED BY <2>1, <2>2 DEF FormInv, FormTypeOK
<1>2. SheetTrue' /\ AsOpened'
  BY DEF FormInv, SheetTrue, AsOpened, Idle
<1>3. NeverAnother'
  <2>1. \A m \in 1..MaxSaves :
          /\ posts'[m].id = posts[m].id /\ posts'[m].scan = posts[m].scan
          /\ posts'[m].fields = posts[m].fields
          /\ m # n => posts'[m].status = posts[m].status
    BY DEF FormInv, FormTypeOK, Requests
  <2> QED BY <2>1, ZenonT(30) DEF FormInv, NeverAnother, InTheAir
<1> QED BY <1>1, <1>2, <1>3 DEF FormInv

(* A save that is over says nothing more.                                  *)
LEMMA SaveEnds ==
    ASSUME FormInv, NEW n \in 1..MaxSaves,
           posts' = [posts EXCEPT ![n] = Request("over")]
    PROVE  /\ posts' \in [1..MaxSaves -> Requests]
           /\ NeverAnother'
<1>1. Request("over") \in Requests
  BY DEF Request, Requests, SheetStates, Idle, Some
<1>2. posts' \in [1..MaxSaves -> Requests]
  BY <1>1 DEF FormInv, FormTypeOK
<1>3. posts'[n].status = "over"
  BY DEF Request, FormInv, FormTypeOK
<1>4. \A m \in 1..MaxSaves \ {n} : posts'[m] = posts[m]
  BY DEF FormInv, FormTypeOK
<1>5. NeverAnother'
  BY <1>3, <1>4 DEF FormInv, NeverAnother, InTheAir
<1> QED BY <1>2, <1>5

LEMMA FormInputKeeps ==
    ASSUME FormInv, FormInput
    PROVE  FormInv'
<1>1. CASE OpenItem \/ ScanUnknown \/ \E p \in Ids : OpenEditItem(p)
  BY <1>1, SheetOpened DEF OpenItem, ScanUnknown, OpenEditItem, Some
<1>2. CASE CloseItemSheet
  BY <1>2, SheetClosed
<1>3. ASSUME NEW n \in 1..MaxSaves, SaveItem(n)
      PROVE  FormInv'
  <2> DEFINE request ==
        [status |-> IF Up THEN "sent" ELSE "cut", id |-> editId,
         scan |-> scanAddToCart /\ editId = NoId, fields |-> sheet, made |-> NoId]
  <2>1. posts' = [posts EXCEPT ![n] = request] /\ sheet.open /\ UNCHANGED page
    BY <1>3 DEF SaveItem
  <2>2. (scanAddToCart /\ editId = NoId) \in BOOLEAN
    OBVIOUS
  <2>3. request \in Requests
    BY <2>2 DEF Requests, FormInv, FormTypeOK, Some
  <2>4. FormTypeOK' /\ SheetTrue' /\ AsOpened'
    BY <2>1, <2>3 DEF FormInv, FormTypeOK, SheetTrue, AsOpened, page, sheetVars
  <2>5. posts'[n] = request /\ \A m \in 1..MaxSaves \ {n} : posts'[m] = posts[m]
    BY <2>1 DEF FormInv, FormTypeOK
  <2>6. /\ request.id # NoId => request.id = request.fields.from
        /\ request.scan => request.fields.scan
    BY <2>1 DEF FormInv, SheetTrue
  <2>7. NeverAnother'
    BY <2>5, <2>6 DEF FormInv, NeverAnother, InTheAir
  <2> QED BY <2>4, <2>7 DEF FormInv
<1>4. CASE \E p \in Ids : DeleteProduct(p)
  BY <1>4, FormUntouched DEF DeleteProduct, formVars
<1> QED BY <1>1, <1>2, <1>3, <1>4 DEF FormInput

LEMMA FormWorkKeeps ==
    ASSUME FormInv, StartupTypeOK, FormWork
    PROVE  FormInv'
<1>1. CASE LoadProducts
  BY <1>1 DEF LoadProducts, FormInv, FormTypeOK, SheetTrue, AsOpened, NeverAnother, InTheAir,
     StartupTypeOK, sheetVars
<1>2. ASSUME NEW n \in 1..MaxSaves,
             RefuseItem(n) \/ UpdateProduct(n) \/ \E p \in Ids : AddProduct(n, p)
      PROVE  FormInv'
  <2>1. PICK made \in Some :
          posts' = [posts EXCEPT ![n].status = "served", ![n].made = made]
    <3>1. CASE RefuseItem(n)
      <4>1. posts[n].made \in Some
        BY DEF FormInv, FormTypeOK, Requests
      <4>2. posts' = [posts EXCEPT ![n].status = "served", ![n].made = posts[n].made]
        BY <3>1 DEF RefuseItem, FormInv, FormTypeOK, Requests
      <4> QED BY <4>1, <4>2
    <3>2. CASE UpdateProduct(n)
      BY <3>2 DEF UpdateProduct, FormInv, FormTypeOK, Requests
    <3>3. CASE \E p \in Ids : AddProduct(n, p)
      BY <3>3 DEF AddProduct, Some
    <3> QED BY <1>2, <3>1, <3>2, <3>3
  <2>2. InTheAir(n) /\ UNCHANGED page
    BY <1>2 DEF RefuseItem, UpdateProduct, AddProduct, InTheAir
  <2> QED BY <2>1, <2>2, SaveMoves DEF page, sheetVars
<1>3. ASSUME NEW n \in 1..MaxSaves, SaveAnswered(n)
      PROVE  FormInv'
  <2>1. CASE posts[n].made = NoId
    <3>1. /\ posts' = [posts EXCEPT ![n] = Request("over")]
          /\ UNCHANGED page
      BY <1>3, <2>1 DEF SaveAnswered, page, sheetVars
    <3> QED BY <3>1, SaveEnds DEF FormInv, FormTypeOK, SheetTrue, AsOpened, page, sheetVars
  <2>2. CASE posts[n].made # NoId
    <3>1. posts[n].made \in Some
      BY DEF FormInv, FormTypeOK, Requests
    <3>2. posts' = [posts EXCEPT ![n].status = "loading", ![n].made = posts[n].made]
      BY <1>3, <2>2 DEF SaveAnswered, FormInv, FormTypeOK, Requests
    <3>3. InTheAir(n) /\ sheet' = Idle /\ UNCHANGED <<list, editId, scanAddToCart, crossed>>
      BY <1>3, <2>2 DEF SaveAnswered, InTheAir
    <3> QED BY <3>1, <3>2, <3>3, SaveMoves
  <2> QED BY <2>1, <2>2
<1>4. ASSUME NEW n \in 1..MaxSaves, SaveDone(n)
      PROVE  FormInv'
  <2>1. /\ posts' = [posts EXCEPT ![n] = Request("over")]
        /\ list' = active /\ sheet' = sheet
        /\ editId' = NoId /\ scanAddToCart' = FALSE /\ crossed' = sheet.open
    BY <1>4 DEF SaveDone, ResetForm
  <2>2. FormTypeOK'
    BY <2>1, SaveEnds DEF FormInv, FormTypeOK, StartupTypeOK, SheetStates, Some
  <2>3. SheetTrue' /\ AsOpened'
    BY <2>1 DEF SheetTrue, AsOpened
  <2> QED BY <2>1, <2>2, <2>3, SaveEnds DEF FormInv
<1>5. ASSUME NEW n \in 1..MaxSaves, SaveThrows(n)
      PROVE  FormInv'
  <2>1. /\ posts' = [posts EXCEPT ![n] = Request("over")]
        /\ UNCHANGED page
    BY <1>5 DEF SaveThrows
  <2> QED BY <2>1, SaveEnds DEF FormInv, FormTypeOK, SheetTrue, AsOpened, page, sheetVars
<1> QED BY <1>1, <1>2, <1>3, <1>4, <1>5 DEF FormWork

LEMMA SavesCut ==
    ASSUME FormInv, CutSaves, UNCHANGED page
    PROVE  FormInv'
<1>1. \A n \in 1..MaxSaves :
        /\ posts'[n] \in Requests
        /\ posts'[n].id = posts[n].id /\ posts'[n].scan = posts[n].scan
        /\ posts'[n].fields = posts[n].fields
        /\ posts'[n].status \in {"sent", "served", "loading", "cut"} => InTheAir(n)
  <2> TAKE n \in 1..MaxSaves
  <2>1. posts[n] \in Requests
    BY DEF FormInv, FormTypeOK
  <2>2. CASE InTheAir(n)
    <3>1. posts'[n] = [posts[n] EXCEPT !.status = "cut"]
      BY <2>2 DEF CutSaves
    <3> QED BY <2>1, <2>2, <3>1 DEF Requests
  <2>3. CASE ~InTheAir(n)
    <3>1. posts'[n] = posts[n]
      BY <2>3 DEF CutSaves
    <3> QED BY <2>1, <2>3, <3>1 DEF InTheAir
  <2> QED BY <2>2, <2>3
<1>2. posts' \in [1..MaxSaves -> Requests]
  BY <1>1 DEF CutSaves
<1>3. FormTypeOK' /\ SheetTrue' /\ AsOpened'
  BY <1>2 DEF FormInv, FormTypeOK, SheetTrue, AsOpened, page, sheetVars
<1>4. NeverAnother'
  BY <1>1 DEF FormInv, NeverAnother, InTheAir
<1> QED BY <1>3, <1>4 DEF FormInv

LEMMA FormStarts == Init => FormInv
<1> SUFFICES ASSUME Init PROVE FormInv
  OBVIOUS
<1>1. Request("none") \in Requests /\ Idle \in SheetStates
  BY DEF Request, Requests, SheetStates, Idle, Some
<1>2. FormTypeOK
  BY <1>1 DEF Init, FormInit, FormTypeOK, Some
<1>3. SheetTrue /\ AsOpened
  BY DEF Init, FormInit, SheetTrue, AsOpened, Idle
<1>4. NeverAnother
  BY DEF Init, FormInit, NeverAnother, InTheAir, Request
<1> QED BY <1>2, <1>3, <1>4 DEF FormInv

LEMMA FormKept == ShelfInv /\ FormInv /\ [Next]_vars => FormInv'
<1> SUFFICES ASSUME ShelfInv, FormInv, [Next]_vars PROVE FormInv'
  OBVIOUS
<1>1. StartupTypeOK
  BY DEF ShelfInv
<1>2. CASE Die
  BY <1>2, SavesCut DEF Die
<1>3. CASE UNCHANGED vars
  BY <1>3, FormUntouched DEF vars
<1> QED BY Parts, <1>1, <1>2, <1>3, FormInputKeeps, FormWorkKeeps, FormUntouched

LEMMA FormHolds == Spec => []FormInv
BY FormStarts, FormKept, ShelfKept, PTL DEF Spec

(* No save writes one item's fields over another, or puts in the cart what *)
(* no scan asked for, for any number of saves, sheets and kills.           *)
THEOREM NoItemOverwritten == Spec => []NeverAnother
<1>1. FormInv => NeverAnother
  BY DEF FormInv
<1> QED BY <1>1, FormHolds, PTL

(* A sheet saves as what it was opened for unless a save crossed it.       *)
THEOREM SheetKeepsPurpose == Spec => []AsOpened
<1>1. FormInv => AsOpened
  BY DEF FormInv
<1> QED BY <1>1, FormHolds, PTL

-----------------------------------------------------------------------------
(* The print step.                                                         *)

(* A request is about a sale.                                              *)
JobsOfSales == \A n \in 1..MaxPrints : jobs[n].status # "none" => jobs[n].sale \in Sales

(* A receipt that the printer took is one, and unless receipts overlapped, *)
(* those that will be written on the sheet are of the sale it shows.       *)
PrintedTrue == \A n \in 1..MaxPrints : jobs[n].status = "printed" => jobs[n].sale \in printed

OnlyOfSale ==
    ~overlapped => \A n \in 1..MaxPrints :
        OnItsWay(n) /\ OfSheet(n) => jobs[n].sale = lastSale

PrintInv == PrintTypeOK /\ JobsOfSales /\ PrintedTrue /\ OnlyOfSale /\ OkIsPrinted /\ StepEnds

LEMMA PrintUntouched ==
    ASSUME PrintInv, UNCHANGED printVars
    PROVE  PrintInv'
BY DEF PrintInv, PrintTypeOK, JobsOfSales, PrintedTrue, OnlyOfSale, OkIsPrinted, StepEnds, OnItsWay,
   OfSheet, printVars, sheetOfSale

(* A request is made in a place of its own.                                *)
LEMMA Asking ==
    ASSUME PrintTypeOK, NEW n \in 1..MaxPrints, NEW s \in Sales,
           NEW from \in {"sale", "retry", "list"}, Ask(n, s, from)
    PROVE  /\ jobs' \in [1..MaxPrints -> Jobs]
           /\ jobs[n].status = "none"
           /\ jobs'[n].status \in {"sent", "cut"}
           /\ jobs'[n].sale = s /\ jobs'[n].from = from
           /\ \A m \in 1..MaxPrints : m # n => jobs'[m] = jobs[m]
<1>1. n \notin Asked
  BY DEF Ask
<1>2. jobs[n].status = "none"
  BY <1>1 DEF Asked
<1> DEFINE status == IF Up THEN "sent" ELSE "cut"
<1>3. status \in {"sent", "cut"} /\ jobs' = [jobs EXCEPT ![n] = Job(status, s, from)]
  BY DEF Ask
<1> HIDE DEF status
<1>4. /\ Job(status, s, from) \in Jobs
      /\ Job(status, s, from).status = status
      /\ Job(status, s, from).sale = s
      /\ Job(status, s, from).from = from
  BY <1>3 DEF Job, Jobs, SomeSale
<1> QED BY <1>2, <1>3, <1>4 DEF PrintTypeOK

LEMMA PrintInputKeeps ==
    ASSUME PrintInv, PrintInput
    PROVE  PrintInv'
<1> USE DEF PrintInv
<1>1. ASSUME NEW s \in Sales, SaleCompleted(s)
      PROVE  PrintInv'
  <2>1. /\ completed' = completed \cup {s} /\ lastSale' = s /\ shown' = TRUE
        /\ retry' = [retry EXCEPT !.shown = FALSE]
        /\ (overlapped' <=> \E n \in 1..MaxPrints : OnItsWay(n) /\ OfSheet(n))
        /\ hasPrinter' = hasPrinter /\ printed' = printed
        /\ s \in SomeSale
    BY <1>1 DEF SaleCompleted, SomeSale
  <2>2. overlapped' \in BOOLEAN
    BY <1>1 DEF SaleCompleted
  <2>3. retry' \in [shown : BOOLEAN, disabled : BOOLEAN] /\ retry'.disabled = retry.disabled
    BY <2>1 DEF PrintTypeOK
  <2>4. CASE hasPrinter
    <3>1. PICK n \in 1..MaxPrints : Ask(n, s, "sale") /\ step' = "working"
      BY <1>1, <2>4 DEF SaleCompleted, PrintReceipt
    <3>2. /\ jobs' \in [1..MaxPrints -> Jobs]
          /\ jobs[n].status = "none"
          /\ jobs'[n].status \in {"sent", "cut"}
          /\ jobs'[n].sale = s /\ jobs'[n].from = "sale"
          /\ \A m \in 1..MaxPrints : m # n => jobs'[m] = jobs[m]
      BY <3>1, <2>1, Asking
    <3>3. PrintTypeOK'
      BY <2>1, <2>2, <2>3, <3>1, <3>2 DEF PrintTypeOK
    <3>4. JobsOfSales' /\ PrintedTrue' /\ OnlyOfSale' /\ OkIsPrinted'
      BY <2>1, <2>2, <3>1, <3>2 DEF JobsOfSales, PrintedTrue, OnlyOfSale, OkIsPrinted, OnItsWay, OfSheet
    <3>5. StepEnds'
      BY <2>1, <2>3, <3>1, <3>2 DEF StepEnds, OnItsWay, OfSheet
    <3> QED BY <3>3, <3>4, <3>5
  <2>5. CASE ~hasPrinter
    <3>1. step' = "warn" /\ jobs' = jobs
      BY <1>1, <2>5 DEF SaleCompleted, PrintReceipt
    <3>2. PrintTypeOK'
      BY <2>1, <2>2, <2>3, <3>1 DEF PrintTypeOK
    <3>3. JobsOfSales' /\ PrintedTrue' /\ OnlyOfSale' /\ OkIsPrinted' /\ StepEnds'
      BY <2>1, <2>3, <3>1 DEF JobsOfSales, PrintedTrue, OnlyOfSale, OkIsPrinted, StepEnds, OnItsWay, OfSheet
    <3> QED BY <3>2, <3>3
  <2> QED BY <2>4, <2>5
<1>2. CASE CloseSuccess
  BY <1>2, ZenonT(30) DEF CloseSuccess, PrintTypeOK, JobsOfSales, PrintedTrue, OnlyOfSale, OkIsPrinted, StepEnds,
     OnItsWay, OfSheet
<1>3. CASE SavePrinter
  BY <1>3 DEF SavePrinter, PrintTypeOK, JobsOfSales, PrintedTrue, OnlyOfSale, OkIsPrinted, StepEnds,
     OnItsWay, OfSheet, sheetOfSale
<1>4. CASE RetryPrint
  <2>1. /\ retry' = [shown |-> FALSE, disabled |-> hasPrinter]
        /\ UNCHANGED <<hasPrinter, completed, lastSale, shown, overlapped, printed>>
    BY <1>4 DEF RetryPrint, sheetOfSale
  <2>2. retry' \in [shown : BOOLEAN, disabled : BOOLEAN] /\ retry'.disabled = hasPrinter
        /\ lastSale \in Sales
    BY <1>4, <2>1 DEF RetryPrint, PrintTypeOK, SomeSale
  <2>3. CASE hasPrinter
    <3>1. PICK n \in 1..MaxPrints : Ask(n, lastSale, "retry") /\ step' = "working"
      BY <1>4, <2>3 DEF RetryPrint, PrintReceipt
    <3>2. /\ jobs' \in [1..MaxPrints -> Jobs]
          /\ jobs[n].status = "none"
          /\ jobs'[n].status \in {"sent", "cut"}
          /\ jobs'[n].sale = lastSale /\ jobs'[n].from = "retry"
          /\ \A m \in 1..MaxPrints : m # n => jobs'[m] = jobs[m]
      BY <3>1, <2>2, Asking
    <3>3. PrintTypeOK'
      BY <2>1, <2>2, <3>1, <3>2 DEF PrintTypeOK
    <3>4. JobsOfSales' /\ PrintedTrue' /\ OnlyOfSale' /\ OkIsPrinted'
      BY <2>1, <2>2, <3>1, <3>2 DEF JobsOfSales, PrintedTrue, OnlyOfSale, OkIsPrinted, OnItsWay, OfSheet
    <3>5. StepEnds'
      BY <2>1, <3>1, <3>2 DEF StepEnds, OnItsWay, OfSheet
    <3> QED BY <3>3, <3>4, <3>5
  <2>4. CASE ~hasPrinter
    <3>1. step' = "warn" /\ jobs' = jobs /\ ~retry'.disabled
      BY <1>4, <2>1, <2>4 DEF RetryPrint, PrintReceipt
    <3>2. PrintTypeOK'
      BY <2>1, <2>2, <3>1 DEF PrintTypeOK
    <3>3. JobsOfSales' /\ PrintedTrue' /\ OnlyOfSale' /\ OkIsPrinted' /\ StepEnds'
      BY <2>1, <3>1 DEF JobsOfSales, PrintedTrue, OnlyOfSale, OkIsPrinted, StepEnds, OnItsWay, OfSheet
    <3> QED BY <3>2, <3>3
  <2> QED BY <2>3, <2>4
<1>5. ASSUME NEW s \in Sales, ReprintSale(s)
      PROVE  PrintInv'
  <2>1. PICK n \in 1..MaxPrints : Ask(n, s, "list")
    BY <1>5 DEF ReprintSale
  <2>2. UNCHANGED <<hasPrinter, completed, lastSale, shown, overlapped, step, retry, printed>>
    BY <1>5 DEF ReprintSale, sheetOfSale
  <2>3. /\ jobs' \in [1..MaxPrints -> Jobs]
        /\ jobs[n].status = "none"
        /\ jobs'[n].status \in {"sent", "cut"}
        /\ jobs'[n].sale = s /\ jobs'[n].from = "list"
        /\ \A m \in 1..MaxPrints : m # n => jobs'[m] = jobs[m]
    BY <2>1, Asking
  <2>4. PrintTypeOK'
    BY <2>2, <2>3 DEF PrintTypeOK
  <2>5. JobsOfSales' /\ PrintedTrue' /\ OnlyOfSale' /\ OkIsPrinted'
    BY <2>2, <2>3 DEF JobsOfSales, PrintedTrue, OnlyOfSale, OkIsPrinted, OnItsWay, OfSheet
  <2>6. StepEnds'
    BY <2>2, <2>3 DEF StepEnds, OnItsWay, OfSheet
  <2> QED BY <2>4, <2>5, <2>6
<1> QED BY <1>1, <1>2, <1>3, <1>4, <1>5 DEF PrintInput

(* A request that moves on is still about the same sale.                   *)
LEMMA JobMoves ==
    ASSUME PrintTypeOK, NEW n \in 1..MaxPrints,
           NEW status \in {"printed", "refused", "over", "lost"},
           jobs' = [jobs EXCEPT ![n].status = status]
    PROVE  /\ jobs' \in [1..MaxPrints -> Jobs]
           /\ jobs'[n].status = status
           /\ \A m \in 1..MaxPrints :
                /\ jobs'[m].sale = jobs[m].sale /\ jobs'[m].from = jobs[m].from
                /\ m # n => jobs'[m].status = jobs[m].status
BY DEF PrintTypeOK, Jobs

LEMMA PrintWorkKeeps ==
    ASSUME PrintInv, PrintWork
    PROVE  PrintInv'
<1> USE DEF PrintInv
<1>1. ASSUME NEW n \in 1..MaxPrints, PrintSale(n)
      PROVE  PrintInv'
  <2>1. /\ jobs[n].status = "sent"
        /\ UNCHANGED <<hasPrinter, completed, lastSale, shown, overlapped, step, retry>>
    BY <1>1 DEF PrintSale, sheetOfSale
  <2>2. PICK status \in {"printed", "refused"} :
          /\ jobs' = [jobs EXCEPT ![n].status = status]
          /\ status = "printed" => printed' = printed \cup {jobs[n].sale}
          /\ status = "refused" => printed' = printed
    BY <1>1 DEF PrintSale
  <2>3. jobs[n].sale \in Sales
    BY <2>1 DEF JobsOfSales
  <2>4. /\ jobs' \in [1..MaxPrints -> Jobs]
        /\ jobs'[n].status = status
        /\ \A m \in 1..MaxPrints :
             /\ jobs'[m].sale = jobs[m].sale /\ jobs'[m].from = jobs[m].from
             /\ m # n => jobs'[m].status = jobs[m].status
    BY <2>2, JobMoves
  <2>5. PrintTypeOK'
    BY <2>1, <2>2, <2>3, <2>4 DEF PrintTypeOK
  <2>6. JobsOfSales' /\ PrintedTrue' /\ OkIsPrinted'
    BY <2>1, <2>2, <2>3, <2>4 DEF JobsOfSales, PrintedTrue, OkIsPrinted
  <2>7. OnlyOfSale' /\ StepEnds'
    BY <2>1, <2>2, <2>4 DEF OnlyOfSale, StepEnds, OnItsWay, OfSheet
  <2> QED BY <2>5, <2>6, <2>7
<1>2. ASSUME NEW n \in 1..MaxPrints, PrintAnswered(n)
      PROVE  PrintInv'
  <2>1. /\ jobs[n].status \in {"printed", "refused"}
        /\ jobs' = [jobs EXCEPT ![n].status = "over"]
        /\ UNCHANGED <<hasPrinter, completed, lastSale, shown, overlapped, printed>>
    BY <1>2 DEF PrintAnswered, sheetOfSale
  <2>2. /\ jobs' \in [1..MaxPrints -> Jobs]
        /\ jobs'[n].status = "over"
        /\ \A m \in 1..MaxPrints :
             /\ jobs'[m].sale = jobs[m].sale /\ jobs'[m].from = jobs[m].from
             /\ m # n => jobs'[m].status = jobs[m].status
    BY <2>1, JobMoves
  <2>3. JobsOfSales' /\ PrintedTrue' /\ OnlyOfSale'
    BY <2>1, <2>2 DEF JobsOfSales, PrintedTrue, OnlyOfSale, OnItsWay, OfSheet
  <2>4. CASE OfSheet(n)
    <3>1. /\ step' = IF jobs[n].status = "printed" THEN "ok" ELSE "failed"
          /\ retry' = [shown    |-> jobs[n].status = "refused",
                       disabled |-> retry.disabled /\ jobs[n].from # "retry"]
      BY <1>2, <2>4 DEF PrintAnswered, RetryAnswered
    <3>2. /\ retry' \in [shown : BOOLEAN, disabled : BOOLEAN]
          /\ retry'.disabled => retry.disabled /\ jobs[n].from # "retry"
      BY <3>1 DEF PrintTypeOK
    <3>3. PrintTypeOK'
      BY <2>1, <2>2, <3>1, <3>2 DEF PrintTypeOK
    <3>4. OkIsPrinted'
      BY <2>1, <2>4, <3>1 DEF OkIsPrinted, PrintedTrue, OnlyOfSale, OnItsWay
    <3>5. StepEnds'
      BY <2>1, <2>2, <3>1, <3>2 DEF StepEnds, OnItsWay, OfSheet
    <3> QED BY <2>3, <3>3, <3>4, <3>5
  <2>5. CASE ~OfSheet(n)
    <3>1. UNCHANGED <<step, retry>>
      BY <1>2, <2>5 DEF PrintAnswered
    <3>2. PrintTypeOK' /\ OkIsPrinted'
      BY <2>1, <2>2, <3>1 DEF PrintTypeOK, OkIsPrinted
    <3>3. StepEnds'
      BY <2>1, <2>2, <2>5, <3>1 DEF StepEnds, OnItsWay, OfSheet
    <3> QED BY <2>3, <3>2, <3>3
  <2> QED BY <2>4, <2>5
<1>3. ASSUME NEW n \in 1..MaxPrints, PrintThrows(n)
      PROVE  PrintInv'
  <2>1. /\ jobs[n].status = "cut"
        /\ jobs' = [jobs EXCEPT ![n].status = "lost"]
        /\ UNCHANGED <<hasPrinter, completed, lastSale, shown, overlapped, step, retry, printed>>
    BY <1>3 DEF PrintThrows, sheetOfSale
  <2>2. /\ jobs' \in [1..MaxPrints -> Jobs]
        /\ jobs'[n].status = "lost"
        /\ \A m \in 1..MaxPrints :
             /\ jobs'[m].sale = jobs[m].sale /\ jobs'[m].from = jobs[m].from
             /\ m # n => jobs'[m].status = jobs[m].status
    BY <2>1, JobMoves
  <2>3. PrintTypeOK' /\ JobsOfSales' /\ PrintedTrue' /\ OnlyOfSale' /\ OkIsPrinted'
    BY <2>1, <2>2 DEF PrintTypeOK, JobsOfSales, PrintedTrue, OnlyOfSale, OkIsPrinted,
       OnItsWay, OfSheet
  <2>4. StepEnds'
    BY <2>1, <2>2 DEF StepEnds, OnItsWay, OfSheet
  <2> QED BY <2>3, <2>4
<1> QED BY <1>1, <1>2, <1>3 DEF PrintWork

LEMMA PrintsCut ==
    ASSUME PrintInv, CutPrints,
           UNCHANGED <<hasPrinter, sheetOfSale, step, retry, printed>>
    PROVE  PrintInv'
<1> USE DEF PrintInv
<1>1. ASSUME NEW n \in 1..MaxPrints
      PROVE  /\ jobs'[n] \in Jobs
             /\ jobs'[n].sale = jobs[n].sale /\ jobs'[n].from = jobs[n].from
             /\ OnItsWay(n) => jobs'[n].status = "cut"
             /\ ~OnItsWay(n) => jobs'[n].status = jobs[n].status
  <2>1. jobs[n] \in Jobs
    BY DEF PrintTypeOK
  <2>2. CASE OnItsWay(n)
    <3>1. jobs'[n] = [jobs[n] EXCEPT !.status = "cut"]
      BY <2>2 DEF CutPrints
    <3> QED BY <2>1, <2>2, <3>1 DEF Jobs
  <2>3. CASE ~OnItsWay(n)
    <3>1. jobs'[n] = jobs[n]
      BY <2>3 DEF CutPrints
    <3> QED BY <2>1, <2>3, <3>1
  <2> QED BY <2>2, <2>3
<1>2. jobs' \in [1..MaxPrints -> Jobs]
  BY <1>1 DEF CutPrints
<1>3. PrintTypeOK' /\ OkIsPrinted'
  BY <1>2 DEF PrintTypeOK, OkIsPrinted, sheetOfSale
<1>4. JobsOfSales' /\ PrintedTrue' /\ OnlyOfSale' /\ StepEnds'
  BY <1>1 DEF JobsOfSales, PrintedTrue, OnlyOfSale, StepEnds, OnItsWay, OfSheet, sheetOfSale
<1> QED BY <1>3, <1>4

LEMMA PrintStarts == Init => PrintInv
<1> SUFFICES ASSUME Init PROVE PrintInv
  OBVIOUS
<1>1. NoJob \in Jobs /\ NoJob.status = "none"
  BY DEF NoJob, Job, Jobs, SomeSale
<1>2. \A n \in 1..MaxPrints : jobs[n].status = "none"
  BY <1>1 DEF Init, PrintInit
<1>3. PrintTypeOK
  <2>1. retry \in [shown : BOOLEAN, disabled : BOOLEAN]
    BY DEF Init, PrintInit
  <2>2. jobs \in [1..MaxPrints -> Jobs]
    BY <1>1 DEF Init, PrintInit
  <2> QED BY <2>1, <2>2 DEF Init, PrintInit, PrintTypeOK, SomeSale
<1>4. ~retry.disabled /\ step = "none"
  BY DEF Init, PrintInit
<1> QED BY <1>2, <1>3, <1>4 DEF PrintInv, JobsOfSales, PrintedTrue, OnlyOfSale, OkIsPrinted,
       StepEnds, OnItsWay

LEMMA PrintHolds == Spec => []PrintInv
<1>1. PrintInv /\ [Next]_vars => PrintInv'
  <2> SUFFICES ASSUME PrintInv, [Next]_vars PROVE PrintInv'
    OBVIOUS
  <2>1. CASE Die
    BY <2>1, PrintsCut DEF Die
  <2>2. CASE UNCHANGED vars
    BY <2>2, PrintUntouched DEF vars
  <2> QED BY Parts, <2>1, <2>2, PrintInputKeeps, PrintWorkKeeps, PrintUntouched
<1> QED BY <1>1, PrintStarts, PTL DEF Spec

(* "Receipt printed." is true unless receipts overlapped, for any number   *)
(* of sales, retries and kills.                                            *)
THEOREM ReceiptIsPrinted == Spec => []OkIsPrinted
<1>1. PrintInv => OkIsPrinted
  BY DEF PrintInv
<1> QED BY <1>1, PrintHolds, PTL

(* The step and the button wait only for an answer that is to come or that *)
(* was lost with an agent.                                                 *)
THEOREM WaitsForAnswer == Spec => []StepEnds
<1>1. PrintInv => StepEnds
  BY DEF PrintInv
<1> QED BY <1>1, PrintHolds, PTL

InputsBounded == inputs \in 0..MaxInputs

(* The state of the desk is of its type.                                   *)
THEOREM Typing == Spec => []TypeOK
<1>1. Init => InputsBounded
  BY DEF Init, InputsBounded
<1>2. InputsBounded /\ [Next]_vars => InputsBounded'
  <2> SUFFICES ASSUME InputsBounded, [Next]_vars PROVE InputsBounded'
    OBVIOUS
  <2>1. \/ inputs' = inputs
        \/ inputs < MaxInputs /\ inputs' = inputs + 1
    BY Parts DEF Die, vars
  <2> QED BY <2>1 DEF InputsBounded
<1>3. ShelfInv /\ FormInv /\ PrintInv /\ InputsBounded => TypeOK
  BY DEF ShelfInv, FormInv, PrintInv, InputsBounded, TypeOK
<1> QED BY <1>1, <1>2, <1>3, ShelfKept, FormHolds, PrintHolds, PTL DEF Spec

-----------------------------------------------------------------------------
(* The search for printers, a state machine of its own.  The invariant     *)
(* that carries its theorems says who holds a slot: the tokens in the      *)
(* semaphore are as many as the goroutines between Acquire and Release.    *)
(* The bound on the connections and the empty semaphore at the end both    *)
(* follow from that count.                                                 *)

Holders == {p \in Probes : pc[p] \in {"dialing", "reporting", "releasing"}}

SlotsHeld == sem = Cardinality(Holders)

(* What a goroutine's place says of its port.                              *)
Seen ==
    /\ found \subseteq answered
    /\ \A p \in Probes :
          /\ pc[p] = "reporting" => p \in answered
          /\ pc[p] # "reporting" => cancelled \/ p \notin answered \/ p \in found
          /\ pc[p] \in {"waiting", "dialing"} => p \notin answered

Ended ==
    /\ closed => \A p \in Probes : pc[p] = "done"
    /\ returned => closed

ScanInv == ScanTypeOK /\ SlotsHeld /\ Seen /\ Ended

-----------------------------------------------------------------------------
(* The state machine keeps to its types (Scan).                            *)
THEOREM ScanTyping == ScanSpec => []ScanTypeOK
<1>1. ScanInit => ScanTypeOK
  <2> SUFFICES ASSUME ScanInit PROVE ScanTypeOK
    OBVIOUS
  <2>1. answered \subseteq Probes /\ sem \in 0..MaxConcurrent /\ found \subseteq Probes
    BY ScanAssumption DEF ScanInit
  <2>2. pc \in [Probes -> Places]
    BY DEF ScanInit, Places
  <2>3. cancelled \in BOOLEAN /\ closed \in BOOLEAN /\ returned \in BOOLEAN
    BY DEF ScanInit
  <2> QED BY <2>1, <2>2, <2>3 DEF ScanTypeOK
<1>2. ScanTypeOK /\ [ScanNext]_scanVars => ScanTypeOK'
  <2> SUFFICES ASSUME ScanTypeOK, [ScanNext]_scanVars PROVE ScanTypeOK'
    OBVIOUS
  <2> USE ScanAssumption DEF ScanTypeOK, Places, Move
  <2>1. ASSUME NEW p \in Probes, Probe(p) PROVE ScanTypeOK'
    <3>1. CASE Acquire(p)
      BY <3>1 DEF Acquire
    <3>2. CASE GiveUp(p)
      BY <3>2 DEF GiveUp
    <3>3. CASE Dial(p)
      BY <3>3 DEF Dial
    <3>4. CASE Report(p)
      BY <3>4 DEF Report
    <3>5. CASE Abandon(p)
      BY <3>5 DEF Abandon
    <3>6. CASE Release(p)
      BY <3>6 DEF Release
    <3>7. CASE Done(p)
      BY <3>7 DEF Done
    <3> QED BY <2>1, <3>1, <3>2, <3>3, <3>4, <3>5, <3>6, <3>7 DEF Probe
  <2>2. CASE Close
    BY <2>2 DEF Close
  <2>3. CASE Return
    BY <2>3 DEF Return
  <2>4. CASE Cancel
    BY <2>4 DEF Cancel
  <2>5. CASE UNCHANGED scanVars
    BY <2>5 DEF scanVars
  <2> QED BY <2>1, <2>2, <2>3, <2>4, <2>5 DEF ScanNext
<1> QED BY <1>1, <1>2, PTL DEF ScanSpec

(* One goroutine that takes or leaves a slot moves the count by one.       *)
LEMMA HoldersFinite == IsFiniteSet(Holders) /\ Cardinality(Holders) \in Nat
  BY ScanAssumption, FS_Subset, FS_CardinalityType DEF Holders

LEMMA ScanKeepsSlots ==
    ASSUME ScanTypeOK, SlotsHeld, [ScanNext]_scanVars
    PROVE  SlotsHeld'
<1> USE HoldersFinite DEF ScanTypeOK, SlotsHeld, Holders, Move, Places
<1>1. ASSUME NEW p \in Probes, Acquire(p) PROVE SlotsHeld'
  <2>1. Holders' = Holders \cup {p} /\ p \notin Holders
    BY <1>1 DEF Acquire
  <2>2. Cardinality(Holders') = Cardinality(Holders) + 1
    BY <2>1, FS_AddElement
  <2> QED BY <2>2, <1>1 DEF Acquire
<1>2. ASSUME NEW p \in Probes, Release(p) PROVE SlotsHeld'
  <2>1. Holders' = Holders \ {p} /\ p \in Holders
    BY <1>2 DEF Release
  <2>2. \A S : IsFiniteSet(S) /\ p \in S => Cardinality(S \ {p}) = Cardinality(S) - 1
    BY FS_RemoveElement
  <2>3. Cardinality(Holders') = Cardinality(Holders) - 1
    BY <2>1, <2>2, HoldersFinite
  <2> QED BY <2>3, <1>2 DEF Release
<1>3. ASSUME NEW p \in Probes,
             GiveUp(p) \/ Dial(p) \/ Report(p) \/ Abandon(p) \/ Done(p)
      PROVE  SlotsHeld'
  <2>1. Holders' = Holders
    BY <1>3 DEF GiveUp, Dial, Report, Abandon, Done
  <2> QED BY <2>1, <1>3 DEF GiveUp, Dial, Report, Abandon, Done
<1>4. CASE Close \/ Return \/ Cancel \/ UNCHANGED scanVars
  BY <1>4 DEF Close, Return, Cancel, scanVars
<1> QED BY <1>1, <1>2, <1>3, <1>4 DEF ScanNext, Probe

LEMMA ScanKeepsSeen ==
    ASSUME ScanTypeOK, Seen, [ScanNext]_scanVars
    PROVE  Seen'
<1> USE DEF ScanTypeOK, Seen, Move, Places
<1>1. ASSUME NEW p \in Probes, Probe(p) PROVE Seen'
  <2>1. CASE Acquire(p)
    BY <2>1 DEF Acquire
  <2>2. CASE GiveUp(p)
    BY <2>2 DEF GiveUp
  <2>3. CASE Dial(p)
    BY <2>3 DEF Dial
  <2>4. CASE Report(p)
    BY <2>4 DEF Report
  <2>5. CASE Abandon(p)
    BY <2>5 DEF Abandon
  <2>6. CASE Release(p)
    BY <2>6 DEF Release
  <2>7. CASE Done(p)
    BY <2>7 DEF Done
  <2> QED BY <1>1, <2>1, <2>2, <2>3, <2>4, <2>5, <2>6, <2>7 DEF Probe
<1>2. CASE Close \/ Return \/ Cancel \/ UNCHANGED scanVars
  BY <1>2 DEF Close, Return, Cancel, scanVars
<1> QED BY <1>1, <1>2 DEF ScanNext

LEMMA ScanKeepsEnded ==
    ASSUME ScanTypeOK, Ended, [ScanNext]_scanVars
    PROVE  Ended'
<1> USE DEF ScanTypeOK, Ended, Move
<1>1. ASSUME NEW p \in Probes, Probe(p) PROVE Ended'
  BY <1>1 DEF Probe, Acquire, GiveUp, Dial, Report, Abandon, Release, Done
<1>2. CASE Close
  BY <1>2 DEF Close, At
<1>3. CASE Return \/ Cancel \/ UNCHANGED scanVars
  BY <1>3 DEF Return, Cancel, scanVars
<1> QED BY <1>1, <1>2, <1>3 DEF ScanNext

(* The inductive invariant.                                                *)
THEOREM ScanInvariance == ScanSpec => []ScanInv
<1>1. ScanInit => SlotsHeld /\ Seen /\ Ended
  <2> SUFFICES ASSUME ScanInit PROVE SlotsHeld /\ Seen /\ Ended
    OBVIOUS
  <2>1. Holders = {}
    BY DEF ScanInit, Holders
  <2>2. SlotsHeld
    BY <2>1, FS_EmptySet DEF ScanInit, SlotsHeld
  <2> QED BY <2>2 DEF ScanInit, Seen, Ended
<1>2. ScanTypeOK /\ SlotsHeld /\ Seen /\ Ended /\ [ScanNext]_scanVars => (SlotsHeld /\ Seen /\ Ended)'
  BY ScanKeepsSlots, ScanKeepsSeen, ScanKeepsEnded
<1> QED BY <1>1, <1>2, ScanTyping, PTL DEF ScanSpec, ScanInv

(* Never more than maxConcurrent connections at once.                      *)
THEOREM BoundedDials == ScanSpec => []DialsBounded
<1>1. ScanInv => DialsBounded
  <2> SUFFICES ASSUME ScanInv PROVE DialsBounded
    OBVIOUS
  <2>1. At("dialing") \cup At("reporting") \subseteq Holders
    BY DEF At, Holders
  <2>2. Cardinality(At("dialing") \cup At("reporting")) <= Cardinality(Holders)
    BY <2>1, HoldersFinite, FS_Subset
  <2>3. Cardinality(At("dialing") \cup At("reporting")) \in Nat
    BY <2>1, HoldersFinite, FS_Subset, FS_CardinalityType
  <2> QED BY <2>2, <2>3, HoldersFinite, ScanAssumption
         DEF ScanInv, ScanTypeOK, SlotsHeld, DialsBounded
<1> QED BY <1>1, ScanInvariance, PTL

(* The channel of hits is never closed under a sender.                     *)
THEOREM SafeClose == ScanSpec => []NoSendOnClosed
<1>1. ScanInv => NoSendOnClosed
  BY DEF ScanInv, Ended, NoSendOnClosed, At
<1> QED BY <1>1, ScanInvariance, PTL

(* Scan leaves no goroutine behind, and no slot taken.                     *)
THEOREM CleanReturn == ScanSpec => []NothingLeftBehind
<1>1. ScanInv => NothingLeftBehind
  <2> SUFFICES ASSUME ScanInv, returned PROVE At("done") = Probes /\ sem = 0
    BY DEF NothingLeftBehind
  <2>1. \A p \in Probes : pc[p] = "done"
    BY DEF ScanInv, Ended
  <2>2. Holders = {}
    BY <2>1 DEF Holders
  <2> QED BY <2>1, <2>2, FS_EmptySet DEF ScanInv, SlotsHeld, At
<1> QED BY <1>1, ScanInvariance, PTL

(* A scan that is not cut short returns every port that answered its dial  *)
(* in time, and only those.                                                *)
THEOREM CompleteScan == ScanSpec => []HitsKept
<1>1. ScanInv => HitsKept
  BY DEF ScanInv, ScanTypeOK, Seen, Ended, HitsKept
<1> QED BY <1>1, ScanInvariance, PTL

=============================================================================
