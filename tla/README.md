# pos-agent in TLA+

A specification of the point-of-sale agent in this repository: its local
store, its background sync with a cloud shop, its sell page and its helpers.
TLC checks small instances; TLAPS proves what matters most for every value of
the constants. `PROJECT.json` lists the runs, the source lines each definition
stands for, the hazards of the code and the theorems.

    tlc -config CloudSync_tills.cfg MCCloudSync.tla     a run
    tlapm CloudSyncProofs.tla                           a proof

## The system

One process runs on the shop's machine (`cmd/pos`). It opens one bbolt file
(`internal/store/boltstore`), serves a page and a JSON API on loopback
(`internal/web`), talks to a thermal printer (`internal/printer`,
`internal/scan`), and, when it is linked to an account, reconciles with a
cloud shop in the background (`internal/cloudsync`). Several machines (tills)
can be linked to one shop; each goes on selling offline.

| part | state | operations | talks to |
|---|---|---|---|
| store | catalogue rows, barcode index, sales, reference index, stock events, settings, activity log | one bbolt transaction each: add, update, delete, restock, create a sale, set a setting, search, analytics | called by the handlers and the engine |
| outbox and sync state | marks of what the cloud has not seen, settings stamp, link, pull cursor, last result | mark with the write, `Pending*`, `ClearPushed`, `ApplyPulled`, `SetCursor`, `Link`, `Unlink` | written in the transaction of the change it marks |
| engine | none between cycles | `SyncOnce`: read the outbox, push, clear, pull, apply, move the cursor, record | store transactions and two HTTP calls |
| controller | mutex, `syncing`, `online`, a channel of capacity 1, a ticker | `Run`, `Nudge`, `coalesce`, `Sync`, `Link`, `Unlink` | nudged by handlers after a commit, called by handlers |
| cloud | per shop: rows, ledger, settings, a sequence | push, pull, login | external |
| sell page (`app.js`) | copies of catalogue and settings, cart, open sheet, last sale | add to cart, pay, complete, print; forms of items, stock and settings | the API, one request at a time or several |
| startup (`cmd/pos`) | the lock of the file, the starter items | open, seed, listen or hand off | the store; killed at any point |
| printer discovery | goroutines, semaphore, channel | `Scan` under a context | TCP |
| search, analytics, exports, receipts | none | read the store and render as answers, CSV, sheets, pages, ESC/POS | the page, files, the printer |

What is hard in it, and what makes each part correct:

* **Outbox and engine.** Handlers write between any two transactions of a
  cycle; a call can fail, or succeed and lose its answer; the process can stop
  anywhere; a till can be unlinked and linked to another shop meanwhile.
  Correct means: nothing recorded is ever neither marked nor uploaded, an
  answer that comes late does no harm, a cursor never passes what the till
  lacks, and everything arrives in the end.
* **Controller.** Nudges are dropped and absorbed; the loop and handlers
  compete for the mutex; a crash falls between a commit and its nudge.
  Correct means: a write on a linked till always has a cycle to come, cycles
  do not overlap, and whoever waits is answered.
* **Barcode index.** It is a second copy of what the rows say, kept up by four
  operations, from requests that overlap or come late, and from pulled rows.
  Correct means: a scan finds the item that carries the code and no other, and
  a removed item gives its code back.
* **Derived stock.** A count is a sum over several tills' events and sales;
  a correction is computed from a count that may be old.
* **Sell page.** What it shows comes from its copies, what is charged from the
  store; requests and answers are separate; the tax is saved key by key.
* **Discovery.** Goroutines that are cancelled at any point must release the
  semaphore, and the channel must not be closed under a sender.
* **Desk.** The sheet that adds and edits items, and the print step of a sale,
  await an answer and go on with variables that other presses, sheets and sales
  have written meanwhile. The agent may be killed under them, and while it
  fills the shelf of a new shop. Correct means: no item is saved over another,
  the page says "printed" only of what was, and waits only for what can come.
* **Receipts and files.** The same amounts are laid out by three programs on
  paper, in the browser and in a file. Correct means that they add up, that an
  amount is never cut, and that no row is lost at the edge of a page.
* **Reports.** They read the ledger through an index, a cut and dates in two
  or three time zones, and each is worked out apart from the others. Correct
  means that they agree with each other and with the ledger.

`PROJECT.json` lists the hazards one by one, at the line where they bite, with
the properties that watch them or a note why none does.

## Modules

| module | models |
|---|---|
| `CloudSync` | stores, outboxes, sync cycles and cloud shops of several tills |
| `Controller` | when a cycle runs: loop, nudges, mutex, handlers, restarts of one till |
| `SyncSoon` | what the controller promises, as an abstract specification; `Controller` implements it |
| `Catalogue` | items and the barcode index, late requests and pulled rows |
| `Stock` | counts derived from events and sales of several tills, and the form that corrects them |
| `Money` | the server's and the page's arithmetic of a bill |
| `Till` | the sell page, the sale transaction and the saving of the tax; uses `Money` |
| `Scan` | the goroutines of printer discovery |
| `Reports` | the search with its reference index, the exports, the activity log, the dashboard |
| `Files` | what an exported table becomes as CSV, sheet and pages; used by `Reports` |
| `Receipt` | the lines of a receipt, fitted to paper, and the size of a logo; used by `Till` |
| `Startup` | opening the file, seeding the shelf, listening, being killed |
| `ItemForm` | the Add/Edit sheet and its saves; extends `Startup` |
| `PrintStep` | the success sheet, the print requests and their retries; extends `Startup` |
| `Desk` | one agent with the page on it: the three above, composed |
| `MC...` | constants, symmetry and small sets for TLC |
| `...Proofs` | theorems about the module of that name; those about `Scan` are in `DeskProofs` |
| `ArithmeticProofs` | what holds of sums over finite sets, printed lines, receipts and logos, whatever the state |

The modules meet at their boundaries rather than in one product. `Controller`
shows that cycles run one at a time and that every write gets one; `CloudSync`
takes that as its program counter per till and shows what cycles do to data;
`Catalogue` and `Stock` take a pull as the arrival of rows in any order, which
is what `CloudSync` provides; `Till` is the writer that `CloudSync` knows as
`CreateSale` and `SetSetting`. `Desk` is a product: the agent's death is one
step of all its parts.

### How state and actions correspond to the code

*CloudSync.* `products`, `entries`, `settings` are the buckets of rows, of
sales with stock events, and of settings; `pending`, `outbox`, `due` are the
marks in the sync bucket; `link`, `cursor`, `lastError` the sync state;
`session`, `batch`, `reply`, `failed` the local variables of `SyncOnce`, with
`pc` for where it is. A bbolt transaction is atomic and durable, so an action
is one transaction or one call. A crash empties the local variables and
nothing else. A version of a row is its stamp and its writer: that is all
last-write-wins looks at, and a starter item, which no owner wrote, has the
writer `Nobody` and no mark (`SeedProduct`). The cloud (`Accept`, `Answer`) is external and
modelled from how `client.go` and `engine.go` use it: it keeps the later of
two rows, numbers what it takes, and answers a pull with all that is numbered
above the cursor.

*Controller.* `trigger` is the channel, `pc` where the loop and each handler
are, `mu` the mutex. `Run` syncs once at startup, then on each tick and token.
`unseen` are the writes in the outboxes that no cycle has read; a handler
commits, once or several times, and then nudges. The saving of settings may
fail after a commit and then does not nudge (`WriteBreaksOff`): that write is
in `unsaid`, is read by any cycle that comes, and is promised none.

*Catalogue.* `rows` and `index` per till, and the rows of a pull in hand,
applied one by one in any order (the whole pull is one transaction in the code;
the order within it is the cloud's). A page sends a request, awaits its answer
and loads the list again; requests overlap, answers get lost, sheets stay open.
So a request may name any item that some page has ever been given (`listed`),
and a removed one among them: neither `UpdateProduct` nor `DeleteProduct` asks
whether the item is active. `late` keeps the barcodes that such a request freed
once more, whoever had them by then.

*Stock.* `delta` is what each sale or event adds; `held` who knows of it;
`form` what an open form shows. `tally` and `informed` are histories.

*Till.* `item`, `shop` and `verdict` are the store (the last one the sales,
by number of the request); `list`, `known`, `cart`, `sheet`, `showing` the
page; `posts` and `saves` what is on the wire. A request, its transaction and
its answer are three steps; a reload leaves requests on their way.

*Receipt.* Operators only. A line is what it is about, the length of its label
and its amount; lengths are in bytes, as in the code. `Sale` is what the store
keeps of a sale, from the bill that `Till` has.

*Desk.* `phase` and `todo` say how far the agent is, `active`, `removed` and
`starter` are the rows. `editId`, `scanAddToCart` and `lastSale` are the
variables of `app.js` with these names, `sheet`, `shown`, `step` and `retry`
what the person sees, `posts` and `jobs` the requests. `saveItem` is three
steps for its two awaits, `printReceipt` two. `Die` ends the requests in the
air and leaves the page as it is. What `fetch` throws is caught nowhere: the
rest of the function does not run. `crossed` and `overlapped` are histories.

*Scan.* One `pc` per probe. A dial connects or fails; it fails where nothing
listens, when the context is done, and also when a printer takes longer to
accept than `dialTimeout` (400 ms), so a slow printer can be missed by a scan
that nobody cut short. `answered` is the history of the dials that connected.
`Release` and `Done` are the two deferred calls in the order in which Go runs
them.

*Reports.* `sales` and `refIdx` are two buckets, `log` a third. A report is
read in one transaction and changes nothing, so reports are operators, and
the steps are a sale, a pull, a logged change and the clock. The cloud's
copies (`Replies`) are external: the same sale, written in a zone of the
cloud's choosing. A table is its rows in order and the length of each cell;
`Files` takes one to the three formats. The sort of the sales is not stable, so
an export of sales made at one instant is any of several tables, and the
properties are about each of them; that of the log is. `TitleY`, the height of a page's title
in points, sets how many lines a page holds. `DayLen` stands for 24 hours, `Window` for 7 days and `Cap`
for 500 sales.

## Runs

| run | bounds | what it shows |
|---|---|---|
| `tills` | 2 tills, 1 shop, 1 item, 2 settings, stamps to 2, 4 upsets | nothing added or changed is lost, skipped or taken back, starter items are not uploaded; tills that caught up agree |
| `live` | 2 tills, 1 sale, 1 stock event, 3 upsets | it is never lost or echoed, and it arrives |
| `lost_edit` | 2 tills, 1 item, stamps to 3 | **violated**: an edit during a push loses its mark |
| `relink` | 2 tills, 2 shops, 2 sales, 4 upsets | **violated**: a cursor outlives its shop |
| `barcodes` | an editing and a pulling till, 3 items, 2 codes, 6 stamps | the index follows the rows; only late requests for removed items lead to a clash |
| `barcode_clash` | 1 till, 3 items, 1 code, 6 stamps | **violated**: two items on sale share a barcode |
| `controller` | loop, 1 syncing and 2 writing handlers, 1 crash | no write whose handler nudges is forgotten; refinement of `SyncSoon` |
| `stock` | 2 tills, 1 sale, 3 events, counts 0 and 2 | counts add up |
| `till` | 1 item, 2 rows of it, up to 2 pieces, 3 taxes, 2 sales, 1 save, 1 edit | a page that is up to date charges what it shows; only recorded sales are congratulated on; no tax that nobody chose, if choices share the mode or the rate; receipts add up |
| `reports` | 2 own sales and 1 of another till, 2 kinds, 2 log lines, days of 2 ticks, zone 1 | index, hint, files in every format and dashboard agree with the ledger |
| `desk` | 4 items, 2 of them starters, 2 saves, 2 sales, 3 receipts, 5 inputs, 1 kill | the shelf is seeded once; no save crosses over; "printed" is true; waiting ends |
| `scan` | 4 probes, 2 slots | bound, safe close, clean return, no hit lost |

Why the bounds are enough to be interesting. Two tills are one that writes and
one that hears of it; everything in `CloudSync` is per pair of a till and a
shop. An item and the settings share `tills`, since their marks are cleared and their
rows pulled by the same steps; sales and stock events share `live`.
`MaxUpsets` bounds links, unlinks and crashes together: a till needs one
to be linked, one to crash or to be unlinked in the middle of a cycle, and one
to come back. Stamps to 2 let the second till edit what the first added; the
stamps count the edits there can be. `relink` needs two shops and a till that
has seen the first one, hence four upsets. Three items and two barcodes let a
barcode pass from one item to another while a third asks for it. The
`controller` run has no tick in its fairness, so it is the nudge that is shown
to be enough. Four probes for two slots leave two that are still waiting when
the context ends, which a release that was never preceded by an acquire needs
to do harm. In `till` a tenth of 5 is half a cent, so that the tax of a line
and that of its pieces differ; that bills of several lines agree too is
`PageMirrorsServer`. One save crosses with the tax the shop starts from, which
is any. `TaxableSpec` starts with items that are taxable, as items are unless
the owner says otherwise; an edit in the run may change it. In `reports` the clock passes three days, so that a sale can be older
than the window, and the cap of one is passed by two sales. `TitleY = 110` makes pages of two
lines, so that three sales break over a page; the code's 752 makes pages of 55.
In `desk` two saves and three receipts are one that is late, one that overtakes
it and, for receipts, a retry; five inputs open a sheet, save, put it away,
open another and save, and a kill may fall anywhere among them. Two starters
are the least that can be half done. Every bound is a named constant and sits in a guard.

`CHECK_DEADLOCK FALSE` is set where a bounded run really ends: the stamps or
the requests are used up, the inputs are, or `Scan` has returned. The
controller never stops, and there deadlock is checked.

Every property has a mutant in `PROJECT.json`: a definition changed the way a
slip in that code would change it, kept beside the real one as a *Variant* or
*Mutant*, under which TLC finds the property violated.

### Fairness

* `CloudSync`: weak fairness of each till's cycle (the ticker of `Run` starts
  one again and again, and its calls end by timeout), and strong fairness of
  push and pull getting through. The last is an assumption about the network,
  not about the code: one that is tried for ever lets a call through for ever.
  `Delivered` moreover is about tills that stay linked in the end.
* `Controller`: weak fairness of goroutines that can go on, of the timer in
  `coalesce`, and of the cycle (timeouts); strong fairness of taking the
  mutex, since Go hands a `sync.Mutex` to a goroutine that has waited long
  enough. Ticks are *not* assumed.
* `Scan`: weak fairness of each goroutine. Strong fairness of the semaphore
  is not needed, as each goroutine takes a slot once.
* `Desk`, `Till` and the rest state none: nothing obliges a person to press a
  button, and their properties are about what a step may do.

## Where the code differs from what it says

Three runs end in a counterexample, each against a sentence of the code:

1. `lost_edit`: `ClearPushed` clears a product's mark by id. An edit that
   commits after the engine read the row and before the marks are cleared is
   not pushed, although its mark was to be "for the next push". The settings
   marker has the check that would help here.
2. `relink`: `Link` says it "resets the cursor for a full first sync" and does
   not. `Unlink` does, but a pull in flight writes the old cursor back, and a
   login for another account does not go through `Unlink` at all.
3. `barcode_clash`: a barcode "must not already be in use, so a scan maps to
   exactly one product". Removing or editing an item that was removed already
   frees its barcode although another item may have it by now, and a third one
   can then be added with it. One page is enough: an answer was lost, or two
   requests overlap. `barcodes` shows that there is no other way to a clash.

Short of a run of its own: `parseSearchTime` reads a plain date as midnight in
UTC, where its comment speaks of the start of the day and of the whole day
(`web/search.go:13-16`), and an export prints dates in local time. In a shop
three hours east of UTC a file for one day lacks the sales made before three
in the morning and holds those of the next. `DatesOffByZone` shows that this
is all that goes wrong. The tests run in UTC, where it does not show.

And these, which no property of a run is about:

* `main.go:91-97` hands a second launch over to the running instance. The
  second agent on the same file waits two seconds for the lock of the first
  (`main.go:58`, `boltstore.go:53`) and ends there; only an agent with another
  data file gets as far as the port.
* `SeedIfEmpty` fills the shelf "the first time the shop runs". It looks for an
  item on sale, not for a first time: an owner who removed everything has the
  examples back at the next start, and one kill among the transactions of the
  first start leaves a part of the list for good.
* `saveItem` resets `editId` and `scanAddToCart` after its second await. A sheet
  opened in between loses what it was opened for, and saves an edit as a new
  item (`AsOpened` has the exception, `crossed`). Two presses of Save add an
  item twice.
* `printReceipt` writes its result on whatever sheet is open. If two sales are
  completed while the first receipt is on its way, "Receipt printed." may be
  about the other one (`OkIsPrinted`, `overlapped`).
* `retryPrint` disables its button around an await that may throw. If the agent
  dies then, the button stays disabled until the page is loaded again
  (`StepEnds` allows it after a lost answer, and only then).
* `leftRight` and `cellFit` count bytes, not characters: names in other scripts
  are cut early, and may be cut inside a character.
* `UpdateProduct` writes the index also for an item that was removed. The entry
  then leads to an item that is not on sale, and keeps its barcode from a new
  one (`RemovalFreesCode` says that nothing else does).
* A printer that takes longer than 400 ms to accept is not found, in a scan
  that nobody cut short (`scan.go:30`). `HitsKept` is about the ports that
  answered in time.
* The two settings of a tax are saved one after the other. A sale between them,
  or a save that breaks off, charges the mode of one choice at the rate of
  another: no harm if the two taxes share one of them, as "none" and any other
  do (`Related`), and otherwise a tax that nobody chose.
* A save of settings that breaks off after its first key leaves that key without
  a nudge (`server.go:460`); it waits for the next tick.
* The answer to one sale clears the cart of the moment, which may be the next
  customer's, and a sale whose answer was lost may be recorded twice: there is
  no key that makes the two one. `CompleteIsSaved` says only that what is
  congratulated on is recorded.

## Proofs

Every invariant and every action property that a run checks is proved as well,
for every value of the constants. What is left to TLC is at the end of this
section.

`CloudSyncProofs`. *Typed* is the type invariant. *NothingIsEverLost* and
*NoItemIsEverLost* rest on `Durable`: what a till holds (of items: what an owner
wrote) is marked or uploaded, what is about to be cleared is uploaded, and so is
what is about to be applied. Neither property is inductive alone: `ClearPushed` drops marks of the
batch, and only the middle conjunct says that these have been taken by a shop.
That the cloud loses nothing (`StepKeeps`) is from the external model. Holds
for any number of tills, shops and rows, through crashes, lost answers and
relinks. That starter items stay at home, the other half of *NoItemIsEverLost*,
is `OwnedInv`: an item that is marked, on its way, in a shop or held by two
tills is one of which every till has a version that an owner wrote. It has to
say so of all tills at once, since what one pushes another pulls and edits.
*NothingIsEchoed* rests on entries having one origin: a mark is only
set by the till that made the entry. *MarkedIsHeld* rests on `HeldInv`:
settings under way carry the change they are stamped with, on a till, in a
batch, in a reply and in a shop alike. *ChangeIsKept* rests on `KeptInv`: a
value in settings under way is as old as their stamp, or a shop has settings as
late. *NoRowRegresses* rests on `TimeInv`: no row anywhere is stamped later than
the latest stamp given. The last two assume `Skew \in {0, 1}`: a stamp may
repeat the latest one, of another till, but not fall below it. A till whose
clock is behind the others stamps its change below what it replaces, which no
order of pushes and pulls makes up for.

*NothingIsSkipped* and *SettingsCatchUp* are about tills that have one shop to
be linked to, again and again if they like. With two the first is false, which
is the run `relink`. `CursorInv` says of the cursor on disk, of the copy that a
cycle has taken along and of the one in a reply that the till has, or is about
to be given, what the shop numbered up to there: the cursor moves in a
transaction of its own, after the rows, and an unlink or a crash may come
between. `SettledInv` says the same of the settings, with the exception of a
change that is marked and later than the shop's; that a late reply cannot undo
one needs stamps that only rise (`Skew = 0`), as in the run.

`ControllerProofs`. *OneCycleAtATime*, *NothingIsForgotten* (a write that no
cycle has read, and whose handler nudges, has a nudge, a token or a cycle to
come), *FlagIsLatest*
(the flag is stored before the mutex is let go), and *ImplementsSafe*: every
step maps to a step of `SyncSoon` or a stutter.

`CatalogueProofs`. *EntriesCarryTheirCodes*: an entry of the index leads to an
item with that barcode; *RemovalsFreeCodes*: an entry that leads to a removed
item was written by an edit that came after the removal (`RemovedBefore`: the clock
has passed every removal, so such an edit leaves another stamp). Both
hold for any number of tills that edit and pull, with requests as late as they
like, row by row of any pull. The other two hold while one till edits and any
number of tills pull, from each other as well. *ScansFindItems* rests on
`WriterInv`: the editing till has the latest version of every row, and its index
has every item on sale whose code no late request has freed. *CodesAreUnique*
needs more, as a till that pulls row by row may have two items with one barcode
half-way: `SnapshotInv` says that between two transactions every till has the
catalogue as it once was on the till that edits, that of two such catalogues
one is the past of the other, and that merging them gives the later one. So a
clash on any till is one that the editing till had, and a late request was
before it.

`ArithmeticProofs`. The lemmas about sums are what `StockProofs`, `TillProofs`
and `ReportsProofs` stand on. The sum of a function over a finite set is a
recursive function; that there is one, that it may be taken apart at any
element, and that it may be sorted by any key first and added up by parts, are
inductions over sets. They are proved without an induction rule: a set of
counterexamples, were there any, would have a smallest member (`Least`,
`Smallest`). *LineFits* and *AmountNeverCut* are the two cases of a line;
*ReceiptBalances* holds for every sale whose own amounts are sound; *LogoOnPaper*
is division.

`StockProofs`. *TillsReconcile* rests on `StockInv`: as long as every typed count
came from a till that had heard of everything, all that was ever made comes to
the tally, whoever holds it. *TypedCountTakes*: the correction that a form
stores is what the count lacks when it is saved, so the sum after it is what
was typed.

`TillProofs`. *PageMirrorsServer*: the two computations of a bill agree for
every cart and tax, because they agree line by line. *HalfUpIsNearest* and
*InclusiveWithinPrice* are about the rounding. *SavedBeforeShown* rests on
`TakenOnce`: a sale that is recorded is not on its way to the store, so its
record is not replaced. *FairCharge* rests on `TaxInv`: each of the two settings
comes from some choice of the owner, not necessarily the same one; if choices
share the mode or the rate (`Related`), the mixture is one of them, or it is
untaxed. Without that the theorem says nothing, and the code can charge a
mixture that nobody chose. *ChargedAsShown* and
*ReceiptsAddUp* rest on `PaidInv`: a sale under way pays no less than its page
showed, which is what the server asks of it when the page's copies are those of
the store, and what makes the change on its receipt no less than nothing.

`ReportsProofs`. *PageIsFull*, *PagesPartition* and *MoneyKeepsItsWidth* are
about `Files`, for every table and every page. *IndexExact* rests on `Keyed`:
the index holds the keys of the ledger and no others, which both ways into the
ledger keep. *HonestHint* follows from it and from the cut. *OffByZoneOnly* is
arithmetic on days: a sale whose hour is not before `Offset` lies between the
same two midnights in UTC as its printed date says. *FilesMakeTheWhole* counts,
for each line of the log, those before it: lines of an earlier file come before
those of a later one and keep their order among themselves. *DashboardIsRight*
adds up the sales by day and by hour; it needs that the till's own sales carry
its own zone (`OwnZone`). *FormatsAgree* is the longest. That narrowing the
columns ends, and that it ends with a line that fits, is `LoopExists` and
`LoopKeeps`: a loop whose steps shorten the line stops, in whatever its steps do
not leave. Money never gives way, so the argument needs to know that an amount
has at most 21 characters (`LongestAmount`, what the largest `int64` prints as):
three amounts and five columns of text at their narrowest are 100 characters,
of 110. Put together, the pages are the lines again, and an object's number in
the file is its place, so what a reader follows is what was written.

`DeskProofs`. One invariant per part, kept by every step of the others because
they leave its variables alone. `ShelfInv`: while the shelf is seeded, the
starters on it are those before `todo`, since a start that seeds found it empty
(*StartersOnce*). `FormInv`: an open sheet never has another item's id than that
of the item its fields came from, and no wish of a scan that did not open it,
even after another save has reset it; a request keeps what the sheet had
(*NoItemOverwritten*, *SheetKeepsPurpose*). `PrintInv`: what the printer took is
printed, and, unless receipts overlapped, every result that is still to be
written on the sheet is about `lastSale` (*ReceiptIsPrinted*, *WaitsForAnswer*).
Of `Scan`, `ScanInv` counts who holds a slot: the tokens in the semaphore are the
goroutines between `Acquire` and `Release`. *BoundedDials* and *CleanReturn* follow
from it; *SafeClose* and *CompleteScan* from what a goroutine's place says of its
port. *CompleteScan* is about the hits, not about what listens: whether a dial
connects in time is left open.

Assumptions are the named ones of each module (disjoint kinds of ids, finite
sets, a rate of 0 saved with "none", which is what the page sends), which TLC
evaluates in the runs. The type invariants are proved (*Typed*, *Typing*,
*ScanTyping*), so the runs do not repeat them; that of `Till` leaves out the
amounts of a sale, of which `PaidInv` says what is needed.

Only model-checked: liveness (`Delivered`, `Answered`, `Returns`, the `Soon` half of
`SyncSoon`), which is out of the prover's reach.

## Not modelled

* Of a file: escapes and the guard against formulas (`csvSafe`, `pdfString`),
  column letters, fonts, the zip container, and the table of the activity log,
  which goes the same way as that of sales. Of a receipt: the order of its lines
  in the three themes, header and footer, escape codes, the preview. Counts of
  items and the ranking of products on the dashboard; daylight saving.
* Of the desk: the cart that a scanned item goes to, a reload of the page (it
  only empties what is modelled), and the restock sheet, which reads what it
  sends when Save is pressed and nothing after its await. `Till` has a reload.
* Hosted mode and accounts: the service is not in this repository.
* Machine widths: `int64` cents do not overflow at the amounts a shop has;
  the page computes in doubles, exact to 2^53.
* Clocks that differ: `Skew` is a constant of `CloudSync`, 0 in the runs and up
  to 1 in the theorems. With clocks that differ last-write-wins may drop the
  later change by design, and of two changes in one tick it keeps either.
* `localHosts`, the order of devices, the number pad, the fake printer (a
  development aid).

## Plan

Done: every module above with its runs, and proofs of every safety property.
Next, if the code asks for it:

1. The restock sheet and a reload in `Desk`, if its run can afford them.
2. `Controller` and `CloudSync` in one module, with the cycle of the one as the
   session of the other, instead of meeting at the boundary.
3. The table of the activity log through `Files`: four columns of text, which
   the proof of *FormatsAgree* would take as it is.
