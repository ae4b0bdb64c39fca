----------------------------- MODULE CloudSync -----------------------------
(***************************************************************************)
(* Tills that sell offline and reconcile through a cloud shop.             *)
(*                                                                         *)
(* Every till keeps its own bbolt file: catalogue rows, an append-only log *)
(* of sales and stock events, the shop settings, an outbox of marks for    *)
(* what the cloud has not seen yet, and its link to a shop with a pull     *)
(* cursor (internal/store/boltstore).  One sync cycle of the engine        *)
(* (internal/cloudsync) is a sequence of store transactions and two HTTP   *)
(* calls; the till's handlers write the same store between any two of      *)
(* them.  A bbolt transaction is atomic and durable, so an action is one   *)
(* transaction or one call, and a crash loses the engine's local variables *)
(* and nothing else.                                                       *)
(*                                                                         *)
(* A version of a catalogue row or of a setting is abstracted to the stamp *)
(* and the till that wrote it.  What a handler refuses (a barcode in use,  *)
(* an unknown item, too little paid) changes nothing and is not modelled   *)
(* here: see Catalogue and Till.                                           *)
(***************************************************************************)
EXTENDS Integers, FiniteSets

CONSTANTS
    Devices,      \* the tills
    Shops,        \* the cloud shops a till may be linked to
    Unlinked,     \* the link of a till that has none
    Products,     \* product ids (UUIDs: never reused by another till)
    Sales,        \* sale ids (UUIDs)
    StockEvents,  \* stock event ids (UUIDs)
    Keys,         \* the settings that sync
    Nobody,       \* the writer of a row that does not exist, or of a starter item
    Skew,         \* how far below the next stamp a till's clock may read
    MaxClock,     \* bound: no stamp is later than this
    MaxUpsets     \* bound: how many links, unlinks and crashes may happen

ASSUME ConstantsAssumption ==
    /\ Unlinked \notin Shops
    /\ Nobody \notin Devices
    /\ Sales \cap StockEvents = {}
    /\ Skew \in Nat
    /\ MaxClock \in Nat
    /\ MaxUpsets \in Nat

Entries == Sales \cup StockEvents

(* A version of a row: its UpdatedAt stamp (0: there is no row) and the    *)
(* till that wrote it.                                                     *)
Versions == [at : Nat, by : Devices \cup {Nobody}]
NoVersion == [at |-> 0, by |-> Nobody]
Newer(v, w) == v.at > w.at

Payloads == [at : Nat, map : [Keys -> Versions]]
NoSettings == [at |-> 0, map |-> [k \in Keys |-> NoVersion]]

Phases == {"idle", "products", "sales", "stock", "settings", "push",
           "clear", "reread", "pull", "apply", "cursor", "record"}

VARIABLES
    \* the till's store
    products,   \* [Devices -> [Products -> Versions]]: the catalogue
    entries,    \* [Devices -> SUBSET Entries]: sales and stock events held
    settings,   \* [Devices -> [Keys -> Versions]]
    pending,    \* [Devices -> SUBSET Products]: bucket pending_prods
    outbox,     \* [Devices -> SUBSET Entries]: pending_sales, pending_stockev
    due,        \* [Devices -> Nat]: settings_updated_at, 0 when clean
    link,       \* [Devices -> Shops \cup {Unlinked}]
    cursor,     \* [Devices -> Nat]: the highest sequence pulled
    lastError,  \* [Devices -> BOOLEAN]: last_error is not empty
    \* the local variables of the till's one running cycle
    pc,         \* [Devices -> Phases]: the next transaction or call
    session,    \* [Devices -> the link and cursor SyncState returned]
    batch,      \* [Devices -> what the Pending... transactions returned]
    reply,      \* [Devices -> the PullResult in hand]
    failed,     \* [Devices -> BOOLEAN]: the cycle ends in an error
    \* the cloud, external
    seq,        \* [Shops -> Nat]: the highest sequence of the shop
    rows,       \* [Shops -> [Products -> version and sequence]]
    ledger,     \* [Shops -> [Entries -> sequence, 0 when absent]]
    shopSettings, \* [Shops -> settings, their stamp and sequence]
    \* the environment
    clock,      \* the latest stamp any till has written
    upsets      \* how many links, unlinks and crashes have happened

storeVars == <<products, entries, settings, pending, outbox, due>>
linkVars  == <<link, cursor, lastError>>
cycleVars == <<pc, session, batch, reply, failed>>
cloudVars == <<seq, rows, ledger, shopSettings>>
envVars   == <<clock, upsets>>
vars == <<storeVars, linkVars, cycleVars, cloudVars, envVars>>

NoBatch == [products |-> [p \in Products |-> NoVersion],
            entries  |-> {},
            settings |-> NoSettings]
NoReply == [products |-> [p \in Products |-> NoVersion],
            entries  |-> {},
            settings |-> NoSettings,
            cursor   |-> 0]
NoLink == [link |-> Unlinked, cursor |-> 0]

TypeOK ==
    /\ products \in [Devices -> [Products -> Versions]]
    /\ entries \in [Devices -> SUBSET Entries]
    /\ settings \in [Devices -> [Keys -> Versions]]
    /\ pending \in [Devices -> SUBSET Products]
    /\ outbox \in [Devices -> SUBSET Entries]
    /\ due \in [Devices -> Nat]
    /\ link \in [Devices -> Shops \cup {Unlinked}]
    /\ cursor \in [Devices -> Nat]
    /\ lastError \in [Devices -> BOOLEAN]
    /\ pc \in [Devices -> Phases]
    /\ session \in [Devices -> [link : Shops \cup {Unlinked}, cursor : Nat]]
    /\ batch \in [Devices -> [products : [Products -> Versions],
                              entries : SUBSET Entries,
                              settings : Payloads]]
    /\ reply \in [Devices -> [products : [Products -> Versions],
                              entries : SUBSET Entries,
                              settings : Payloads,
                              cursor : Nat]]
    /\ failed \in [Devices -> BOOLEAN]
    /\ seq \in [Shops -> Nat]
    /\ rows \in [Shops -> [Products -> [ver : Versions, seq : Nat]]]
    /\ ledger \in [Shops -> [Entries -> Nat]]
    /\ shopSettings \in [Shops -> [ver : Payloads, seq : Nat]]
    /\ clock \in Nat
    /\ upsets \in Nat

Init ==
    /\ products = [d \in Devices |-> [p \in Products |-> NoVersion]]
    /\ entries = [d \in Devices |-> {}]
    /\ settings = [d \in Devices |-> [k \in Keys |-> NoVersion]]
    /\ pending = [d \in Devices |-> {}]
    /\ outbox = [d \in Devices |-> {}]
    /\ due = [d \in Devices |-> 0]
    /\ link = [d \in Devices |-> Unlinked]
    /\ cursor = [d \in Devices |-> 0]
    /\ lastError = [d \in Devices |-> FALSE]
    /\ pc = [d \in Devices |-> "idle"]
    /\ session = [d \in Devices |-> NoLink]
    /\ batch = [d \in Devices |-> NoBatch]
    /\ reply = [d \in Devices |-> NoReply]
    /\ failed = [d \in Devices |-> FALSE]
    /\ seq = [s \in Shops |-> 0]
    /\ rows = [s \in Shops |-> [p \in Products |-> [ver |-> NoVersion, seq |-> 0]]]
    /\ ledger = [s \in Shops |-> [x \in Entries |-> 0]]
    /\ shopSettings = [s \in Shops |-> [ver |-> NoSettings, seq |-> 0]]
    /\ clock = 0
    /\ upsets = 0

-----------------------------------------------------------------------------
(* What the till's handlers do to its store, one bbolt transaction each.    *)

(* A reading of a till's clock that a write may be stamped with.  Skew 0    *)
(* makes every stamp later than all earlier ones, 1 allows equal stamps,    *)
(* and more lets a slow clock stamp below what another till has written.    *)
Stamps == {t \in 1..MaxClock : clock < t + Skew /\ t <= clock + 1}

Stamp(t) == clock' = IF t > clock THEN t ELSE clock

(* Ids are random UUIDs: a new one is held by no till.                      *)
Fresh(x) == \A d \in Devices : x \notin entries[d]
FreshProduct(p) == \A d \in Devices : products[d][p].at = 0
FreshEvents == {x \in StockEvents : Fresh(x)}

(* The row, the stock event that an initial count or a corrected count adds *)
(* to it (none when X is empty), and their marks commit together.           *)
PutProduct(d, p, t, X) ==
    /\ products' = [products EXCEPT ![d][p] = [at |-> t, by |-> d]]
    /\ pending' = [pending EXCEPT ![d] = @ \cup {p}]
    /\ entries' = [entries EXCEPT ![d] = @ \cup X]
    /\ outbox' = [outbox EXCEPT ![d] = @ \cup X]
    /\ Stamp(t)
    /\ UNCHANGED <<settings, due, upsets, linkVars, cycleVars, cloudVars>>

AtMostOneEvent == {{}} \cup {{x} : x \in FreshEvents}

(* A start of the agent puts starter items on an empty shelf, before it     *)
(* serves and runs cycles: rows without marks and events, that no owner     *)
(* wrote.  (Which of them, and when, is in Startup.)                        *)
SeedProduct(d, p) ==
    /\ pc[d] = "idle"
    /\ FreshProduct(p)
    /\ \E t \in Stamps :
          /\ products' = [products EXCEPT ![d][p] = [at |-> t, by |-> Nobody]]
          /\ Stamp(t)
    /\ UNCHANGED <<entries, settings, pending, outbox, due, upsets, linkVars,
                   cycleVars, cloudVars>>

AddProduct(d, p) ==
    /\ FreshProduct(p)
    /\ \E t \in Stamps, X \in AtMostOneEvent : PutProduct(d, p, t, X)

UpdateProduct(d, p) ==
    /\ products[d][p].at > 0
    /\ \E t \in Stamps, X \in AtMostOneEvent : PutProduct(d, p, t, X)

DeleteProduct(d, p) ==
    /\ products[d][p].at > 0
    /\ \E t \in Stamps : PutProduct(d, p, t, {})

AppendEntry(d, x) ==
    /\ Fresh(x)
    /\ entries' = [entries EXCEPT ![d] = @ \cup {x}]
    /\ outbox' = [outbox EXCEPT ![d] = @ \cup {x}]
    /\ UNCHANGED <<products, settings, pending, due, linkVars, cycleVars,
                   cloudVars, envVars>>

CreateSale(d, x) == x \in Sales /\ AppendEntry(d, x)
Restock(d, x) == x \in StockEvents /\ AppendEntry(d, x)

SetSetting(d, k) ==
    \E t \in Stamps :
        /\ settings' = [settings EXCEPT ![d][k] = [at |-> t, by |-> d]]
        /\ due' = [due EXCEPT ![d] = t]
        /\ Stamp(t)
        /\ UNCHANGED <<products, entries, pending, outbox, upsets, linkVars,
                       cycleVars, cloudVars>>

Upset == upsets < MaxUpsets /\ upsets' = upsets + 1

(* Link does not touch the cursor and does not ask whether the till already *)
(* has a link; neither it nor Unlink waits for a running cycle.             *)
Link(d, s) ==
    /\ Upset
    /\ link' = [link EXCEPT ![d] = s]
    /\ lastError' = [lastError EXCEPT ![d] = FALSE]
    /\ UNCHANGED <<storeVars, cursor, cycleVars, cloudVars, clock>>

Unlink(d) ==
    /\ link[d] # Unlinked
    /\ Upset
    /\ link' = [link EXCEPT ![d] = Unlinked]
    /\ cursor' = [cursor EXCEPT ![d] = 0]
    /\ lastError' = [lastError EXCEPT ![d] = FALSE]
    /\ UNCHANGED <<storeVars, cycleVars, cloudVars, clock>>

-----------------------------------------------------------------------------
(* One cycle of the engine.                                                 *)

Goto(d, phase) == pc' = [pc EXCEPT ![d] = phase]
At(d, phase) == pc[d] = phase

(* SyncOnce reads the link; an unlinked till has nothing to do.             *)
Begin(d) ==
    /\ At(d, "idle")
    /\ link[d] # Unlinked
    /\ Goto(d, "products")
    /\ session' = [session EXCEPT ![d] = [link |-> link[d], cursor |-> cursor[d]]]
    /\ UNCHANGED <<storeVars, linkVars, batch, reply, failed, cloudVars, envVars>>

PendingProducts(d) ==
    /\ At(d, "products")
    /\ Goto(d, "sales")
    /\ batch' = [batch EXCEPT ![d].products =
                    [p \in Products |-> IF p \in pending[d] THEN products[d][p]
                                                            ELSE NoVersion]]
    /\ UNCHANGED <<storeVars, linkVars, session, reply, failed, cloudVars, envVars>>

PendingEntries(d, kind) ==
    /\ batch' = [batch EXCEPT ![d].entries = @ \cup (outbox[d] \cap kind)]
    /\ UNCHANGED <<storeVars, linkVars, session, reply, failed, cloudVars, envVars>>

PendingSales(d) == At(d, "sales") /\ Goto(d, "stock") /\ PendingEntries(d, Sales)

PendingStockEvents(d) ==
    At(d, "stock") /\ Goto(d, "settings") /\ PendingEntries(d, StockEvents)

(* Variant: only products and settings are looked at.                       *)
EmptyBatchOfRows(b) ==
    (\A p \in Products : b.products[p].at = 0) /\ b.settings.at = 0

EmptyBatch(b) ==
    /\ \A p \in Products : b.products[p].at = 0
    /\ b.entries = {}
    /\ b.settings.at = 0

(* The last of the four reads, and the test for an empty outbox.            *)
PendingSettings(d) ==
    /\ At(d, "settings")
    /\ LET changed == IF due[d] = 0 THEN NoSettings
                                    ELSE [at |-> due[d], map |-> settings[d]]
           b == [batch[d] EXCEPT !.settings = changed]
       IN  /\ batch' = [batch EXCEPT ![d] = b]
           /\ Goto(d, IF EmptyBatch(b) THEN "reread" ELSE "push")
    /\ UNCHANGED <<storeVars, linkVars, session, reply, failed, cloudVars, envVars>>

(* The cloud keeps the later version of a row and of the settings, inserts  *)
(* what is absent from its ledger, and numbers what it took.                *)
Accept(s, b) ==
    LET next == seq[s] + 1
        Later(p) == Newer(b.products[p], rows[s][p].ver)
        New(x) == x \in b.entries /\ ledger[s][x] = 0
        LaterMap == b.settings.at > shopSettings[s].ver.at
        Took == \/ \E p \in Products : Later(p)
                \/ \E x \in Entries : New(x)
                \/ LaterMap
    IN  /\ seq' = [seq EXCEPT ![s] = IF Took THEN next ELSE @]
        /\ rows' = [rows EXCEPT ![s] =
              [p \in Products |->
                  IF Later(p) THEN [ver |-> b.products[p], seq |-> next] ELSE @[p]]]
        /\ ledger' = [ledger EXCEPT ![s] =
              [x \in Entries |-> IF New(x) THEN next ELSE @[x]]]
        /\ shopSettings' = [shopSettings EXCEPT ![s] =
              IF LaterMap THEN [ver |-> b.settings, seq |-> next] ELSE @]

(* Variant: the cursor jumps to the one in the push result.                 *)
PushMovesCursor(d) ==
    /\ At(d, "push")
    /\ Accept(session[d].link, batch[d])
    /\ cursor' = [cursor EXCEPT ![d] = seq'[session[d].link]]
    /\ Goto(d, "clear")
    /\ UNCHANGED <<storeVars, link, lastError, session, batch, reply, failed, envVars>>

Push(d) ==
    /\ At(d, "push")
    /\ Accept(session[d].link, batch[d])
    /\ Goto(d, "clear")
    /\ UNCHANGED <<storeVars, linkVars, session, batch, reply, failed, envVars>>

Fail(d) ==
    /\ Goto(d, "record")
    /\ failed' = [failed EXCEPT ![d] = TRUE]
    /\ UNCHANGED <<storeVars, linkVars, session, batch, reply, envVars>>

(* The request or its answer is lost, or the cloud refuses it.              *)
PushFails(d) ==
    /\ At(d, "push")
    /\ Fail(d)
    /\ UNCHANGED cloudVars

PushAnswerLost(d) ==
    /\ At(d, "push")
    /\ Accept(session[d].link, batch[d])
    /\ Fail(d)

(* Variants of the two halves of ClearPushed: the buckets are emptied, and  *)
(* the settings marker goes without a look at its stamp.                    *)
ClearAllMarks(d) ==
    /\ pending' = [pending EXCEPT ![d] = {}]
    /\ outbox' = [outbox EXCEPT ![d] = {}]

ClearMarkerAnyway(d) ==
    due' = [due EXCEPT ![d] = IF batch[d].settings.at > 0 THEN 0 ELSE @]

(* A mark of a row, a sale or an event goes by its id alone.                *)
ClearMarks(d) ==
    /\ pending' = [pending EXCEPT ![d] = {p \in @ : batch[d].products[p].at = 0}]
    /\ outbox' = [outbox EXCEPT ![d] = @ \ batch[d].entries]

(* The settings marker stays if the settings were stamped again meanwhile.  *)
ClearMarker(d) ==
    due' = [due EXCEPT ![d] =
               IF batch[d].settings.at > 0 /\ ~(@ > batch[d].settings.at)
               THEN 0 ELSE @]

ClearPushed(d) ==
    /\ At(d, "clear")
    /\ ClearMarks(d)
    /\ ClearMarker(d)
    /\ Goto(d, "reread")
    /\ UNCHANGED <<products, entries, settings, linkVars, session, batch, reply,
                   failed, cloudVars, envVars>>

(* The link is read again but not looked at: an unlinked till goes on.      *)
Reread(d) ==
    /\ At(d, "reread")
    /\ session' = [session EXCEPT ![d] = [link |-> link[d], cursor |-> cursor[d]]]
    /\ batch' = [batch EXCEPT ![d] = NoBatch]
    /\ Goto(d, "pull")
    /\ UNCHANGED <<storeVars, linkVars, reply, failed, cloudVars, envVars>>

(* The cloud answers with what it numbered above the cursor.                *)
Answer(s, since) ==
    [products |-> [p \in Products |-> IF rows[s][p].seq > since
                                      THEN rows[s][p].ver ELSE NoVersion],
     entries  |-> {x \in Entries : ledger[s][x] > since},
     settings |-> IF shopSettings[s].seq > since
                  THEN shopSettings[s].ver ELSE NoSettings,
     cursor   |-> seq[s]]

Pull(d) ==
    /\ At(d, "pull")
    /\ session[d].link # Unlinked
    /\ reply' = [reply EXCEPT ![d] = Answer(session[d].link, session[d].cursor)]
    /\ Goto(d, "apply")
    /\ UNCHANGED <<storeVars, linkVars, session, batch, failed, cloudVars, envVars>>

(* Also what happens to the request of an unlinked till: it has no address. *)
PullFails(d) ==
    /\ At(d, "pull")
    /\ Fail(d)
    /\ UNCHANGED cloudVars

(* Variants of the merges: no look at the stamps; an inserted entry is      *)
(* marked; the settings never yield to the till's own change; they always   *)
(* yield to it.                                                             *)
TakePulled(mine, theirs) == IF theirs.at > 0 THEN theirs ELSE mine
InsertAndMark(d, X) ==
    /\ entries' = [entries EXCEPT ![d] = @ \cup X]
    /\ outbox' = [outbox EXCEPT ![d] = @ \cup (X \ entries[d])]
TakeSettings(d, r) == IF r.at = 0 THEN settings[d] ELSE r.map
KeepIfMarked(d, r) == IF r.at = 0 \/ due[d] > 0 THEN settings[d] ELSE r.map

(* applyPulledProduct: the local row stays unless the pulled one is later.  *)
LaterRow(mine, theirs) == IF Newer(theirs, mine) THEN theirs ELSE mine

(* applyPulledSale, applyPulledStockEvent: inserted if absent, never marked.*)
Insert(d, X) ==
    /\ entries' = [entries EXCEPT ![d] = @ \cup X]
    /\ UNCHANGED outbox

(* applyPulledSettings: they win unless the till's marked change is later.  *)
LaterSettings(d, r) ==
    IF r.at = 0 \/ due[d] > r.at THEN settings[d] ELSE r.map

ApplyPulled(d) ==
    /\ At(d, "apply")
    /\ products' = [products EXCEPT ![d] =
                       [p \in Products |-> LaterRow(@[p], reply[d].products[p])]]
    /\ Insert(d, reply[d].entries)
    /\ settings' = [settings EXCEPT ![d] = LaterSettings(d, reply[d].settings)]
    /\ Goto(d, "cursor")
    /\ UNCHANGED <<pending, due, linkVars, session, batch, reply, failed,
                   cloudVars, envVars>>

SetCursor(d) ==
    /\ At(d, "cursor")
    /\ cursor' = [cursor EXCEPT ![d] = reply[d].cursor]
    /\ Goto(d, "record")
    /\ UNCHANGED <<storeVars, link, lastError, session, batch, reply, failed,
                   cloudVars, envVars>>

EndCycle(d) ==
    /\ pc' = [pc EXCEPT ![d] = "idle"]
    /\ session' = [session EXCEPT ![d] = NoLink]
    /\ batch' = [batch EXCEPT ![d] = NoBatch]
    /\ reply' = [reply EXCEPT ![d] = NoReply]
    /\ failed' = [failed EXCEPT ![d] = FALSE]
    /\ UNCHANGED <<storeVars, link, cursor, cloudVars, clock>>

(* SetSyncResult, and the end of SyncOnce.                                  *)
Record(d) ==
    /\ At(d, "record")
    /\ lastError' = [lastError EXCEPT ![d] = failed[d]]
    /\ EndCycle(d)
    /\ UNCHANGED upsets

(* Power is lost during a cycle; the next start opens the same file.        *)
Crash(d) ==
    /\ pc[d] # "idle"
    /\ Upset
    /\ EndCycle(d)
    /\ UNCHANGED lastError

-----------------------------------------------------------------------------
Handlers(d) ==
    \/ \E p \in Products : SeedProduct(d, p)
    \/ \E p \in Products : AddProduct(d, p)
    \/ \E p \in Products : UpdateProduct(d, p)
    \/ \E p \in Products : DeleteProduct(d, p)
    \/ \E x \in Sales : CreateSale(d, x)
    \/ \E x \in StockEvents : Restock(d, x)
    \/ \E k \in Keys : SetSetting(d, k)
    \/ \E s \in Shops : Link(d, s)
    \/ Unlink(d)

Cycle(d) ==
    \/ Begin(d)
    \/ PendingProducts(d)
    \/ PendingSales(d)
    \/ PendingStockEvents(d)
    \/ PendingSettings(d)
    \/ Push(d)
    \/ PushFails(d)
    \/ PushAnswerLost(d)
    \/ ClearPushed(d)
    \/ Reread(d)
    \/ Pull(d)
    \/ PullFails(d)
    \/ ApplyPulled(d)
    \/ SetCursor(d)
    \/ Record(d)

Next == \E d \in Devices : Handlers(d) \/ Cycle(d) \/ Crash(d)

Spec == Init /\ [][Next]_vars

(* The ticker of Run starts a cycle again and again, a cycle in hand goes   *)
(* on (an HTTP call ends at its timeout if not before), and a network that  *)
(* is tried for ever lets a call through for ever.                          *)
Fairness ==
    \A d \in Devices :
        /\ WF_vars(Cycle(d))
        /\ SF_vars(Push(d))
        /\ SF_vars(Pull(d))

FairSpec == Spec /\ Fairness

-----------------------------------------------------------------------------
(* Properties.                                                              *)

Uploaded(x) == \E s \in Shops : ledger[s][x] > 0
UploadedItem(p) == \E s \in Shops : rows[s][p].ver.at > 0

(* A sale or stock event a till holds is marked for upload there or is in   *)
(* the ledger of a shop, whatever fails, crashes or is relinked: the mark   *)
(* is written with the row (CreateSale, appendStockEvent) and only dropped  *)
(* by ClearPushed after the push was answered.                              *)
NothingLost ==
    \A d \in Devices : \A x \in entries[d] : x \in outbox[d] \/ Uploaded(x)

(* The same of the existence of a catalogue row, exactly: an item of which  *)
(* a till holds a version that an owner wrote is marked there or known to a *)
(* shop, and a starter item that nobody has edited is neither, so "linking  *)
(* a device never uploads example items" (addProduct), whoever edits,       *)
(* pushes, fails or relinks.                                                *)
ItemNotLost ==
    \A d \in Devices : \A p \in Products :
        products[d][p].at > 0 =>
            (products[d][p].by \in Devices <=> p \in pending[d] \/ UploadedItem(p))

(* "Applying a pull does not create an echo push": no sale or event is      *)
(* marked for upload on two tills (ApplyPulled never marks what it inserts, *)
(* also when a crash makes a till pull the same rows again).                *)
NoEcho ==
    \A d, e \in Devices : d # e => outbox[d] \cap outbox[e] = {}

(* A linked till has every entry its shop numbered at or below its cursor,  *)
(* and a version of every such row at least as late: a pull that asks for   *)
(* what lies above the cursor misses nothing (push does not move the        *)
(* cursor, and pull applies before it moves it).                            *)
CursorNeverSkips ==
    \A d \in Devices : \A s \in Shops :
        link[d] = s =>
            /\ \A x \in Entries :
                  ledger[s][x] \in 1..cursor[d] => x \in entries[d]
            /\ \A p \in Products :
                  rows[s][p].seq \in 1..cursor[d] =>
                      products[d][p].at >= rows[s][p].ver.at

(* A settings change is still marked with a stamp as late as its own, or    *)
(* the shop holds settings as late: ClearPushed keeps the marker when the   *)
(* settings were changed again while the push was in flight.                *)
SettingsChangeKept ==
    \A d \in Devices : \A k \in Keys :
        \/ settings[d][k].at <= due[d]
        \/ \E s \in Shops : settings[d][k].at <= shopSettings[s].ver.at

(* A marked settings change is still in the settings, or a later one has    *)
(* taken its place: a reply in flight does not overwrite it.                *)
MarkedChangeHeld ==
    \A d \in Devices :
        due[d] > 0 => \E k \in Keys : settings[d][k].at >= due[d]

(* A till that has pulled up to the shop's settings has those settings, or  *)
(* a change of its own that is later and marked: tills with nothing to push *)
(* agree on the shop's settings.                                            *)
SettingsCaughtUp ==
    \A d \in Devices : \A s \in Shops :
        link[d] = s /\ shopSettings[s].seq \in 1..cursor[d] =>
            \/ settings[d] = shopSettings[s].ver.map
            \/ due[d] > shopSettings[s].ver.at

(* No step takes a till's row back to an earlier version: a reply that was  *)
(* in flight while the item was edited does not overwrite the edit.         *)
RowsNeverRegress ==
    [][\A d \in Devices : \A p \in Products :
          products'[d][p].at >= products[d][p].at]_vars

(* markProductPending "records a product id for the next push": a version   *)
(* later than any shop's that an owner wrote is marked on the till that     *)
(* holds it.                                                                *)
EditKept ==
    \A d \in Devices : \A p \in Products :
        \/ p \in pending[d]
        \/ products[d][p].by = Nobody
        \/ \E s \in Shops : products[d][p].at <= rows[s][p].ver.at

(* A sale or stock event of one till reaches every till, if the tills stay  *)
(* linked in the end: the outbox is retried on every tick until answered,   *)
(* and the pull of every till goes over its shop's ledger to the end.       *)
Delivered ==
    <>[](\A d \in Devices : link[d] # Unlinked) =>
        \A x \in Entries :
            (\E d \in Devices : x \in entries[d])
                ~> (\A d \in Devices : x \in entries[d])

=============================================================================
