-------------------------- MODULE CloudSyncProofs --------------------------
(***************************************************************************)
(* Theorems about CloudSync for any number of tills, shops, items, sales,  *)
(* events and settings, and any number of crashes and relinks.  Where a    *)
(* theorem assumes that clocks agree, or that there is one shop to be      *)
(* linked to, it says so.                                                  *)
(***************************************************************************)
EXTENDS CloudSync, TLAPS

-----------------------------------------------------------------------------
(* Types.                                                                   *)

Batches == [products : [Products -> Versions],
            entries : SUBSET Entries,
            settings : Payloads]
Replies == [products : [Products -> Versions],
            entries : SUBSET Entries,
            settings : Payloads,
            cursor : Nat]

(* NoVersion, NoBatch and NoReply are values of their types.                *)
LEMMA EmptyValues ==
    /\ NoVersion \in Versions
    /\ NoSettings \in Payloads
    /\ NoBatch \in Batches
    /\ NoReply \in Replies
    /\ NoLink \in [link : Shops \cup {Unlinked}, cursor : Nat]
<1>1. NoVersion \in Versions
  BY DEF NoVersion, Versions
<1>2. NoSettings \in Payloads
  BY <1>1 DEF NoSettings, Payloads
<1>3. NoBatch \in Batches
  BY <1>1, <1>2 DEF NoBatch, Batches
<1>4. NoReply \in Replies
  BY <1>1, <1>2 DEF NoReply, Replies
<1>5. NoLink \in [link : Shops \cup {Unlinked}, cursor : Nat]
  BY DEF NoLink
<1> QED
  BY <1>1, <1>2, <1>3, <1>4, <1>5

(* Each field of a batch may be replaced by a value of its type.            *)
LEMMA BatchFields ==
    ASSUME NEW b \in Batches
    PROVE  /\ \A f \in [Products -> Versions] : [b EXCEPT !.products = f] \in Batches
           /\ \A X \in SUBSET Entries : [b EXCEPT !.entries = X] \in Batches
           /\ \A m \in Payloads : [b EXCEPT !.settings = m] \in Batches
BY DEF Batches

(* The initial state is well typed.                                         *)
LEMMA InitTyped == Init => TypeOK
<1> SUFFICES ASSUME Init PROVE TypeOK
  OBVIOUS
<1>1. rows \in [Shops -> [Products -> [ver : Versions, seq : Nat]]]
  BY EmptyValues DEF Init
<1>2. shopSettings \in [Shops -> [ver : Payloads, seq : Nat]]
  BY EmptyValues DEF Init
<1>3. batch \in [Devices -> Batches] /\ reply \in [Devices -> Replies]
  BY EmptyValues DEF Init
<1> QED
  BY <1>1, <1>2, <1>3, EmptyValues DEF Init, TypeOK, Phases, Batches, Replies

(* What the cloud accepts leaves its state well typed.                      *)
LEMMA AcceptTyped ==
    ASSUME TypeOK, NEW s \in Shops, NEW b \in Batches, Accept(s, b)
    PROVE  /\ seq' \in [Shops -> Nat]
           /\ rows' \in [Shops -> [Products -> [ver : Versions, seq : Nat]]]
           /\ ledger' \in [Shops -> [Entries -> Nat]]
           /\ shopSettings' \in [Shops -> [ver : Payloads, seq : Nat]]
<1>1. seq[s] + 1 \in Nat
  BY DEF TypeOK
<1>2. seq' \in [Shops -> Nat]
  BY <1>1 DEF TypeOK, Accept
<1>3. rows' \in [Shops -> [Products -> [ver : Versions, seq : Nat]]]
  BY <1>1 DEF TypeOK, Accept, Batches
<1>4. ledger' \in [Shops -> [Entries -> Nat]]
  BY <1>1 DEF TypeOK, Accept
<1>5. shopSettings' \in [Shops -> [ver : Payloads, seq : Nat]]
  BY <1>1 DEF TypeOK, Accept, Batches
<1> QED
  BY <1>2, <1>3, <1>4, <1>5

(* Every step keeps the types.                                              *)
LEMMA StepTyped == TypeOK /\ [Next]_vars => TypeOK'
<1> SUFFICES ASSUME TypeOK, [Next]_vars PROVE TypeOK'
  OBVIOUS
<1>0. CASE UNCHANGED vars
  BY <1>0 DEF TypeOK, vars, storeVars, linkVars, cycleVars, cloudVars, envVars
<1> SUFFICES ASSUME NEW d \in Devices, Handlers(d) \/ Cycle(d) \/ Crash(d)
             PROVE  TypeOK'
  BY <1>0 DEF Next
<1> USE DEF storeVars, linkVars, cycleVars, cloudVars, envVars
<1>1. ASSUME NEW p \in Products, NEW t \in Stamps, NEW X \in SUBSET Entries,
             PutProduct(d, p, t, X)
      PROVE  TypeOK'
  <2>1. [at |-> t, by |-> d] \in Versions
    BY DEF Stamps, Versions
  <2> QED
    BY <1>1, <2>1 DEF TypeOK, PutProduct, Stamp, Stamps
<1>2. \A X \in AtMostOneEvent : X \in SUBSET Entries
  BY DEF AtMostOneEvent, FreshEvents, Entries
<1>3. ASSUME NEW p \in Products, AddProduct(d, p) \/ UpdateProduct(d, p)
      PROVE  TypeOK'
  BY <1>1, <1>2, <1>3 DEF AddProduct, UpdateProduct
<1>4. ASSUME NEW p \in Products, DeleteProduct(d, p) \/ SeedProduct(d, p)
      PROVE  TypeOK'
  <2>1. ASSUME NEW t \in Stamps PROVE [at |-> t, by |-> Nobody] \in Versions
    BY DEF Stamps, Versions
  <2>2. CASE SeedProduct(d, p)
    BY <2>1, <2>2 DEF TypeOK, SeedProduct, Stamp, Stamps
  <2> QED
    BY <1>1, <1>4, <2>2 DEF DeleteProduct
<1>5. ASSUME NEW x \in Entries, AppendEntry(d, x) PROVE TypeOK'
  BY <1>5 DEF TypeOK, AppendEntry
<1>6. ASSUME NEW k \in Keys, SetSetting(d, k) PROVE TypeOK'
  <2> PICK t \in Stamps : /\ settings' = [settings EXCEPT ![d][k] = [at |-> t, by |-> d]]
                          /\ due' = [due EXCEPT ![d] = t]
                          /\ Stamp(t)
    BY <1>6 DEF SetSetting
  <2>1. [at |-> t, by |-> d] \in Versions
    BY DEF Stamps, Versions
  <2> QED
    BY <1>6, <2>1 DEF TypeOK, SetSetting, Stamp, Stamps
<1>7. ASSUME NEW s \in Shops, Link(d, s) PROVE TypeOK'
  BY <1>7 DEF TypeOK, Link, Upset
<1>8. CASE Unlink(d)
  BY <1>8 DEF TypeOK, Unlink, Upset
<1>9. CASE Handlers(d)
  BY <1>3, <1>4, <1>5, <1>6, <1>7, <1>8, <1>9
     DEF Handlers, CreateSale, Restock, Entries
<1>10. CASE Begin(d)
  BY <1>10 DEF TypeOK, Begin, Goto, Phases
<1>11. CASE PendingProducts(d)
  <2> DEFINE read == [p \in Products |-> IF p \in pending[d] THEN products[d][p]
                                                             ELSE NoVersion]
  <2>1. read \in [Products -> Versions]
    BY EmptyValues DEF TypeOK
  <2>2. batch' = [batch EXCEPT ![d] = [batch[d] EXCEPT !.products = read]]
    BY <1>11 DEF PendingProducts, TypeOK
  <2>3. [batch[d] EXCEPT !.products = read] \in Batches
    <3>1. batch[d] \in Batches
      BY DEF TypeOK, Batches
    <3> QED
      BY <2>1, <3>1, BatchFields
  <2> HIDE DEF read
  <2>4. batch \in [Devices -> Batches]
    BY DEF TypeOK, Batches
  <2>5. batch' \in [Devices -> Batches]
    BY <2>2, <2>3, <2>4
  <2>6. pc' \in [Devices -> Phases]
    BY <1>11 DEF PendingProducts, Goto, Phases, TypeOK
  <2> QED
    BY <1>11, <2>5, <2>6 DEF TypeOK, PendingProducts, Batches
<1>12. CASE PendingSales(d) \/ PendingStockEvents(d)
  <2>1. PICK kind : /\ batch' = [batch EXCEPT ![d].entries =
                                    @ \cup (outbox[d] \cap kind)]
                    /\ UNCHANGED <<storeVars, linkVars, session, reply, failed,
                                   cloudVars, envVars>>
    BY <1>12 DEF PendingSales, PendingStockEvents, PendingEntries
  <2> DEFINE read == batch[d].entries \cup (outbox[d] \cap kind)
  <2>2. batch' = [batch EXCEPT ![d] = [batch[d] EXCEPT !.entries = read]]
    BY <2>1 DEF TypeOK
  <2>3. [batch[d] EXCEPT !.entries = read] \in Batches
    <3>1. batch[d] \in Batches /\ read \in SUBSET Entries
      BY DEF TypeOK, Batches
    <3> QED
      BY <3>1, BatchFields
  <2>4. pc' \in [Devices -> Phases]
    BY <1>12 DEF PendingSales, PendingStockEvents, Goto, Phases, TypeOK
  <2> HIDE DEF read
  <2>5. batch \in [Devices -> Batches]
    BY DEF TypeOK, Batches
  <2>6. batch' \in [Devices -> Batches]
    BY <2>2, <2>3, <2>5
  <2> QED
    BY <2>1, <2>4, <2>6 DEF TypeOK, Batches
<1>13. CASE PendingSettings(d)
  <2> DEFINE changed == IF due[d] = 0 THEN NoSettings
                                      ELSE [at |-> due[d], map |-> settings[d]]
             b == [batch[d] EXCEPT !.settings = changed]
  <2>1. changed \in Payloads
    BY EmptyValues DEF TypeOK, Payloads
  <2>2. b \in Batches
    <3>1. batch[d] \in Batches
      BY DEF TypeOK, Batches
    <3> QED
      BY <2>1, <3>1, BatchFields
  <2>3. batch' = [batch EXCEPT ![d] = b]
    BY <1>13 DEF PendingSettings
  <2>4. pc' \in [Devices -> Phases]
    BY <1>13 DEF PendingSettings, Goto, Phases, TypeOK
  <2>5. UNCHANGED <<storeVars, linkVars, session, reply, failed, cloudVars, envVars>>
    BY <1>13 DEF PendingSettings
  <2> HIDE DEF b
  <2>6. batch \in [Devices -> Batches]
    BY DEF TypeOK, Batches
  <2>7. batch' \in [Devices -> Batches]
    BY <2>2, <2>3, <2>6
  <2> QED
    BY <2>4, <2>5, <2>7 DEF TypeOK, Batches
<1>14. ASSUME Accept(session[d].link, batch[d])
       PROVE  /\ seq' \in [Shops -> Nat]
              /\ rows' \in [Shops -> [Products -> [ver : Versions, seq : Nat]]]
              /\ ledger' \in [Shops -> [Entries -> Nat]]
              /\ shopSettings' \in [Shops -> [ver : Payloads, seq : Nat]]
  <2>1. batch[d] \in Batches
    BY DEF TypeOK, Batches
  <2>2. CASE session[d].link \in Shops
    BY <1>14, <2>1, <2>2, AcceptTyped
  <2>3. CASE session[d].link \notin Shops
    BY <1>14, <2>3 DEF Accept, TypeOK
  <2> QED
    BY <2>2, <2>3
<1>15. CASE Push(d)
  BY <1>14, <1>15 DEF TypeOK, Push, Goto, Phases
<1>16. CASE PushFails(d) \/ PushAnswerLost(d) \/ PullFails(d)
  <2>1. /\ pc' \in [Devices -> Phases]
        /\ failed' \in [Devices -> BOOLEAN]
        /\ UNCHANGED <<storeVars, linkVars, session, batch, reply, envVars>>
    BY <1>16 DEF TypeOK, PushFails, PushAnswerLost, PullFails, Fail, Goto, Phases
  <2>2. /\ seq' \in [Shops -> Nat]
        /\ rows' \in [Shops -> [Products -> [ver : Versions, seq : Nat]]]
        /\ ledger' \in [Shops -> [Entries -> Nat]]
        /\ shopSettings' \in [Shops -> [ver : Payloads, seq : Nat]]
    BY <1>14, <1>16 DEF TypeOK, PushFails, PushAnswerLost, PullFails
  <2> QED
    BY <2>1, <2>2 DEF TypeOK
<1>17. CASE ClearPushed(d)
  BY <1>17 DEF TypeOK, ClearPushed, ClearMarks, ClearMarker, Goto, Phases
<1>18. CASE Reread(d)
  BY <1>18, EmptyValues DEF TypeOK, Reread, Goto, Phases, Batches
<1>19. CASE Pull(d)
  <2>1. session[d].link \in Shops
    BY <1>19 DEF Pull, TypeOK
  <2>2. Answer(session[d].link, session[d].cursor) \in Replies
    BY <2>1, EmptyValues DEF TypeOK, Answer, Replies
  <2> QED
    BY <1>19, <2>2 DEF TypeOK, Pull, Goto, Phases, Replies
<1>20. CASE ApplyPulled(d)
  <2>1. products' \in [Devices -> [Products -> Versions]]
    BY <1>20 DEF TypeOK, ApplyPulled, LaterRow
  <2>2. entries' \in [Devices -> SUBSET Entries] /\ UNCHANGED outbox
    BY <1>20 DEF TypeOK, ApplyPulled, Insert
  <2>3. settings' \in [Devices -> [Keys -> Versions]]
    BY <1>20 DEF TypeOK, ApplyPulled, LaterSettings, Payloads
  <2> QED
    BY <1>20, <2>1, <2>2, <2>3 DEF TypeOK, ApplyPulled, Goto, Phases
<1>21. CASE SetCursor(d)
  BY <1>21 DEF TypeOK, SetCursor, Goto, Phases
<1>22. CASE EndCycle(d) /\ lastError' \in [Devices -> BOOLEAN] /\ upsets' \in Nat
  BY <1>22, EmptyValues DEF TypeOK, EndCycle, Phases, Batches, Replies
<1>23. CASE Record(d)
  BY <1>22, <1>23 DEF TypeOK, Record
<1>24. CASE Crash(d)
  BY <1>22, <1>24 DEF TypeOK, Crash, Upset
<1> QED
  BY <1>9, <1>10, <1>11, <1>12, <1>13, <1>15, <1>16, <1>17, <1>18, <1>19,
     <1>20, <1>21, <1>23, <1>24 DEF Cycle

(* In every reachable state the tills' stores, their cycles and the cloud   *)
(* hold values of their types.                                              *)
THEOREM Typed == Spec => []TypeOK
<1> QED
  BY InitTyped, StepTyped, PTL DEF Spec

-----------------------------------------------------------------------------
(* Nothing is lost.  What a till holds unmarked is in the cloud, because a  *)
(* mark is dropped only for what an answered push carried, and what comes   *)
(* without a mark came from a shop; the invariant says so of the batch that *)
(* is about to be cleared and of the reply in hand.                         *)

Outward == {"products", "sales", "stock", "settings", "push"}

InSession ==
    \A d \in Devices : pc[d] \in Outward => session[d].link \in Shops

PushedIsUploaded ==
    \A d \in Devices :
        pc[d] = "clear" =>
            /\ \A x \in batch[d].entries : Uploaded(x)
            /\ \A p \in Products : batch[d].products[p].at > 0 => UploadedItem(p)

ReplyIsUploaded ==
    \A d \in Devices :
        /\ \A x \in reply[d].entries : Uploaded(x)
        /\ \A p \in Products : reply[d].products[p].at > 0 => UploadedItem(p)

(* One half of ItemNotLost; the other is about starter items, see below.    *)
ItemKept ==
    \A d \in Devices : \A p \in Products :
        products[d][p].at > 0 /\ products[d][p].by # Nobody =>
            p \in pending[d] \/ UploadedItem(p)

Durable ==
    /\ TypeOK
    /\ InSession
    /\ PushedIsUploaded
    /\ ReplyIsUploaded
    /\ NothingLost
    /\ ItemKept

(* The cloud forgets nothing, and has all of a batch once it accepted it.   *)
LEMMA AcceptKeeps ==
    ASSUME TypeOK, NEW s \in Shops, NEW b \in Batches, Accept(s, b)
    PROVE  /\ \A x \in Entries : Uploaded(x) => Uploaded(x)'
           /\ \A p \in Products : UploadedItem(p) => UploadedItem(p)'
           /\ \A x \in b.entries : Uploaded(x)'
           /\ \A p \in Products : b.products[p].at > 0 => UploadedItem(p)'
<1>1. seq[s] + 1 \in Nat /\ seq[s] + 1 > 0
  BY DEF TypeOK
<1>2. ASSUME NEW r \in Shops, NEW x \in Entries, ledger[r][x] > 0
      PROVE  ledger'[r][x] > 0
  BY <1>1, <1>2 DEF Accept, TypeOK
<1>3. ASSUME NEW r \in Shops, NEW p \in Products, rows[r][p].ver.at > 0
      PROVE  rows'[r][p].ver.at > 0
  BY <1>3 DEF Accept, TypeOK, Newer, Batches, Versions
<1>4. ASSUME NEW x \in b.entries PROVE ledger'[s][x] > 0
  BY <1>1 DEF Accept, TypeOK, Batches
<1>5. ASSUME NEW p \in Products, b.products[p].at > 0
      PROVE  rows'[s][p].ver.at > 0
  BY <1>5 DEF Accept, TypeOK, Newer, Batches, Versions
<1> QED
  BY <1>2, <1>3, <1>4, <1>5 DEF Uploaded, UploadedItem

(* Every cycle that is on its way to a push has a shop to push to.          *)
LEMMA StepInSession == TypeOK /\ InSession /\ [Next]_vars => InSession'
<1> SUFFICES ASSUME TypeOK, InSession, [Next]_vars PROVE InSession'
  OBVIOUS
<1> USE DEF storeVars, linkVars, cycleVars, cloudVars, envVars
<1>1. CASE UNCHANGED vars
  BY <1>1 DEF vars, InSession
<1> SUFFICES ASSUME NEW d \in Devices, Handlers(d) \/ Cycle(d) \/ Crash(d)
             PROVE  InSession'
  BY <1>1 DEF Next
<1>2. CASE Handlers(d)
  <2>1. UNCHANGED <<pc, session>>
    BY <1>2 DEF Handlers, SeedProduct, AddProduct, UpdateProduct, DeleteProduct,
                PutProduct, CreateSale, Restock, AppendEntry, SetSetting, Link, Unlink
  <2> QED
    BY <2>1 DEF InSession
<1>3. CASE Begin(d)
  BY <1>3 DEF Begin, Goto, At, InSession, Outward, TypeOK
<1>4. CASE \/ PendingProducts(d)
           \/ PendingSales(d)
           \/ PendingStockEvents(d)
           \/ PendingSettings(d)
  <2>1. pc[d] \in Outward /\ session' = session
    BY <1>4 DEF PendingProducts, PendingSales, PendingStockEvents,
                PendingEntries, PendingSettings, At, Outward
  <2>2. \A e \in Devices \ {d} : pc'[e] = pc[e]
    BY <1>4 DEF PendingProducts, PendingSales, PendingStockEvents,
                PendingSettings, Goto, TypeOK
  <2> QED
    BY <2>1, <2>2 DEF InSession
<1>5. CASE \/ Push(d)
           \/ PushFails(d)
           \/ PushAnswerLost(d)
           \/ ClearPushed(d)
           \/ Pull(d)
           \/ PullFails(d)
           \/ ApplyPulled(d)
           \/ SetCursor(d)
  <2>1. PICK phase \in Phases \ Outward : pc' = [pc EXCEPT ![d] = phase]
    BY <1>5 DEF Push, PushFails, PushAnswerLost, Fail, ClearPushed, Pull,
                PullFails, ApplyPulled, SetCursor, Goto, Phases, Outward
  <2>2. session' = session
    BY <1>5 DEF Push, PushFails, PushAnswerLost, Fail, ClearPushed, Pull,
                PullFails, ApplyPulled, SetCursor
  <2> QED
    BY <2>1, <2>2 DEF InSession, TypeOK
<1>6. CASE Reread(d)
  BY <1>6 DEF Reread, Goto, InSession, Outward, TypeOK
<1>7. CASE Record(d) \/ Crash(d)
  BY <1>7, ZenonT(30) DEF Record, Crash, EndCycle, InSession, Outward, TypeOK
<1> QED
  BY <1>2, <1>3, <1>4, <1>5, <1>6, <1>7 DEF Cycle

(* No step takes anything out of the cloud.                                 *)
LEMMA StepKeeps ==
    ASSUME TypeOK, InSession, [Next]_vars
    PROVE  /\ \A x \in Entries : Uploaded(x) => Uploaded(x)'
           /\ \A p \in Products : UploadedItem(p) => UploadedItem(p)'
<1> USE DEF storeVars, linkVars, cycleVars, cloudVars, envVars
<1>1. CASE UNCHANGED <<rows, ledger>>
  BY <1>1 DEF Uploaded, UploadedItem
<1>2. ASSUME NEW d \in Devices, Push(d) \/ PushAnswerLost(d)
      PROVE  /\ session[d].link \in Shops
             /\ batch[d] \in Batches
             /\ Accept(session[d].link, batch[d])
  BY <1>2 DEF Push, PushAnswerLost, At, InSession, Outward, TypeOK, Batches
<1>3. CASE \E d \in Devices : Push(d) \/ PushAnswerLost(d)
  BY <1>2, <1>3, AcceptKeeps
<1>4. CASE ~ \E d \in Devices : Push(d) \/ PushAnswerLost(d)
  <2>1. CASE UNCHANGED vars
    BY <2>1, <1>1 DEF vars
  <2>2. ASSUME NEW d \in Devices, Handlers(d)
        PROVE  UNCHANGED <<rows, ledger>>
    BY <2>2 DEF Handlers, SeedProduct, AddProduct, UpdateProduct, DeleteProduct,
                PutProduct, CreateSale, Restock, AppendEntry, SetSetting, Link, Unlink
  <2>3. ASSUME NEW d \in Devices, Cycle(d) \/ Crash(d)
        PROVE  UNCHANGED <<rows, ledger>>
    BY <1>4, <2>3 DEF Cycle, Begin, PendingProducts, PendingSales,
         PendingStockEvents, PendingEntries, PendingSettings, PushFails,
         ClearPushed, Reread, Pull, PullFails, ApplyPulled, SetCursor, Record,
         Crash, EndCycle
  <2> QED
    BY <1>1, <2>1, <2>2, <2>3 DEF Next
<1> QED
  BY <1>3, <1>4

(* The three facts of Durable that a step of each kind may disturb: what is *)
(* held is marked or uploaded, what is about to be cleared is uploaded, and *)
(* so is what is about to be applied.                                       *)
LEMMA StepDurable == Durable /\ [Next]_vars => Durable'
<1> SUFFICES ASSUME Durable, [Next]_vars PROVE Durable'
  OBVIOUS
<1> USE DEF storeVars, linkVars, cycleVars, cloudVars, envVars
<1>1. TypeOK /\ TypeOK' /\ InSession /\ InSession'
  BY StepTyped, StepInSession DEF Durable
<1>2. /\ \A x \in Entries : Uploaded(x) => Uploaded(x)'
      /\ \A p \in Products : UploadedItem(p) => UploadedItem(p)'
  BY <1>1, StepKeeps
<1> SUFFICES PushedIsUploaded' /\ ReplyIsUploaded' /\ NothingLost' /\ ItemKept'
  BY <1>1 DEF Durable
<1>3. CASE UNCHANGED vars
  BY <1>3, <1>2, <1>1 DEF vars, Durable, PushedIsUploaded, ReplyIsUploaded,
                          NothingLost, ItemKept, TypeOK
<1> SUFFICES ASSUME NEW d \in Devices, Handlers(d) \/ Cycle(d) \/ Crash(d)
             PROVE  PushedIsUploaded' /\ ReplyIsUploaded' /\ NothingLost' /\ ItemKept'
  BY <1>3 DEF Next
<1>4. ASSUME UNCHANGED <<pc, batch>> \/ \E phase \in Phases \ {"clear"} : Goto(d, phase),
             \A e \in Devices \ {d} : batch'[e] = batch[e]
      PROVE  PushedIsUploaded'
  BY <1>1, <1>2, <1>4 DEF Durable, PushedIsUploaded, Goto, TypeOK
<1>5. ASSUME UNCHANGED reply PROVE ReplyIsUploaded'
  BY <1>1, <1>2, <1>5 DEF Durable, ReplyIsUploaded, TypeOK
<1>6. ASSUME UNCHANGED <<products, entries, pending, outbox>>
      PROVE  NothingLost' /\ ItemKept'
  BY <1>1, <1>2, <1>6 DEF Durable, NothingLost, ItemKept, TypeOK
<1>7. CASE Handlers(d)
  <2>1. UNCHANGED <<pc, batch, reply>>
    BY <1>7 DEF Handlers, SeedProduct, AddProduct, UpdateProduct, DeleteProduct,
                PutProduct, CreateSale, Restock, AppendEntry, SetSetting, Link, Unlink
  <2>2. NothingLost' /\ ItemKept'
    <3>1. ASSUME NEW p \in Products, NEW t \in Stamps, NEW X, PutProduct(d, p, t, X)
          PROVE  NothingLost' /\ ItemKept'
      BY <1>1, <1>2, <3>1 DEF PutProduct, Durable, NothingLost, ItemKept, TypeOK
    <3>2. ASSUME NEW x \in Entries, AppendEntry(d, x)
          PROVE  NothingLost' /\ ItemKept'
      BY <1>1, <1>2, <3>2 DEF AppendEntry, Durable, NothingLost, ItemKept, TypeOK
    <3>3. CASE \/ \E k \in Keys : SetSetting(d, k)
               \/ \E s \in Shops : Link(d, s)
               \/ Unlink(d)
      BY <1>6, <3>3 DEF SetSetting, Link, Unlink
    <3>4. ASSUME NEW p \in Products, SeedProduct(d, p)
          PROVE  NothingLost' /\ ItemKept'
      BY <1>1, <1>2, <3>4 DEF SeedProduct, Durable, NothingLost, ItemKept, TypeOK
    <3> QED
      BY <1>7, <3>1, <3>2, <3>3, <3>4 DEF Handlers, AddProduct, UpdateProduct,
         DeleteProduct, CreateSale, Restock, Entries
  <2> QED
    BY <1>4, <1>5, <2>1, <2>2
<1>8. CASE Begin(d) \/ PendingProducts(d) \/ PendingSales(d)
           \/ PendingStockEvents(d) \/ PendingSettings(d) \/ Reread(d)
  <2>1. /\ \E phase \in Phases \ {"clear"} : Goto(d, phase)
        /\ UNCHANGED <<products, entries, pending, outbox, reply>>
    BY <1>8 DEF Begin, PendingProducts, PendingSales, PendingStockEvents,
                PendingEntries, PendingSettings, Reread, Phases
  <2>2. \A e \in Devices \ {d} : batch'[e] = batch[e]
    BY <1>1, <1>8 DEF Begin, PendingProducts, PendingSales, PendingStockEvents,
                PendingEntries, PendingSettings, Reread, TypeOK
  <2> QED
    BY <1>4, <1>5, <1>6, <2>1, <2>2
<1>9. CASE Push(d)
  <2>1. session[d].link \in Shops /\ batch[d] \in Batches
    BY <1>1, <1>9 DEF Push, At, InSession, Outward, TypeOK, Batches
  <2>2. /\ \A x \in batch[d].entries : Uploaded(x)'
        /\ \A p \in Products : batch[d].products[p].at > 0 => UploadedItem(p)'
    BY <1>1, <1>9, <2>1, AcceptKeeps DEF Push
  <2>3. PushedIsUploaded'
    BY <1>1, <1>2, <1>9, <2>2 DEF Push, Goto, Durable, PushedIsUploaded, TypeOK
  <2> QED
    BY <1>5, <1>6, <1>9, <2>3 DEF Push
<1>10. CASE PushFails(d) \/ PushAnswerLost(d) \/ PullFails(d) \/ SetCursor(d)
  <2>1. /\ Goto(d, "record")
        /\ UNCHANGED <<products, entries, pending, outbox, batch, reply>>
    BY <1>10 DEF PushFails, PushAnswerLost, PullFails, SetCursor, Fail
  <2> QED
    BY <1>4, <1>5, <1>6, <2>1 DEF Phases
<1>11. CASE ClearPushed(d)
  <2>1. NothingLost'
    BY <1>1, <1>2, <1>11
       DEF ClearPushed, ClearMarks, At, Durable, NothingLost, PushedIsUploaded, TypeOK
  <2>2. ItemKept'
    BY <1>1, <1>2, <1>11
       DEF ClearPushed, ClearMarks, At, Durable, ItemKept, PushedIsUploaded,
           TypeOK, Versions
  <2> QED
    BY <1>4, <1>5, <1>11, <2>1, <2>2 DEF ClearPushed, Phases
<1>12. CASE Pull(d)
  <2>1. /\ \A x \in reply'[d].entries : Uploaded(x)
        /\ \A p \in Products : reply'[d].products[p].at > 0 => UploadedItem(p)
    BY <1>1, <1>12 DEF Pull, Answer, Uploaded, UploadedItem, TypeOK, NoVersion
  <2>2. ReplyIsUploaded'
    BY <1>1, <1>2, <1>12, <2>1 DEF Pull, Durable, ReplyIsUploaded, TypeOK
  <2> QED
    BY <1>4, <1>6, <1>12, <2>2 DEF Pull, Phases
<1>13. CASE ApplyPulled(d)
  <2>1. NothingLost'
    BY <1>1, <1>2, <1>13
       DEF ApplyPulled, Insert, Durable, NothingLost, ReplyIsUploaded, TypeOK
  <2>2. ItemKept'
    BY <1>1, <1>2, <1>13
       DEF ApplyPulled, LaterRow, Durable, ItemKept, ReplyIsUploaded, TypeOK
  <2> QED
    BY <1>4, <1>5, <1>13, <2>1, <2>2 DEF ApplyPulled, Phases
<1>14. CASE Record(d) \/ Crash(d)
  <2>1. EndCycle(d)
    BY <1>14 DEF Record, Crash
  <2>2. PushedIsUploaded'
    BY <1>1, <1>2, <2>1 DEF EndCycle, Durable, PushedIsUploaded, TypeOK
  <2>3. ReplyIsUploaded'
    BY <1>1, <1>2, <2>1
       DEF EndCycle, Durable, ReplyIsUploaded, TypeOK, NoReply, NoVersion
  <2> QED
    BY <1>6, <2>1, <2>2, <2>3 DEF EndCycle
<1> QED
  BY <1>7, <1>8, <1>9, <1>10, <1>11, <1>12, <1>13, <1>14 DEF Cycle

(* A till starts with nothing held, nothing in hand and no cycle.           *)
LEMMA InitDurable == Init => Durable
BY InitTyped DEF Init, Durable, InSession, Outward, PushedIsUploaded,
   ReplyIsUploaded, NothingLost, ItemKept, NoReply, NoVersion

(* A sale or stock event held by a till is marked there or in the ledger of *)
(* a shop, through failures, crashes and relinks.                           *)
THEOREM NothingIsEverLost == Spec => []NothingLost
<1>1. Spec => []Durable
  BY InitDurable, StepDurable, PTL DEF Spec
<1>2. Durable => NothingLost
  BY DEF Durable
<1> QED
  BY <1>1, <1>2, PTL

-----------------------------------------------------------------------------
(* No echo.  A mark is written only with a new entry, which no other till   *)
(* holds, and a till only marks what it holds.                              *)

OutboxHeld == \A d \in Devices : outbox[d] \subseteq entries[d]

Unechoed == TypeOK /\ OutboxHeld /\ NoEcho

(* Only a handler marks, and only what is new.                              *)
LEMMA StepUnechoed == Unechoed /\ [Next]_vars => Unechoed'
<1> SUFFICES ASSUME Unechoed, [Next]_vars PROVE Unechoed'
  OBVIOUS
<1> USE DEF storeVars, linkVars, cycleVars, cloudVars, envVars
<1>1. TypeOK /\ TypeOK'
  BY StepTyped DEF Unechoed
<1>2. ASSUME NEW d \in Devices, NEW X, \A x \in X : Fresh(x),
             entries' = [entries EXCEPT ![d] = @ \cup X],
             outbox' = [outbox EXCEPT ![d] = @ \cup X]
      PROVE  OutboxHeld' /\ NoEcho'
  <2>1. /\ \A e \in Devices : entries'[e] = IF e = d THEN entries[e] \cup X ELSE entries[e]
        /\ \A e \in Devices : outbox'[e] = IF e = d THEN outbox[e] \cup X ELSE outbox[e]
    BY <1>1, <1>2 DEF TypeOK
  <2>2. OutboxHeld'
    BY <2>1 DEF Unechoed, OutboxHeld
  <2>3. \A e \in Devices : X \cap outbox[e] = {}
    BY <1>2 DEF Fresh, Unechoed, OutboxHeld
  <2>4. NoEcho'
    BY <2>1, <2>3 DEF Unechoed, NoEcho
  <2> QED
    BY <2>2, <2>4
<1>3. ASSUME \A d \in Devices : entries[d] \subseteq entries'[d],
             \A d \in Devices : outbox'[d] \subseteq outbox[d]
      PROVE  OutboxHeld' /\ NoEcho'
  BY <1>3 DEF Unechoed, OutboxHeld, NoEcho
<1>4. CASE UNCHANGED vars
  <2>1. entries' = entries /\ outbox' = outbox
    BY <1>4 DEF vars
  <2> QED
    BY <1>1, <1>3, <2>1 DEF Unechoed
<1> SUFFICES ASSUME NEW d \in Devices, Handlers(d) \/ Cycle(d) \/ Crash(d)
             PROVE  OutboxHeld' /\ NoEcho'
  BY <1>1, <1>4 DEF Next, Unechoed
<1>5. CASE Handlers(d)
  <2>1. \A X \in AtMostOneEvent : \A x \in X : Fresh(x)
    BY DEF AtMostOneEvent, FreshEvents
  <2>2. ASSUME NEW p \in Products, AddProduct(d, p) \/ UpdateProduct(d, p)
        PROVE  OutboxHeld' /\ NoEcho'
    BY <1>2, <2>1, <2>2 DEF AddProduct, UpdateProduct, PutProduct
  <2>3. ASSUME NEW p \in Products, DeleteProduct(d, p)
        PROVE  OutboxHeld' /\ NoEcho'
    BY <1>1, <1>3, <2>3 DEF DeleteProduct, PutProduct, TypeOK
  <2>4. ASSUME NEW x, AppendEntry(d, x) PROVE OutboxHeld' /\ NoEcho'
    <3>1. \A y \in {x} : Fresh(y)
      BY <2>4 DEF AppendEntry
    <3> QED
      BY <1>2, <2>4, <3>1 DEF AppendEntry
  <2>5. CASE \/ \E p \in Products : SeedProduct(d, p)
             \/ \E k \in Keys : SetSetting(d, k)
             \/ \E s \in Shops : Link(d, s)
             \/ Unlink(d)
    BY <1>3, <2>5 DEF SeedProduct, SetSetting, Link, Unlink
  <2> QED
    BY <1>5, <2>2, <2>3, <2>4, <2>5 DEF Handlers, CreateSale, Restock
<1>6. CASE ApplyPulled(d)
  BY <1>1, <1>3, <1>6 DEF ApplyPulled, Insert, TypeOK
<1>7. CASE ClearPushed(d)
  BY <1>1, <1>3, <1>7 DEF ClearPushed, ClearMarks, TypeOK
<1>8. CASE (Cycle(d) \/ Crash(d)) /\ ~ApplyPulled(d) /\ ~ClearPushed(d)
  <2>1. UNCHANGED <<entries, outbox>>
    BY <1>8 DEF Cycle, Begin, PendingProducts, PendingSales,
         PendingStockEvents, PendingEntries, PendingSettings, Push, PushFails,
         PushAnswerLost, Fail, Reread, Pull, PullFails, SetCursor, Record,
         Crash, EndCycle
  <2> QED
    BY <1>3, <2>1
<1> QED
  BY <1>5, <1>6, <1>7, <1>8

(* A sale or stock event is marked for upload on one till only.             *)
THEOREM NothingIsEchoed == Spec => []NoEcho
<1>1. Init => Unechoed
  BY InitTyped DEF Init, Unechoed, OutboxHeld, NoEcho
<1>2. Spec => []Unechoed
  BY <1>1, StepUnechoed, PTL DEF Spec
<1>3. Unechoed => NoEcho
  BY DEF Unechoed
<1> QED
  BY <1>2, <1>3, PTL

-----------------------------------------------------------------------------
(* Settings.  What a step may do to the settings of a till, to their marker *)
(* and to the copies of them that are on their way.                         *)

LEMMA SettingsMove ==
    ASSUME TypeOK, [Next]_vars, NEW d \in Devices
    PROVE  \/ settings'[d] = settings[d] /\ due'[d] = due[d]
           \/ /\ settings'[d] = settings[d] /\ due'[d] = 0
              /\ pc[d] = "clear" /\ batch[d].settings.at > 0
              /\ ~(due[d] > batch[d].settings.at)
           \/ \E k \in Keys, t \in Stamps :
                 /\ settings'[d] = [settings[d] EXCEPT ![k] = [at |-> t, by |-> d]]
                 /\ due'[d] = t
                 /\ Stamp(t)
           \/ /\ settings'[d] = reply[d].settings.map /\ due'[d] = due[d]
              /\ reply[d].settings.at # 0 /\ ~(due[d] > reply[d].settings.at)
              /\ ApplyPulled(d)
<1> USE DEF storeVars, linkVars, cycleVars, cloudVars, envVars
<1>1. CASE UNCHANGED <<settings, due>>
  BY <1>1
<1>2. ASSUME NEW e \in Devices, NEW k \in Keys, NEW t \in Stamps, Stamp(t),
             settings' = [settings EXCEPT ![e][k] = [at |-> t, by |-> e]],
             due' = [due EXCEPT ![e] = t]
      PROVE  \/ settings'[d] = settings[d] /\ due'[d] = due[d]
             \/ \E j \in Keys, u \in Stamps :
                   /\ settings'[d] = [settings[d] EXCEPT ![j] = [at |-> u, by |-> d]]
                   /\ due'[d] = u
                   /\ Stamp(u)
  <2>1. CASE e = d
    <3>1. settings'[d] = [settings[d] EXCEPT ![k] = [at |-> t, by |-> d]] /\ due'[d] = t
      BY <1>2, <2>1 DEF TypeOK
    <3> QED BY <1>2, <3>1
  <2>2. CASE e # d
    BY <1>2, <2>2 DEF TypeOK
  <2> QED BY <2>1, <2>2
<1>3. ASSUME NEW e \in Devices, NEW k \in Keys, SetSetting(e, k)
      PROVE  \E t \in Stamps :
                /\ settings' = [settings EXCEPT ![e][k] = [at |-> t, by |-> e]]
                /\ due' = [due EXCEPT ![e] = t]
                /\ Stamp(t)
  BY <1>3 DEF SetSetting
<1>4. ASSUME NEW e \in Devices, ClearPushed(e)
      PROVE  /\ settings'[d] = settings[d]
             /\ due'[d] = due[d] \/ /\ due'[d] = 0 /\ pc[d] = "clear"
                                    /\ batch[d].settings.at > 0
                                    /\ ~(due[d] > batch[d].settings.at)
  BY <1>4 DEF ClearPushed, ClearMarker, At, TypeOK
<1>5. ASSUME NEW e \in Devices, ApplyPulled(e)
      PROVE  /\ due'[d] = due[d]
             /\ \/ settings'[d] = settings[d]
                \/ /\ settings'[d] = reply[d].settings.map
                   /\ reply[d].settings.at # 0 /\ ~(due[d] > reply[d].settings.at)
                   /\ ApplyPulled(d)
  BY <1>5 DEF ApplyPulled, LaterSettings, TypeOK
<1>6. ASSUME NEW e \in Devices, Handlers(e), ~(\E k \in Keys : SetSetting(e, k))
      PROVE  UNCHANGED <<settings, due>>
  BY <1>6 DEF Handlers, SeedProduct, AddProduct, UpdateProduct, DeleteProduct,
                PutProduct, CreateSale, Restock, AppendEntry, Link, Unlink
<1>7. ASSUME NEW e \in Devices, Cycle(e) \/ Crash(e), ~ClearPushed(e), ~ApplyPulled(e)
      PROVE  UNCHANGED <<settings, due>>
  BY <1>7 DEF Cycle, Begin, PendingProducts, PendingSales, PendingStockEvents,
              PendingEntries, PendingSettings, Push, PushFails, PushAnswerLost, Fail,
              Reread, Pull, PullFails, SetCursor, Record, Crash, EndCycle
<1>8. CASE UNCHANGED vars
  BY <1>1, <1>8 DEF vars
<1>9. ASSUME NEW e \in Devices, NEW k \in Keys, SetSetting(e, k)
      PROVE  \/ settings'[d] = settings[d] /\ due'[d] = due[d]
             \/ \E j \in Keys, u \in Stamps :
                   /\ settings'[d] = [settings[d] EXCEPT ![j] = [at |-> u, by |-> d]]
                   /\ due'[d] = u
                   /\ Stamp(u)
  BY <1>2, <1>3, <1>9
<1> QED
  BY <1>1, <1>4, <1>5, <1>6, <1>7, <1>8, <1>9 DEF Next

LEMMA PayloadsMove ==
    ASSUME TypeOK, InSession, [Next]_vars
    PROVE  /\ \A d \in Devices :
                 \/ batch'[d].settings \in {batch[d].settings, NoSettings}
                 \/ /\ batch'[d].settings = [at |-> due[d], map |-> settings[d]]
                    /\ due[d] # 0
           /\ \A d \in Devices :
                 \/ reply'[d].settings \in {reply[d].settings, NoSettings}
                 \/ \E s \in Shops : reply'[d].settings = shopSettings[s].ver
           /\ \A s \in Shops :
                 \/ shopSettings'[s] = shopSettings[s]
                 \/ \E d \in Devices :
                       /\ shopSettings'[s].ver = batch[d].settings
                       /\ batch[d].settings.at > shopSettings[s].ver.at
<1> USE DEF storeVars, linkVars, cycleVars, cloudVars, envVars
<1>1. CASE UNCHANGED <<batch, reply, shopSettings>>
  BY <1>1
<1>2. ASSUME NEW e \in Devices,
             PendingProducts(e) \/ PendingSales(e) \/ PendingStockEvents(e)
      PROVE  /\ \A d \in Devices : batch'[d].settings = batch[d].settings
             /\ UNCHANGED <<reply, shopSettings>>
  <2>1. \E X, Y : batch' = [batch EXCEPT ![e] = [batch[e] EXCEPT !.products = X]]
                  \/ batch' = [batch EXCEPT ![e] = [batch[e] EXCEPT !.entries = Y]]
    BY <1>2 DEF PendingProducts, PendingSales, PendingStockEvents, PendingEntries
  <2>2. batch \in [Devices -> Batches]
    BY DEF TypeOK, Batches
  <2>3. \A d \in Devices : batch'[d].settings = batch[d].settings
    BY <2>1, <2>2 DEF Batches
  <2> QED
    BY <1>2, <2>3 DEF PendingProducts, PendingSales, PendingStockEvents, PendingEntries
<1>3. ASSUME NEW e \in Devices, PendingSettings(e)
      PROVE  /\ \A d \in Devices :
                    \/ batch'[d].settings \in {batch[d].settings, NoSettings}
                    \/ /\ batch'[d].settings = [at |-> due[d], map |-> settings[d]]
                       /\ due[d] # 0
             /\ UNCHANGED <<reply, shopSettings>>
  BY <1>3 DEF PendingSettings, TypeOK
<1>4. ASSUME NEW e \in Devices, Push(e) \/ PushAnswerLost(e)
      PROVE  /\ \A s \in Shops :
                    \/ shopSettings'[s] = shopSettings[s]
                    \/ \E d \in Devices :
                          /\ shopSettings'[s].ver = batch[d].settings
                          /\ batch[d].settings.at > shopSettings[s].ver.at
             /\ UNCHANGED <<batch, reply>>
  <2>1. Accept(session[e].link, batch[e]) /\ UNCHANGED <<batch, reply>>
    BY <1>4 DEF Push, PushAnswerLost, Fail
  <2>2. session[e].link \in Shops
    BY <1>4 DEF Push, PushAnswerLost, At, InSession, Outward
  <2>3. CASE batch[e].settings.at > shopSettings[session[e].link].ver.at
    <3>1. shopSettings' = [shopSettings EXCEPT ![session[e].link] =
              [ver |-> batch[e].settings, seq |-> seq[session[e].link] + 1]]
      BY <2>1, <2>3 DEF Accept
    <3> QED BY <2>1, <2>2, <2>3, <3>1 DEF TypeOK
  <2>4. CASE ~(batch[e].settings.at > shopSettings[session[e].link].ver.at)
    <3>1. shopSettings' = [shopSettings EXCEPT ![session[e].link] =
              shopSettings[session[e].link]]
      BY <2>1, <2>4 DEF Accept
    <3> QED BY <2>1, <3>1 DEF TypeOK
  <2> QED BY <2>3, <2>4
<1>5. ASSUME NEW e \in Devices, Reread(e)
      PROVE  /\ \A d \in Devices : batch'[d].settings \in {batch[d].settings, NoSettings}
             /\ UNCHANGED <<reply, shopSettings>>
  BY <1>5 DEF Reread, NoBatch, TypeOK
<1>6. ASSUME NEW e \in Devices, Pull(e)
      PROVE  /\ \A d \in Devices :
                    \/ reply'[d].settings \in {reply[d].settings, NoSettings}
                    \/ \E s \in Shops : reply'[d].settings = shopSettings[s].ver
             /\ UNCHANGED <<batch, shopSettings>>
  BY <1>6 DEF Pull, Answer, TypeOK
<1>7. ASSUME NEW e \in Devices, Record(e) \/ Crash(e)
      PROVE  /\ \A d \in Devices : batch'[d].settings \in {batch[d].settings, NoSettings}
             /\ \A d \in Devices : reply'[d].settings \in {reply[d].settings, NoSettings}
             /\ UNCHANGED shopSettings
  <2>1. /\ batch' = [batch EXCEPT ![e] = NoBatch] /\ reply' = [reply EXCEPT ![e] = NoReply]
        /\ UNCHANGED shopSettings
    BY <1>7 DEF Record, Crash, EndCycle
  <2>2. NoBatch.settings = NoSettings /\ NoReply.settings = NoSettings
    BY DEF NoBatch, NoReply
  <2> QED BY <2>1, <2>2 DEF TypeOK
<1>8. ASSUME NEW e \in Devices, Handlers(e)
      PROVE  UNCHANGED <<batch, reply, shopSettings>>
  BY <1>8 DEF Handlers, SeedProduct, AddProduct, UpdateProduct, DeleteProduct,
                PutProduct, CreateSale, Restock, AppendEntry, SetSetting, Link, Unlink
<1>9. ASSUME NEW e \in Devices,
             \/ Begin(e) \/ PushFails(e) \/ ClearPushed(e) \/ PullFails(e)
             \/ ApplyPulled(e) \/ SetCursor(e)
      PROVE  UNCHANGED <<batch, reply, shopSettings>>
  BY <1>9 DEF Begin, PushFails, Fail, ClearPushed, PullFails, ApplyPulled, SetCursor
<1>10. CASE UNCHANGED vars
  BY <1>1, <1>10 DEF vars
<1> SUFFICES ASSUME NEW e \in Devices, Handlers(e) \/ Cycle(e) \/ Crash(e)
             PROVE  /\ \A d \in Devices :
                          \/ batch'[d].settings \in {batch[d].settings, NoSettings}
                          \/ /\ batch'[d].settings = [at |-> due[d], map |-> settings[d]]
                             /\ due[d] # 0
                    /\ \A d \in Devices :
                          \/ reply'[d].settings \in {reply[d].settings, NoSettings}
                          \/ \E s \in Shops : reply'[d].settings = shopSettings[s].ver
                    /\ \A s \in Shops :
                          \/ shopSettings'[s] = shopSettings[s]
                          \/ \E d \in Devices :
                                /\ shopSettings'[s].ver = batch[d].settings
                                /\ batch[d].settings.at > shopSettings[s].ver.at
  BY <1>10 DEF Next
<1> QED
  BY <1>1, <1>2, <1>3, <1>4, <1>5, <1>6, <1>7, <1>8, <1>9 DEF Cycle

(* Of a payload: its own change, or a later one, is in it.                  *)
Held(m) == m.at > 0 => \E k \in Keys : m.map[k].at >= m.at

HeldInv ==
    /\ TypeOK
    /\ InSession
    /\ MarkedChangeHeld
    /\ \A d \in Devices : Held(batch[d].settings) /\ Held(reply[d].settings)
    /\ \A s \in Shops : Held(shopSettings[s].ver)

LEMMA StepHeld == HeldInv /\ [Next]_vars => HeldInv'
<1> SUFFICES ASSUME HeldInv, [Next]_vars PROVE HeldInv'
  OBVIOUS
<1>1. TypeOK /\ TypeOK' /\ InSession /\ InSession'
  BY StepTyped, StepInSession DEF HeldInv
<1>2. Held(NoSettings)
  BY DEF Held, NoSettings
<1>3. ASSUME NEW d \in Devices, due'[d] > 0
      PROVE  \E k \in Keys : settings'[d][k].at >= due'[d]
  <2>1. CASE settings'[d] = settings[d] /\ due'[d] = due[d]
    BY <1>3, <2>1 DEF HeldInv, MarkedChangeHeld
  <2>2. ASSUME NEW k \in Keys, NEW t \in Stamps, due'[d] = t,
               settings'[d] = [settings[d] EXCEPT ![k] = [at |-> t, by |-> d]]
        PROVE  \E j \in Keys : settings'[d][j].at >= due'[d]
    <3>1. settings'[d][k].at = t /\ t \in Nat
      BY <1>1, <2>2 DEF TypeOK, Stamps
    <3> QED BY <2>2, <3>1
  <2>3. CASE /\ settings'[d] = reply[d].settings.map /\ due'[d] = due[d]
             /\ reply[d].settings.at # 0 /\ ~(due[d] > reply[d].settings.at)
    <3>1. due[d] \in Nat /\ reply[d].settings.at \in Nat
      BY <1>1 DEF TypeOK, Payloads
    <3>2. PICK k \in Keys : reply[d].settings.map[k].at >= reply[d].settings.at
      BY <2>3, <3>1 DEF HeldInv, Held
    <3>3. reply[d].settings.map[k].at \in Nat
      BY <1>1 DEF TypeOK, Payloads, Versions
    <3> QED BY <2>3, <3>1, <3>2, <3>3
  <2> QED
    <3>1. due'[d] # 0
      BY <1>3
    <3> QED
      BY <1>1, <3>1, <2>1, <2>2, <2>3, SettingsMove
<1>4. ASSUME NEW d \in Devices PROVE Held(batch'[d].settings)
  <2>1. CASE batch'[d].settings = [at |-> due[d], map |-> settings[d]]
    BY <2>1 DEF Held, HeldInv, MarkedChangeHeld
  <2> QED
    BY <1>1, <1>2, <2>1, PayloadsMove DEF HeldInv
<1>5. \A d \in Devices : Held(reply'[d].settings)
  BY <1>1, <1>2, PayloadsMove DEF HeldInv
<1>6. \A s \in Shops : Held(shopSettings'[s].ver)
  BY <1>1, PayloadsMove DEF HeldInv
<1> QED
  BY <1>1, <1>3, <1>4, <1>5, <1>6 DEF HeldInv, MarkedChangeHeld, Held

(* A settings change that is marked is in the settings, or a later one is,  *)
(* for any clocks: stamps of several tills may come in any order.           *)
THEOREM MarkedIsHeld == Spec => []MarkedChangeHeld
<1>1. Init => HeldInv
  <2> SUFFICES ASSUME Init PROVE HeldInv
    OBVIOUS
  <2>1. TypeOK /\ InSession
    BY InitTyped, InitDurable DEF Durable
  <2>2. Held(NoSettings)
    BY DEF Held, NoSettings
  <2>3. /\ \A d \in Devices : /\ batch[d].settings = NoSettings
                              /\ reply[d].settings = NoSettings
                              /\ due[d] = 0
        /\ \A s \in Shops : shopSettings[s].ver = NoSettings
    BY DEF Init, NoBatch, NoReply
  <2> QED
    BY <2>1, <2>2, <2>3 DEF HeldInv, MarkedChangeHeld
<1>2. Spec => []HeldInv
  BY <1>1, StepHeld, PTL DEF Spec
<1>3. HeldInv => MarkedChangeHeld
  BY DEF HeldInv
<1> QED
  BY <1>2, <1>3, PTL

(* The clock does not go back, and a till stamps not below it, if tills     *)
(* have one clock or differ by less than a tick.                            *)
LEMMA ClockMoves ==
    ASSUME TypeOK, [Next]_vars
    PROVE  clock' \in Nat /\ clock <= clock'
<1> USE DEF storeVars, linkVars, cycleVars, cloudVars, envVars
<1>1. clock \in Nat
  BY DEF TypeOK
<1>2. ASSUME NEW t \in Stamps, Stamp(t) PROVE clock' \in Nat /\ clock <= clock'
  BY <1>1, <1>2, ConstantsAssumption DEF Stamps, Stamp
<1>3. CASE UNCHANGED clock
  BY <1>1, <1>3
<1> SUFFICES ASSUME NEW d \in Devices, Handlers(d) \/ Cycle(d) \/ Crash(d)
             PROVE  clock' \in Nat /\ clock <= clock'
  BY <1>3 DEF Next, vars
<1>4. CASE Handlers(d)
  BY <1>2, <1>3, <1>4 DEF Handlers, SeedProduct, AddProduct, UpdateProduct, DeleteProduct,
     PutProduct, CreateSale, Restock, AppendEntry, SetSetting, Link, Unlink
<1>5. CASE Cycle(d) \/ Crash(d)
  BY <1>3, <1>5 DEF Cycle, Begin, PendingProducts, PendingSales, PendingStockEvents,
     PendingEntries, PendingSettings, Push, PushFails, PushAnswerLost, Fail,
     ClearPushed, Reread, Pull, PullFails, ApplyPulled, SetCursor, Record, Crash,
     EndCycle
<1> QED
  BY <1>4, <1>5

LEMMA StampIsLatest ==
    ASSUME Skew \in {0, 1}, clock \in Nat, NEW t \in Stamps, Stamp(t)
    PROVE  t \in Nat /\ clock <= t /\ t <= clock'
BY ConstantsAssumption DEF Stamps, Stamp

(* A batch on its way to be cleared is the one that a shop has accepted.    *)
LEMMA ClearMove ==
    ASSUME TypeOK, InSession, [Next]_vars, NEW d \in Devices, pc'[d] = "clear"
    PROVE  /\ batch'[d] = batch[d]
           /\ \/ pc[d] = "clear"
              \/ \E s \in Shops : shopSettings'[s].ver.at >= batch[d].settings.at
<1> USE DEF storeVars, linkVars, cycleVars, cloudVars, envVars
<1>1. CASE UNCHANGED vars
  BY <1>1 DEF vars
<1> SUFFICES ASSUME NEW e \in Devices, Handlers(e) \/ Cycle(e) \/ Crash(e)
             PROVE  /\ batch'[d] = batch[d]
                    /\ \/ pc[d] = "clear"
                       \/ \E s \in Shops : shopSettings'[s].ver.at >= batch[d].settings.at
  BY <1>1 DEF Next
<1>2. CASE Handlers(e)
  BY <1>2 DEF Handlers, SeedProduct, AddProduct, UpdateProduct, DeleteProduct,
                PutProduct, CreateSale, Restock, AppendEntry, SetSetting, Link, Unlink
<1>3. CASE Push(e)
  <2>1. session[e].link \in Shops
    BY <1>3 DEF Push, At, InSession, Outward
  <2>2. batch[e].settings.at \in Nat /\ shopSettings[session[e].link].ver.at \in Nat
    BY <2>1 DEF TypeOK, Payloads
  <2>3. shopSettings'[session[e].link].ver.at >= batch[e].settings.at
    BY <1>3, <2>1, <2>2 DEF Push, Accept, TypeOK
  <2> QED
    BY <1>3, <2>1, <2>3 DEF Push, Goto, TypeOK
<1>4. ASSUME NEW phase \in Phases \ {"clear"}, Goto(e, phase)
      PROVE  e # d /\ pc[d] = "clear"
  BY <1>4 DEF Goto, TypeOK
<1>5. CASE Begin(e) \/ PendingProducts(e) \/ PendingSales(e) \/ PendingStockEvents(e)
           \/ PendingSettings(e) \/ Reread(e)
  <2>1. \E phase \in Phases \ {"clear"} : Goto(e, phase)
    BY <1>5 DEF Begin, PendingProducts, PendingSales, PendingStockEvents,
                PendingSettings, Reread, Phases
  <2>2. e # d /\ pc[d] = "clear"
    BY <1>4, <2>1
  <2> QED
    BY <1>5, <2>2 DEF Begin, PendingProducts, PendingSales, PendingStockEvents,
                PendingEntries, PendingSettings, Reread, TypeOK
<1>6. CASE PushFails(e) \/ PushAnswerLost(e) \/ PullFails(e) \/ SetCursor(e)
           \/ ClearPushed(e) \/ Pull(e) \/ ApplyPulled(e)
  <2>1. (\E phase \in Phases \ {"clear"} : Goto(e, phase)) /\ UNCHANGED batch
    BY <1>6 DEF PushFails, PushAnswerLost, PullFails, SetCursor, Fail, ClearPushed,
                Pull, ApplyPulled, Phases
  <2> QED
    BY <1>4, <2>1
<1>7. CASE Record(e) \/ Crash(e)
  BY <1>7 DEF Record, Crash, EndCycle, TypeOK
<1> QED
  BY <1>2, <1>3, <1>5, <1>6, <1>7 DEF Cycle

InShop(shops, t) == \E s \in Shops : t <= shops[s].ver.at

(* Of a payload: every value is as old as the payload, or a shop has as     *)
(* late a payload.                                                          *)
Kept(shops, m) == \A k \in Keys : m.map[k].at <= m.at \/ InShop(shops, m.map[k].at)
Early(t, m) == \A k \in Keys : m.map[k].at <= t

KeptInv ==
    /\ TypeOK
    /\ InSession
    /\ SettingsChangeKept
    /\ \A d \in Devices : \A k \in Keys : settings[d][k].at <= clock
    /\ \A d \in Devices :
          /\ Kept(shopSettings, batch[d].settings) /\ Early(clock, batch[d].settings)
          /\ Kept(shopSettings, reply[d].settings) /\ Early(clock, reply[d].settings)
          /\ reply[d].settings.at > 0 => InShop(shopSettings, reply[d].settings.at)
          /\ pc[d] = "clear" /\ batch[d].settings.at > 0 =>
                 InShop(shopSettings, batch[d].settings.at)
    /\ \A s \in Shops :
          Kept(shopSettings, shopSettings[s].ver) /\ Early(clock, shopSettings[s].ver)

LEMMA StepKept == Skew \in {0, 1} /\ KeptInv /\ [Next]_vars => KeptInv'
<1> SUFFICES ASSUME Skew \in {0, 1}, KeptInv, [Next]_vars PROVE KeptInv'
  OBVIOUS
<1>1. TypeOK /\ TypeOK' /\ InSession /\ InSession'
  BY StepTyped, StepInSession DEF KeptInv
<1>2. clock \in Nat /\ clock' \in Nat /\ clock <= clock'
  BY <1>1, ClockMoves DEF TypeOK
<1>3. ASSUME NEW s \in Shops
      PROVE  /\ shopSettings[s].ver.at \in Nat /\ shopSettings'[s].ver.at \in Nat
             /\ shopSettings[s].ver.at <= shopSettings'[s].ver.at
  <2>1. shopSettings[s].ver.at \in Nat /\ shopSettings'[s].ver.at \in Nat
    BY <1>1 DEF TypeOK, Payloads
  <2> QED
    BY <1>1, <2>1, PayloadsMove
<1>4. ASSUME NEW t \in Nat, InShop(shopSettings, t) PROVE InShop(shopSettings', t)
  BY <1>3, <1>4 DEF InShop
<1>5. ASSUME NEW m \in Payloads, Kept(shopSettings, m), Early(clock, m)
      PROVE  /\ \A k \in Keys : m.map[k].at <= m.at \/ InShop(shopSettings', m.map[k].at)
             /\ \A k \in Keys : m.map[k].at <= clock'
  <2>1. \A k \in Keys : m.map[k].at \in Nat
    BY DEF Payloads, Versions
  <2> QED
    BY <1>2, <1>4, <1>5, <2>1 DEF Kept, Early
<1>6. NoSettings \in Payloads /\ Kept(shopSettings, NoSettings) /\ Early(clock, NoSettings)
  BY <1>2, EmptyValues DEF NoSettings, NoVersion, Kept, Early
<1>7. ASSUME NEW d \in Devices
      PROVE  /\ batch[d].settings \in Payloads /\ reply[d].settings \in Payloads
             /\ [at |-> due[d], map |-> settings[d]] \in Payloads
             /\ due[d] \in Nat
             /\ \A k \in Keys : settings[d][k].at \in Nat
  BY <1>1 DEF TypeOK, Payloads, Versions
<1>8. \A s \in Shops : shopSettings[s].ver \in Payloads
  BY <1>1 DEF TypeOK
<1>9. ASSUME NEW d \in Devices
      PROVE  /\ Kept(shopSettings, [at |-> due[d], map |-> settings[d]])
             /\ Early(clock, [at |-> due[d], map |-> settings[d]])
  BY DEF Kept, Early, KeptInv, SettingsChangeKept, InShop
<1>10. ASSUME NEW d \in Devices, NEW k \in Keys
       PROVE  /\ settings'[d][k].at <= due'[d] \/ InShop(shopSettings', settings'[d][k].at)
              /\ settings'[d][k].at <= clock'
  <2>1. /\ settings[d][k].at <= due[d] \/ InShop(shopSettings', settings[d][k].at)
        /\ settings[d][k].at <= clock'
    BY <1>5, <1>7, <1>9
  <2>2. CASE settings'[d] = settings[d] /\ due'[d] = due[d]
    BY <2>1, <2>2
  <2>3. CASE /\ settings'[d] = settings[d] /\ due'[d] = 0
             /\ pc[d] = "clear" /\ batch[d].settings.at > 0
             /\ ~(due[d] > batch[d].settings.at)
    <3>1. InShop(shopSettings', batch[d].settings.at) /\ batch[d].settings.at \in Nat
      BY <2>3, <1>4, <1>7 DEF KeptInv, Payloads
    <3>2. ASSUME settings[d][k].at <= due[d] PROVE InShop(shopSettings', settings[d][k].at)
      <4>1. PICK s \in Shops : batch[d].settings.at <= shopSettings'[s].ver.at
        BY <3>1 DEF InShop
      <4>2. settings[d][k].at \in Nat /\ due[d] \in Nat
        BY <1>7
      <4>3. shopSettings'[s].ver.at \in Nat
        BY <1>3
      <4>4. batch[d].settings.at \in Nat /\ ~(due[d] > batch[d].settings.at)
        BY <2>3, <3>1
      <4>5. settings[d][k].at <= batch[d].settings.at
        BY <3>2, <4>2, <4>4
      <4>6. settings[d][k].at <= shopSettings'[s].ver.at
        BY <4>1, <4>2, <4>3, <4>4, <4>5
      <4> QED
        BY <4>6 DEF InShop
    <3> QED
      BY <2>1, <2>3, <3>2
  <2>4. ASSUME NEW j \in Keys, NEW t \in Stamps, due'[d] = t, Stamp(t),
               settings'[d] = [settings[d] EXCEPT ![j] = [at |-> t, by |-> d]]
        PROVE  settings'[d][k].at <= due'[d] /\ settings'[d][k].at <= clock'
    <3>1. t \in Nat /\ clock <= t /\ t <= clock'
      BY <1>2, <2>4, StampIsLatest
    <3>2. settings[d][k].at <= clock /\ settings[d][k].at \in Nat
      BY <1>7 DEF KeptInv
    <3>3. settings'[d][k].at = t \/ settings'[d][k].at = settings[d][k].at
      BY <1>1, <2>4 DEF TypeOK
    <3> QED
      BY <1>2, <2>4, <3>1, <3>2, <3>3
  <2>5. CASE /\ settings'[d] = reply[d].settings.map /\ due'[d] = due[d]
             /\ reply[d].settings.at # 0 /\ ~(due[d] > reply[d].settings.at)
    <3>1. reply[d].settings.at \in Nat /\ reply[d].settings.at > 0
      BY <1>7, <2>5 DEF Payloads
    <3>2. InShop(shopSettings', reply[d].settings.at)
      BY <1>4, <3>1 DEF KeptInv
    <3>3. /\ reply[d].settings.map[k].at <= reply[d].settings.at
              \/ InShop(shopSettings', reply[d].settings.map[k].at)
          /\ reply[d].settings.map[k].at <= clock'
      BY <1>5, <1>7 DEF KeptInv
    <3>4. reply[d].settings.map[k].at \in Nat
      BY <1>7 DEF Payloads, Versions
    <3>5. InShop(shopSettings', reply[d].settings.map[k].at)
      BY <1>3, <3>1, <3>2, <3>3, <3>4 DEF InShop
    <3> QED
      BY <2>5, <3>3, <3>5
  <2> QED
    BY <1>1, <2>2, <2>3, <2>4, <2>5, SettingsMove
<1>11. \A d \in Devices : Kept(shopSettings', batch'[d].settings) /\ Early(clock', batch'[d].settings)
  <2>1. TAKE d \in Devices
  <2>2. ASSUME NEW m \in Payloads, Kept(shopSettings, m), Early(clock, m), batch'[d].settings = m
        PROVE  Kept(shopSettings', batch'[d].settings) /\ Early(clock', batch'[d].settings)
    BY <1>5, <2>2 DEF Kept, Early
  <2> QED
    BY <1>1, <1>6, <1>7, <1>9, <2>2, PayloadsMove DEF KeptInv
<1>12. \A d \in Devices :
           /\ Kept(shopSettings', reply'[d].settings) /\ Early(clock', reply'[d].settings)
           /\ reply'[d].settings.at > 0 => InShop(shopSettings', reply'[d].settings.at)
  <2>1. TAKE d \in Devices
  <2>2. ASSUME NEW m \in Payloads, Kept(shopSettings, m), Early(clock, m), m.at > 0 => InShop(shopSettings, m.at),
               reply'[d].settings = m
        PROVE  /\ Kept(shopSettings', reply'[d].settings) /\ Early(clock', reply'[d].settings)
               /\ reply'[d].settings.at > 0 => InShop(shopSettings', reply'[d].settings.at)
    <3>1. m.at \in Nat
      BY DEF Payloads
    <3> QED
      BY <1>4, <1>5, <2>2, <3>1 DEF Kept, Early
  <2>3. ASSUME NEW s \in Shops PROVE InShop(shopSettings, shopSettings[s].ver.at)
    BY <1>3 DEF InShop
  <2>4. ~(NoSettings.at > 0)
    BY DEF NoSettings
  <2> QED
    BY <1>1, <1>6, <1>7, <1>8, <2>2, <2>3, <2>4, PayloadsMove DEF KeptInv
<1>13. \A s \in Shops : Kept(shopSettings', shopSettings'[s].ver) /\ Early(clock', shopSettings'[s].ver)
  <2>1. TAKE s \in Shops
  <2>2. ASSUME NEW m \in Payloads, Kept(shopSettings, m), Early(clock, m), shopSettings'[s].ver = m
        PROVE  Kept(shopSettings', shopSettings'[s].ver) /\ Early(clock', shopSettings'[s].ver)
    BY <1>5, <2>2 DEF Kept, Early
  <2> QED
    BY <1>1, <1>7, <1>8, <2>2, PayloadsMove DEF KeptInv
<1>14. ASSUME NEW d \in Devices, pc'[d] = "clear", batch'[d].settings.at > 0
       PROVE  InShop(shopSettings', batch'[d].settings.at)
  <2>1. batch[d].settings.at \in Nat
    BY <1>7 DEF Payloads
  <2> QED
    BY <1>1, <1>3, <1>4, <1>14, <2>1, ClearMove DEF KeptInv, InShop
<1>15. SettingsChangeKept'
  BY <1>10 DEF SettingsChangeKept, InShop
<1> QED
  BY <1>1, <1>10, <1>11, <1>12, <1>13, <1>14, <1>15 DEF KeptInv

(* If clocks differ by less than a tick, a settings change is marked, or a  *)
(* shop holds settings as late, through pushes in flight, pulls and relinks.*)
THEOREM ChangeIsKept ==
    ASSUME Skew \in {0, 1}
    PROVE  Spec => []SettingsChangeKept
<1>1. Init => KeptInv
  <2> SUFFICES ASSUME Init PROVE KeptInv
    OBVIOUS
  <2>1. TypeOK /\ InSession
    BY InitTyped, InitDurable DEF Durable
  <2>2. Kept(shopSettings, NoSettings) /\ Early(clock, NoSettings)
    BY DEF Init, Kept, Early, NoSettings, NoVersion
  <2>3. /\ \A d \in Devices : /\ batch[d].settings = NoSettings
                              /\ reply[d].settings = NoSettings
                              /\ pc[d] = "idle"
                              /\ due[d] = 0
                              /\ \A k \in Keys : settings[d][k].at = 0
        /\ \A s \in Shops : shopSettings[s].ver = NoSettings
        /\ clock = 0
    BY DEF Init, NoBatch, NoReply, NoVersion
  <2>4. ~(NoSettings.at > 0)
    BY DEF NoSettings
  <2> QED
    BY <2>1, <2>2, <2>3, <2>4 DEF KeptInv, SettingsChangeKept
<1>2. KeptInv /\ [Next]_vars => KeptInv'
  BY StepKept
<1>3. Spec => []KeptInv
  BY <1>1, <1>2, PTL DEF Spec
<1>4. KeptInv => SettingsChangeKept
  BY DEF KeptInv
<1> QED
  BY <1>3, <1>4, PTL

-----------------------------------------------------------------------------
(* Rows.  What a step may do to a row of a till and to the copies of it     *)
(* that are on their way.                                                   *)

LEMMA RowMoves ==
    ASSUME TypeOK, [Next]_vars, NEW d \in Devices, NEW p \in Products
    PROVE  \/ products'[d][p] = products[d][p]
           \/ \E t \in Stamps, w \in {d, Nobody} :
                 products'[d][p] = [at |-> t, by |-> w] /\ Stamp(t)
           \/ /\ products'[d][p] = reply[d].products[p]
              /\ reply[d].products[p].at > products[d][p].at
<1> USE DEF storeVars, linkVars, cycleVars, cloudVars, envVars
<1>1. CASE UNCHANGED products
  BY <1>1
<1>2. ASSUME NEW e \in Devices, NEW q \in Products, NEW t \in Stamps,
             NEW w \in {e, Nobody}, Stamp(t),
             products' = [products EXCEPT ![e][q] = [at |-> t, by |-> w]]
      PROVE  \/ products'[d][p] = products[d][p]
             \/ \E u \in Stamps, v \in {d, Nobody} :
                   products'[d][p] = [at |-> u, by |-> v] /\ Stamp(u)
  <2>1. \/ products'[d][p] = products[d][p]
        \/ w \in {d, Nobody} /\ products'[d][p] = [at |-> t, by |-> w]
    BY <1>2 DEF TypeOK
  <2> QED
    BY <1>2, <2>1
<1>3. ASSUME NEW e \in Devices, ApplyPulled(e)
      PROVE  \/ products'[d][p] = products[d][p]
             \/ /\ products'[d][p] = reply[d].products[p]
                /\ reply[d].products[p].at > products[d][p].at
  BY <1>3 DEF ApplyPulled, LaterRow, Newer, TypeOK
<1>4. CASE UNCHANGED vars
  BY <1>1, <1>4 DEF vars
<1>5. ASSUME NEW e \in Devices, Handlers(e)
      PROVE  \/ UNCHANGED products
             \/ \E q \in Products, t \in Stamps, w \in {e, Nobody} :
                   /\ Stamp(t)
                   /\ products' = [products EXCEPT ![e][q] = [at |-> t, by |-> w]]
  <2>1. ASSUME NEW q \in Products,
               \/ SeedProduct(e, q) \/ AddProduct(e, q)
               \/ UpdateProduct(e, q) \/ DeleteProduct(e, q)
        PROVE  \E t \in Stamps, w \in {e, Nobody} :
                  /\ Stamp(t)
                  /\ products' = [products EXCEPT ![e][q] = [at |-> t, by |-> w]]
    BY <2>1 DEF SeedProduct, AddProduct, UpdateProduct, DeleteProduct, PutProduct
  <2>2. CASE \/ \E x \in Sales : CreateSale(e, x)
             \/ \E x \in StockEvents : Restock(e, x)
             \/ \E k \in Keys : SetSetting(e, k)
             \/ \E s \in Shops : Link(e, s)
             \/ Unlink(e)
    BY <2>2 DEF CreateSale, Restock, AppendEntry, SetSetting, Link, Unlink
  <2> QED
    BY <1>5, <2>1, <2>2 DEF Handlers
<1>6. ASSUME NEW e \in Devices, Cycle(e) \/ Crash(e), ~ApplyPulled(e)
      PROVE  UNCHANGED products
  BY <1>6 DEF Cycle, Begin, PendingProducts, PendingSales, PendingStockEvents,
              PendingEntries, PendingSettings, Push, PushFails, PushAnswerLost, Fail,
              ClearPushed, Reread, Pull, PullFails, SetCursor, Record, Crash, EndCycle
<1> QED
  BY <1>1, <1>2, <1>3, <1>4, <1>5, <1>6 DEF Next

LEMMA CopiesMove ==
    ASSUME TypeOK, InSession, [Next]_vars, NEW p \in Products
    PROVE  /\ \A d \in Devices :
                 \/ batch'[d].products[p] \in {batch[d].products[p], NoVersion}
                 \/ p \in pending[d] /\ batch'[d].products[p] = products[d][p]
           /\ \A d \in Devices :
                 \/ reply'[d].products[p] \in {reply[d].products[p], NoVersion}
                 \/ \E s \in Shops : reply'[d].products[p] = rows[s][p].ver
           /\ \A s \in Shops :
                 \/ rows'[s][p].ver = rows[s][p].ver
                 \/ \E d \in Devices : rows'[s][p].ver = batch[d].products[p]
<1> USE DEF storeVars, linkVars, cycleVars, cloudVars, envVars
<1>1. CASE UNCHANGED <<batch, reply, rows>>
  BY <1>1
<1>2. ASSUME NEW e \in Devices, PendingProducts(e)
      PROVE  /\ \A d \in Devices :
                    \/ batch'[d].products[p] \in {batch[d].products[p], NoVersion}
                    \/ p \in pending[d] /\ batch'[d].products[p] = products[d][p]
             /\ UNCHANGED <<reply, rows>>
  BY <1>2 DEF PendingProducts, TypeOK
<1>3. ASSUME NEW e \in Devices,
             PendingSales(e) \/ PendingStockEvents(e) \/ PendingSettings(e)
      PROVE  /\ \A d \in Devices : batch'[d].products = batch[d].products
             /\ UNCHANGED <<reply, rows>>
  <2>1. \E X, Y : batch' = [batch EXCEPT ![e] = [batch[e] EXCEPT !.settings = X]]
                  \/ batch' = [batch EXCEPT ![e] = [batch[e] EXCEPT !.entries = Y]]
    BY <1>3 DEF PendingSales, PendingStockEvents, PendingEntries, PendingSettings
  <2>2. batch \in [Devices -> Batches]
    BY DEF TypeOK, Batches
  <2>3. \A d \in Devices : batch'[d].products = batch[d].products
    BY <2>1, <2>2 DEF Batches
  <2> QED
    BY <1>3, <2>3 DEF PendingSales, PendingStockEvents, PendingEntries, PendingSettings
<1>4. ASSUME NEW e \in Devices, Push(e) \/ PushAnswerLost(e)
      PROVE  /\ \A s \in Shops :
                    \/ rows'[s][p].ver = rows[s][p].ver
                    \/ \E d \in Devices : rows'[s][p].ver = batch[d].products[p]
             /\ UNCHANGED <<batch, reply>>
  <2>1. Accept(session[e].link, batch[e]) /\ UNCHANGED <<batch, reply>>
    BY <1>4 DEF Push, PushAnswerLost, Fail
  <2>2. session[e].link \in Shops
    BY <1>4 DEF Push, PushAnswerLost, At, InSession, Outward
  <2>3. ASSUME NEW s \in Shops
        PROVE  rows'[s][p].ver = rows[s][p].ver \/ rows'[s][p].ver = batch[e].products[p]
    BY <2>1, <2>2 DEF Accept, TypeOK
  <2> QED BY <2>1, <2>3
<1>5. ASSUME NEW e \in Devices, Pull(e)
      PROVE  /\ \A d \in Devices :
                    \/ reply'[d].products[p] \in {reply[d].products[p], NoVersion}
                    \/ \E s \in Shops : reply'[d].products[p] = rows[s][p].ver
             /\ UNCHANGED <<batch, rows>>
  BY <1>5 DEF Pull, Answer, TypeOK
<1>6. ASSUME NEW e \in Devices, Reread(e) \/ Record(e) \/ Crash(e)
      PROVE  /\ \A d \in Devices :
                    batch'[d].products[p] \in {batch[d].products[p], NoVersion}
             /\ \A d \in Devices :
                    reply'[d].products[p] \in {reply[d].products[p], NoVersion}
             /\ UNCHANGED rows
  <2>1. /\ batch' = [batch EXCEPT ![e] = NoBatch]
        /\ reply' = reply \/ reply' = [reply EXCEPT ![e] = NoReply]
        /\ UNCHANGED rows
    BY <1>6 DEF Reread, Record, Crash, EndCycle
  <2>2. NoBatch.products[p] = NoVersion /\ NoReply.products[p] = NoVersion
    BY DEF NoBatch, NoReply
  <2> QED BY <2>1, <2>2 DEF TypeOK
<1>7. ASSUME NEW e \in Devices,
             \/ Handlers(e) \/ Begin(e) \/ PushFails(e) \/ ClearPushed(e)
             \/ PullFails(e) \/ ApplyPulled(e) \/ SetCursor(e)
      PROVE  UNCHANGED <<batch, reply, rows>>
  BY <1>7 DEF Handlers, SeedProduct, AddProduct, UpdateProduct, DeleteProduct,
                PutProduct, CreateSale, Restock, AppendEntry, SetSetting, Link, Unlink, Begin, PushFails,
     Fail, ClearPushed, PullFails, ApplyPulled, SetCursor
<1>8. CASE UNCHANGED vars
  BY <1>1, <1>8 DEF vars
<1> QED
  BY <1>1, <1>2, <1>3, <1>4, <1>5, <1>6, <1>7, <1>8 DEF Next, Cycle

(* No row is stamped later than any clock has shown.                        *)
RowsInTime ==
    \A p \in Products :
        /\ \A d \in Devices : /\ products[d][p].at <= clock
                              /\ batch[d].products[p].at <= clock
                              /\ reply[d].products[p].at <= clock
        /\ \A s \in Shops : rows[s][p].ver.at <= clock

TimeInv == TypeOK /\ InSession /\ RowsInTime

LEMMA StepInTime ==
    Skew \in {0, 1} /\ TimeInv /\ [Next]_vars =>
        /\ TimeInv'
        /\ \A d \in Devices : \A p \in Products : products'[d][p].at >= products[d][p].at
<1> SUFFICES ASSUME Skew \in {0, 1}, TimeInv, [Next]_vars
             PROVE  /\ TimeInv'
                    /\ \A d \in Devices : \A p \in Products :
                           products'[d][p].at >= products[d][p].at
  OBVIOUS
<1>1. TypeOK /\ TypeOK' /\ InSession /\ InSession'
  BY StepTyped, StepInSession DEF TimeInv
<1>2. clock \in Nat /\ clock' \in Nat /\ clock <= clock'
  BY <1>1, ClockMoves DEF TypeOK
<1>3. ASSUME NEW v \in Versions, v.at <= clock PROVE v.at <= clock'
  BY <1>2, <1>3 DEF Versions
<1>4. NoVersion \in Versions /\ NoVersion.at <= clock
  BY <1>2, EmptyValues DEF NoVersion
<1>5. ASSUME NEW p \in Products
      PROVE  /\ \A d \in Devices : /\ products[d][p] \in Versions
                                   /\ batch[d].products[p] \in Versions
                                   /\ reply[d].products[p] \in Versions
             /\ \A s \in Shops : rows[s][p].ver \in Versions
  BY <1>1 DEF TypeOK
<1>6. ASSUME NEW p \in Products, NEW d \in Devices
      PROVE  products'[d][p].at <= clock' /\ products'[d][p].at >= products[d][p].at
  <2>1. products[d][p].at \in Nat /\ products[d][p].at <= clock
    BY <1>5 DEF Versions, TimeInv, RowsInTime
  <2>2. reply[d].products[p].at \in Nat /\ reply[d].products[p].at <= clock
    BY <1>5 DEF Versions, TimeInv, RowsInTime
  <2>3. ASSUME NEW t \in Stamps, NEW w, Stamp(t), products'[d][p] = [at |-> t, by |-> w]
        PROVE  products'[d][p].at <= clock' /\ products'[d][p].at >= products[d][p].at
    <3>1. t \in Nat /\ clock <= t /\ t <= clock'
      BY <1>2, <2>3, StampIsLatest
    <3>2. products'[d][p].at = t
      BY <2>3
    <3> QED BY <1>2, <2>1, <3>1, <3>2
  <2> QED
    <3>1. CASE products'[d][p] = products[d][p]
      BY <1>2, <2>1, <3>1
    <3>2. CASE /\ products'[d][p] = reply[d].products[p]
               /\ reply[d].products[p].at > products[d][p].at
      BY <1>2, <2>1, <2>2, <3>2
    <3> QED
      BY <1>1, <2>3, <3>1, <3>2, RowMoves
<1>7. ASSUME NEW p \in Products
      PROVE  /\ \A d \in Devices : /\ batch'[d].products[p].at <= clock'
                                   /\ reply'[d].products[p].at <= clock'
             /\ \A s \in Shops : rows'[s][p].ver.at <= clock'
  BY <1>1, <1>3, <1>4, <1>5, CopiesMove DEF TimeInv, RowsInTime
<1> QED
  BY <1>1, <1>6, <1>7 DEF TimeInv, RowsInTime

(* The initial state is one of them.                                        *)
LEMMA InitInTime == Init => TimeInv
<1> SUFFICES ASSUME Init PROVE TimeInv
  OBVIOUS
<1>1. TypeOK /\ InSession
  BY InitTyped, InitDurable DEF Durable
<1>2. \A p \in Products :
          /\ \A d \in Devices : /\ products[d][p] = NoVersion
                                /\ batch[d].products[p] = NoVersion
                                /\ reply[d].products[p] = NoVersion
          /\ \A s \in Shops : rows[s][p].ver = NoVersion
  BY DEF Init, NoBatch, NoReply
<1>3. NoVersion.at <= clock
  BY DEF Init, NoVersion
<1> QED
  BY <1>1, <1>2, <1>3 DEF TimeInv, RowsInTime

(* If clocks differ by less than a tick, no reply, however late, and no     *)
(* edit takes a row of a till back to an earlier version.                   *)
THEOREM NoRowRegresses ==
    ASSUME Skew \in {0, 1}
    PROVE  Spec => RowsNeverRegress
<1>1. Init => TimeInv
  BY InitInTime
<1>2. TimeInv /\ [Next]_vars => TimeInv'
  BY StepInTime
<1>3. TimeInv /\ [Next]_vars =>
          [\A d \in Devices : \A p \in Products :
              products'[d][p].at >= products[d][p].at]_vars
  BY StepInTime
<1>4. Spec => []TimeInv
  BY <1>1, <1>2, PTL DEF Spec
<1> QED
  BY <1>3, <1>4, PTL DEF Spec, RowsNeverRegress

-----------------------------------------------------------------------------
(* Starter items.  A till puts them on its shelf without a mark, and they   *)
(* stay on that till until an owner edits them: an item that is marked, on  *)
(* its way or in a shop is one that every till holding it has from an owner.*)

Touched(p) ==
    /\ \E d \in Devices : products[d][p].at > 0
    /\ \A d \in Devices : products[d][p].at > 0 => products[d][p].by \in Devices

Known(p) ==
    \/ \E d \in Devices : \/ p \in pending[d]
                          \/ batch[d].products[p].at > 0
                          \/ reply[d].products[p].at > 0
    \/ \E s \in Shops : rows[s][p].ver.at > 0

(* Versions on their way or in a shop were written by an owner.             *)
CopiesOwned(p) ==
    /\ \A d \in Devices :
          /\ batch[d].products[p].at > 0 => batch[d].products[p].by \in Devices
          /\ reply[d].products[p].at > 0 => reply[d].products[p].by \in Devices
    /\ \A s \in Shops : rows[s][p].ver.at > 0 => rows[s][p].ver.by \in Devices

(* Known, written by an owner, or held by two tills: touched.               *)
Owned(p) ==
    /\ Known(p) => Touched(p)
    /\ \A d \in Devices :
          products[d][p].at > 0 /\ products[d][p].by \in Devices => Touched(p)
    /\ \A d, e \in Devices :
          d # e /\ products[d][p].at > 0 /\ products[e][p].at > 0 => Touched(p)
    /\ CopiesOwned(p)

OwnedInv == TypeOK /\ InSession /\ \A p \in Products : Owned(p)

Same(p, d) == products'[d][p] = products[d][p]
NoNewMark(p, d) == p \in pending'[d] => p \in pending[d]

OwnerPuts(p, d) ==
    /\ products'[d][p].at > 0 /\ products'[d][p].by = d
    /\ \A e \in Devices \ {d} : Same(p, e) /\ NoNewMark(p, e)
    /\ products[d][p].at > 0 \/ \A e \in Devices : products[e][p].at = 0
SeedPuts(p, d) ==
    /\ products'[d][p].by = Nobody
    /\ \A e \in Devices : products[e][p].at = 0 /\ NoNewMark(p, e)
    /\ \A e \in Devices \ {d} : Same(p, e)
PullPuts(p, d) ==
    /\ products'[d][p] = reply[d].products[p]
    /\ reply[d].products[p].at > 0
    /\ \A e \in Devices : NoNewMark(p, e)
    /\ \A e \in Devices \ {d} : Same(p, e)

(* What a step may do to one item on all tills and to its marks.            *)
LEMMA ItemMoves ==
    ASSUME TypeOK, [Next]_vars, NEW p \in Products
    PROVE  \/ \A d \in Devices : Same(p, d) /\ NoNewMark(p, d)
           \/ \E d \in Devices : OwnerPuts(p, d) \/ SeedPuts(p, d) \/ PullPuts(p, d)
<1> USE DEF storeVars, linkVars, cycleVars, cloudVars, envVars
<1>1. ASSUME products' = products, \A d \in Devices : pending'[d] \subseteq pending[d]
      PROVE  \A d \in Devices : Same(p, d) /\ NoNewMark(p, d)
  BY <1>1 DEF Same, NoNewMark
<1>2. CASE UNCHANGED vars
  BY <1>1, <1>2 DEF vars
<1> SUFFICES ASSUME NEW d \in Devices, Handlers(d) \/ Cycle(d) \/ Crash(d)
             PROVE  \/ \A e \in Devices : Same(p, e) /\ NoNewMark(p, e)
                    \/ OwnerPuts(p, d) \/ SeedPuts(p, d) \/ PullPuts(p, d)
  BY <1>2 DEF Next
<1>3. ASSUME NEW q \in Products, NEW t \in Stamps, NEW X, PutProduct(d, q, t, X),
             products[d][q].at > 0 \/ FreshProduct(q)
      PROVE  (\A e \in Devices : Same(p, e) /\ NoNewMark(p, e)) \/ OwnerPuts(p, d)
  BY <1>3 DEF PutProduct, FreshProduct, Same, NoNewMark, OwnerPuts, Stamps, TypeOK
<1>4. ASSUME NEW q \in Products, SeedProduct(d, q)
      PROVE  (\A e \in Devices : Same(p, e) /\ NoNewMark(p, e)) \/ SeedPuts(p, d)
  BY <1>4 DEF SeedProduct, FreshProduct, Same, NoNewMark, SeedPuts, TypeOK
<1>5. CASE Handlers(d)
  <2>1. ASSUME NEW q \in Products,
               AddProduct(d, q) \/ UpdateProduct(d, q) \/ DeleteProduct(d, q)
        PROVE  (\A e \in Devices : Same(p, e) /\ NoNewMark(p, e)) \/ OwnerPuts(p, d)
    BY <1>3, <2>1 DEF AddProduct, UpdateProduct, DeleteProduct
  <2>2. CASE \/ \E x \in Sales : CreateSale(d, x)
             \/ \E x \in StockEvents : Restock(d, x)
             \/ \E k \in Keys : SetSetting(d, k)
             \/ \E s \in Shops : Link(d, s)
             \/ Unlink(d)
    <3>1. UNCHANGED <<products, pending>>
      BY <2>2 DEF CreateSale, Restock, AppendEntry, SetSetting, Link, Unlink
    <3> QED
      BY <1>1, <3>1
  <2> QED
    BY <1>4, <1>5, <2>1, <2>2 DEF Handlers
<1>6. CASE ApplyPulled(d)
  <2>1. UNCHANGED pending /\ \A e \in Devices \ {d} : products'[e] = products[e]
    BY <1>6 DEF ApplyPulled, TypeOK
  <2>2. \/ products'[d][p] = products[d][p]
        \/ /\ products'[d][p] = reply[d].products[p]
           /\ reply[d].products[p].at > products[d][p].at
    BY <1>6 DEF ApplyPulled, LaterRow, Newer, TypeOK
  <2>3. products[d][p].at \in Nat /\ reply[d].products[p].at \in Nat
    BY DEF TypeOK, Versions
  <2> QED
    BY <2>1, <2>2, <2>3 DEF Same, NoNewMark, PullPuts
<1>7. CASE ClearPushed(d)
  <2>1. UNCHANGED products
    BY <1>7 DEF ClearPushed
  <2>2. \A e \in Devices : pending'[e] \subseteq pending[e]
    BY <1>7 DEF ClearPushed, ClearMarks, TypeOK
  <2> QED
    BY <1>1, <2>1, <2>2
<1>8. CASE (Cycle(d) \/ Crash(d)) /\ ~ApplyPulled(d) /\ ~ClearPushed(d)
  <2>1. UNCHANGED <<products, pending>>
    BY <1>8 DEF Cycle, Begin, PendingProducts, PendingSales, PendingStockEvents,
       PendingEntries, PendingSettings, Push, PushFails, PushAnswerLost, Fail,
       Reread, Pull, PullFails, SetCursor, Record, Crash, EndCycle
  <2> QED
    BY <1>1, <2>1
<1> QED
  BY <1>5, <1>6, <1>7, <1>8

LEMMA StepOwned == OwnedInv /\ [Next]_vars => OwnedInv'
<1> SUFFICES ASSUME OwnedInv, [Next]_vars PROVE OwnedInv'
  OBVIOUS
<1>1. TypeOK /\ TypeOK' /\ InSession /\ InSession'
  BY StepTyped, StepInSession DEF OwnedInv
<1> SUFFICES ASSUME NEW p \in Products PROVE Owned(p)'
  BY <1>1 DEF OwnedInv
<1>2. Owned(p)
  BY DEF OwnedInv
<1>3. ~(NoVersion.at > 0) /\ Nobody \notin Devices
  BY ConstantsAssumption DEF NoVersion
<1>4. ASSUME NEW d \in Devices, OwnerPuts(p, d) PROVE Touched(p)'
  <2>1. products[d][p].at > 0 => \A e \in Devices \ {d} :
            products[e][p].at > 0 => products[e][p].by \in Devices
    BY <1>2 DEF Owned, Touched
  <2>2. ~(0 > 0)
    OBVIOUS
  <2>3. \A e \in Devices \ {d} : products[e][p].at > 0 => products[e][p].by \in Devices
    BY <1>4, <2>1, <2>2 DEF OwnerPuts
  <2> QED
    BY <1>4, <2>3 DEF OwnerPuts, Same, Touched
<1>5. ASSUME NEW d \in Devices, PullPuts(p, d) PROVE Touched(p) /\ Touched(p)'
  <2>1. Touched(p) /\ reply[d].products[p].by \in Devices
    BY <1>2, <1>5 DEF PullPuts, Owned, Known, CopiesOwned
  <2> QED
    BY <1>5, <2>1 DEF PullPuts, Same, Touched
<1>6. ASSUME NEW d \in Devices, SeedPuts(p, d)
      PROVE  /\ ~Touched(p) /\ ~Known(p)
             /\ \A e \in Devices : products'[e][p].at > 0 => e = d
             /\ products'[d][p].by \notin Devices
  <2>1. \A e \in Devices : ~(products[e][p].at > 0)
    BY <1>6 DEF SeedPuts
  <2>2. ~Touched(p)
    BY <2>1 DEF Touched
  <2> QED
    BY <1>2, <1>3, <1>6, <2>1, <2>2 DEF SeedPuts, Same, Owned
<1>7. Touched(p) => Touched(p)'
  <2>1. CASE \A d \in Devices : Same(p, d)
    BY <2>1 DEF Same, Touched
  <2> QED
    BY <1>1, <1>4, <1>5, <1>6, <2>1, ItemMoves
<1>8. CopiesOwned(p)' /\ (Known(p)' => Known(p) \/ Touched(p)')
  <2>1. \A d \in Devices : p \in pending'[d] => Known(p) \/ Touched(p)'
    <3>1. ASSUME NEW d \in Devices, p \in pending[d] PROVE Known(p)
      BY <3>1 DEF Known
    <3> QED
      BY <1>1, <1>4, <3>1, ItemMoves DEF NoNewMark, SeedPuts, PullPuts
  <2>2. ASSUME NEW d \in Devices, batch'[d].products[p].at > 0
        PROVE  Known(p) /\ batch'[d].products[p].by \in Devices
    <3>1. CASE batch'[d].products[p] = batch[d].products[p]
      BY <1>2, <2>2, <3>1 DEF Known, Owned, CopiesOwned
    <3>2. CASE p \in pending[d] /\ batch'[d].products[p] = products[d][p]
      BY <1>2, <2>2, <3>2 DEF Known, Owned, Touched
    <3> QED
      BY <1>1, <1>3, <2>2, <3>1, <3>2, CopiesMove
  <2>3. ASSUME NEW d \in Devices, reply'[d].products[p].at > 0
        PROVE  Known(p) /\ reply'[d].products[p].by \in Devices
    <3>1. CASE reply'[d].products[p] = reply[d].products[p]
      BY <1>2, <2>3, <3>1 DEF Known, Owned, CopiesOwned
    <3>2. ASSUME NEW s \in Shops, reply'[d].products[p] = rows[s][p].ver
          PROVE  Known(p) /\ reply'[d].products[p].by \in Devices
      BY <1>2, <2>3, <3>2 DEF Known, Owned, CopiesOwned
    <3> QED
      BY <1>1, <1>3, <2>3, <3>1, <3>2, CopiesMove
  <2>4. ASSUME NEW s \in Shops, rows'[s][p].ver.at > 0
        PROVE  Known(p) /\ rows'[s][p].ver.by \in Devices
    <3>1. CASE rows'[s][p].ver = rows[s][p].ver
      BY <1>2, <2>4, <3>1 DEF Known, Owned, CopiesOwned
    <3>2. ASSUME NEW d \in Devices, rows'[s][p].ver = batch[d].products[p]
          PROVE  Known(p) /\ rows'[s][p].ver.by \in Devices
      BY <1>2, <2>4, <3>2 DEF Known, Owned, CopiesOwned
    <3> QED
      BY <1>1, <3>1, <3>2, CopiesMove
  <2> QED
    BY <2>1, <2>2, <2>3, <2>4 DEF Known, CopiesOwned
<1>9. Known(p)' => Touched(p)'
  BY <1>2, <1>7, <1>8 DEF Owned
<1>10. ASSUME NEW d \in Devices, products'[d][p].at > 0, products'[d][p].by \in Devices
       PROVE  Touched(p)'
  <2>1. CASE Same(p, d)
    BY <1>2, <1>7, <1>10, <2>1 DEF Same, Owned
  <2>2. ASSUME NEW e \in Devices, SeedPuts(p, e) PROVE FALSE
    BY <1>6, <1>10, <2>2
  <2> QED
    BY <1>1, <1>4, <1>5, <2>1, <2>2, ItemMoves
<1>11. ASSUME NEW d \in Devices, NEW e \in Devices, d # e,
              products'[d][p].at > 0, products'[e][p].at > 0
       PROVE  Touched(p)'
  <2>1. CASE Same(p, d) /\ Same(p, e)
    BY <1>2, <1>7, <1>11, <2>1 DEF Same, Owned
  <2>2. ASSUME NEW f \in Devices, SeedPuts(p, f) PROVE FALSE
    BY <1>6, <1>11, <2>2
  <2> QED
    BY <1>1, <1>4, <1>5, <2>1, <2>2, ItemMoves
<1> QED
  BY <1>8, <1>9, <1>10, <1>11 DEF Owned

(* A row that an owner wrote is marked on its till or known to a shop, and  *)
(* a starter item that no owner edited is neither, through pushes, pulls,   *)
(* failures, crashes and relinks of any number of tills.                    *)
THEOREM NoItemIsEverLost == Spec => []ItemNotLost
<1>1. Init => OwnedInv
  <2> SUFFICES ASSUME Init PROVE OwnedInv
    OBVIOUS
  <2>1. TypeOK /\ InSession
    BY InitTyped, InitDurable DEF Durable
  <2>2. ASSUME NEW p \in Products
        PROVE  /\ \A d \in Devices : /\ products[d][p] = NoVersion
                                     /\ batch[d].products[p] = NoVersion
                                     /\ reply[d].products[p] = NoVersion
                                     /\ p \notin pending[d]
               /\ \A s \in Shops : rows[s][p].ver = NoVersion
    BY DEF Init, NoBatch, NoReply
  <2>3. ~(NoVersion.at > 0)
    BY DEF NoVersion
  <2> QED
    BY <2>1, <2>2, <2>3 DEF OwnedInv, Owned, Known, CopiesOwned
<1>2. Spec => []OwnedInv
  BY <1>1, StepOwned, PTL DEF Spec
<1>3. Spec => []Durable
  BY InitDurable, StepDurable, PTL DEF Spec
<1>4. OwnedInv /\ Durable => ItemNotLost
  <2> SUFFICES ASSUME OwnedInv, Durable, NEW d \in Devices, NEW p \in Products,
                      products[d][p].at > 0
               PROVE  products[d][p].by \in Devices <=> p \in pending[d] \/ UploadedItem(p)
    BY DEF ItemNotLost
  <2>1. products[d][p].by \in Devices => p \in pending[d] \/ UploadedItem(p)
    BY ConstantsAssumption DEF Durable, ItemKept
  <2>2. p \in pending[d] \/ UploadedItem(p) => products[d][p].by \in Devices
    BY DEF OwnedInv, Owned, Known, Touched, UploadedItem
  <2> QED
    BY <2>1, <2>2
<1> QED
  BY <1>2, <1>3, <1>4, PTL

-----------------------------------------------------------------------------
(* The pull cursor, for tills that only ever know one shop.  (With a second *)
(* shop the cursor of the one is used on the other: Link keeps it, and a    *)
(* cycle in flight writes it after Unlink cleared it.)                      *)

(* What a step may do to the numbers of a shop: it gives the next one.      *)
NextOrSame(s) ==
    /\ seq'[s] \in {seq[s], seq[s] + 1}
    /\ \A x \in Entries :
          \/ ledger'[s][x] = ledger[s][x]
          \/ ledger'[s][x] = seq[s] + 1 /\ seq'[s] = seq[s] + 1
    /\ \A p \in Products :
          \/ rows'[s][p] = rows[s][p]
          \/ rows'[s][p].seq = seq[s] + 1 /\ seq'[s] = seq[s] + 1
    /\ \/ shopSettings'[s] = shopSettings[s]
       \/ /\ shopSettings'[s].seq = seq[s] + 1 /\ seq'[s] = seq[s] + 1
          /\ shopSettings'[s].ver.at > 0

LEMMA AcceptNumbers ==
    ASSUME TypeOK, NEW s \in Shops, NEW r \in Shops, NEW b \in Batches, Accept(r, b)
    PROVE  NextOrSame(s)
<1>1. CASE s = r
  <2>1. seq'[s] = seq[s] \/ seq'[s] = seq[s] + 1
    BY <1>1 DEF Accept, TypeOK
  <2>2. ASSUME NEW x \in Entries
        PROVE  \/ ledger'[s][x] = ledger[s][x]
               \/ ledger'[s][x] = seq[s] + 1 /\ seq'[s] = seq[s] + 1
    BY <1>1 DEF Accept, TypeOK
  <2>3. ASSUME NEW p \in Products
        PROVE  \/ rows'[s][p] = rows[s][p]
               \/ rows'[s][p].seq = seq[s] + 1 /\ seq'[s] = seq[s] + 1
    BY <1>1 DEF Accept, TypeOK
  <2>4. b.settings.at \in Nat /\ shopSettings[s].ver.at \in Nat
    BY DEF TypeOK, Batches, Payloads
  <2>5. \/ shopSettings'[s] = shopSettings[s]
        \/ /\ shopSettings'[s].seq = seq[s] + 1 /\ seq'[s] = seq[s] + 1
           /\ shopSettings'[s].ver.at > 0
    BY <1>1, <2>4 DEF Accept, TypeOK
  <2> QED
    BY <2>1, <2>2, <2>3, <2>5 DEF NextOrSame
<1>2. CASE s # r
  BY <1>2 DEF Accept, TypeOK, NextOrSame
<1> QED
  BY <1>1, <1>2

LEMMA NumbersMove ==
    ASSUME TypeOK, InSession, [Next]_vars, NEW s \in Shops
    PROVE  NextOrSame(s)
<1> USE DEF storeVars, linkVars, cycleVars, cloudVars, envVars
<1>1. CASE UNCHANGED cloudVars
  BY <1>1 DEF NextOrSame
<1>2. ASSUME NEW d \in Devices, Push(d) \/ PushAnswerLost(d)
      PROVE  /\ session[d].link \in Shops
             /\ Accept(session[d].link, batch[d])
             /\ batch[d] \in Batches
  BY <1>2 DEF Push, PushAnswerLost, At, InSession, Outward, TypeOK, Batches
<1>3. CASE \E d \in Devices : Push(d) \/ PushAnswerLost(d)
  BY <1>2, <1>3, AcceptNumbers
<1>4. CASE ~ \E d \in Devices : Push(d) \/ PushAnswerLost(d)
  <2>1. CASE UNCHANGED vars
    BY <2>1, <1>1 DEF vars
  <2>2. ASSUME NEW d \in Devices, Handlers(d)
        PROVE  UNCHANGED cloudVars
    BY <2>2 DEF Handlers, SeedProduct, AddProduct, UpdateProduct, DeleteProduct,
                PutProduct, CreateSale, Restock, AppendEntry, SetSetting, Link, Unlink
  <2>3. ASSUME NEW d \in Devices, Cycle(d) \/ Crash(d)
        PROVE  UNCHANGED cloudVars
    BY <1>4, <2>3 DEF Cycle, Begin, PendingProducts, PendingSales,
         PendingStockEvents, PendingEntries, PendingSettings, PushFails, Fail,
         ClearPushed, Reread, Pull, PullFails, ApplyPulled, SetCursor, Record,
         Crash, EndCycle
  <2> QED
    BY <1>1, <2>1, <2>2, <2>3 DEF Next
<1> QED
  BY <1>3, <1>4

(* What a step may do to the cursor of a till, and to the copies of it in   *)
(* its cycle; and where a reply that waits to be applied, or whose cursor   *)
(* waits to be stored, comes from.                                          *)
LEMMA CursorsMove ==
    ASSUME TypeOK, [Next]_vars, NEW d \in Devices
    PROVE  /\ \/ cursor'[d] \in {cursor[d], 0}
              \/ pc[d] = "cursor" /\ cursor'[d] = reply[d].cursor
           /\ \/ session'[d] \in {session[d], NoLink}
              \/ session'[d].cursor = cursor[d] /\ pc'[d] \in {"products", "pull"}
           /\ pc'[d] = "pull" =>
                 \/ pc[d] = "pull" /\ session'[d] = session[d]
                 \/ pc[d] = "reread" /\ session'[d].cursor = cursor[d]
           /\ \/ reply'[d] \in {reply[d], NoReply}
              \/ Pull(d)
           /\ pc'[d] = "apply" => \/ pc[d] = "apply" /\ reply'[d] = reply[d]
                                  \/ Pull(d)
           /\ pc'[d] = "cursor" => \/ pc[d] = "cursor" /\ reply'[d] = reply[d]
                                   \/ ApplyPulled(d)
           /\ entries[d] \subseteq entries'[d]
<1> USE DEF storeVars, linkVars, cycleVars, cloudVars, envVars
<1> DEFINE Goal ==
           /\ \/ cursor'[d] \in {cursor[d], 0}
              \/ pc[d] = "cursor" /\ cursor'[d] = reply[d].cursor
           /\ \/ session'[d] \in {session[d], NoLink}
              \/ session'[d].cursor = cursor[d] /\ pc'[d] \in {"products", "pull"}
           /\ pc'[d] = "pull" =>
                 \/ pc[d] = "pull" /\ session'[d] = session[d]
                 \/ pc[d] = "reread" /\ session'[d].cursor = cursor[d]
           /\ \/ reply'[d] \in {reply[d], NoReply}
              \/ Pull(d)
           /\ pc'[d] = "apply" => \/ pc[d] = "apply" /\ reply'[d] = reply[d]
                                  \/ Pull(d)
           /\ pc'[d] = "cursor" => \/ pc[d] = "cursor" /\ reply'[d] = reply[d]
                                   \/ ApplyPulled(d)
           /\ entries[d] \subseteq entries'[d]
<1>1. CASE UNCHANGED vars
  BY <1>1 DEF vars
<1> SUFFICES ASSUME NEW e \in Devices, Handlers(e) \/ Cycle(e) \/ Crash(e)
             PROVE  Goal
  BY <1>1 DEF Next
<1>2. CASE Handlers(e)
  <2>1. UNCHANGED <<pc, session, reply>>
    BY <1>2 DEF Handlers, SeedProduct, AddProduct, UpdateProduct, DeleteProduct,
                PutProduct, CreateSale, Restock, AppendEntry, SetSetting, Link, Unlink
  <2>2. cursor' = cursor \/ cursor' = [cursor EXCEPT ![e] = 0]
    BY <1>2 DEF Handlers, SeedProduct, AddProduct, UpdateProduct, DeleteProduct,
                PutProduct, CreateSale, Restock, AppendEntry, SetSetting, Link, Unlink
  <2>3. \/ entries' = entries
        \/ \E X : entries' = [entries EXCEPT ![e] = @ \cup X]
    BY <1>2 DEF Handlers, SeedProduct, AddProduct, UpdateProduct, DeleteProduct,
                PutProduct, CreateSale, Restock, AppendEntry, SetSetting, Link, Unlink
  <2>4. entries[d] \subseteq entries'[d]
    BY <2>3, ZenonT(30) DEF TypeOK
  <2> QED
    BY <2>1, <2>2, <2>4 DEF TypeOK
<1>3. CASE Begin(e) \/ Reread(e)
  BY <1>3 DEF Begin, Reread, Goto, At, TypeOK
<1>4. CASE \/ PendingProducts(e) \/ PendingSales(e) \/ PendingStockEvents(e)
           \/ PendingSettings(e) \/ Push(e) \/ PushFails(e) \/ PushAnswerLost(e)
           \/ ClearPushed(e) \/ PullFails(e)
  <2>1. UNCHANGED <<entries, cursor, session, reply>>
    BY <1>4 DEF PendingProducts, PendingSales, PendingStockEvents, PendingEntries,
                PendingSettings, Push, PushFails, PushAnswerLost, Fail, ClearPushed,
                PullFails
  <2>2. \E phase \in Phases \ {"pull", "apply", "cursor"} : pc' = [pc EXCEPT ![e] = phase]
    BY <1>4 DEF PendingProducts, PendingSales, PendingStockEvents, PendingEntries,
                PendingSettings, Push, PushFails, PushAnswerLost, Fail, ClearPushed,
                PullFails, Goto, Phases
  <2> QED
    BY <2>1, <2>2 DEF TypeOK
<1>5. CASE Pull(e)
  BY <1>5 DEF Pull, Goto, TypeOK
<1>6. CASE ApplyPulled(e)
  BY <1>6 DEF ApplyPulled, Insert, Goto, TypeOK
<1>7. CASE SetCursor(e)
  BY <1>7 DEF SetCursor, Goto, At, TypeOK
<1>8. CASE Record(e) \/ Crash(e)
  BY <1>8 DEF Record, Crash, EndCycle, TypeOK
<1> QED
  BY <1>2, <1>3, <1>4, <1>5, <1>6, <1>7, <1>8 DEF Cycle
(* Nothing carries a number above the shop's highest one.                   *)
Numbered(s) ==
    /\ \A x \in Entries : ledger[s][x] <= seq[s]
    /\ \A p \in Products : rows[s][p].seq <= seq[s]
    /\ shopSettings[s].seq <= seq[s]
    /\ \A d \in Devices : /\ cursor[d] <= seq[s]
                          /\ session[d].cursor <= seq[s]
                          /\ reply[d].cursor <= seq[s]

(* Till d has what shop s numbered up to n, or its reply brings it.         *)
HasUpTo(d, s, n) ==
    /\ \A x \in Entries : ledger[s][x] \in 1..n => x \in entries[d]
    /\ \A p \in Products :
          rows[s][p].seq \in 1..n => products[d][p].at >= rows[s][p].ver.at
GetsUpTo(d, s, n) ==
    /\ \A x \in Entries :
          ledger[s][x] \in 1..n => x \in entries[d] \cup reply[d].entries
    /\ \A p \in Products :
          rows[s][p].seq \in 1..n => \/ products[d][p].at >= rows[s][p].ver.at
                                     \/ reply[d].products[p].at >= rows[s][p].ver.at

(* What the cursor promises is true of the copy of it a pull will send, of  *)
(* the reply to that pull, and of the cursor that is stored in the end.     *)
SkipsNothing(d, s) ==
    /\ HasUpTo(d, s, cursor[d])
    /\ HasUpTo(d, s, session[d].cursor)
    /\ pc[d] = "apply" => GetsUpTo(d, s, reply[d].cursor)
    /\ pc[d] = "cursor" => HasUpTo(d, s, reply[d].cursor)

CursorInv(s) ==
    /\ TimeInv
    /\ Numbered(s)
    /\ \A d \in Devices : SkipsNothing(d, s)

LEMMA StepNumbered ==
    ASSUME TypeOK, TypeOK', InSession, [Next]_vars, NEW s \in Shops, Shops = {s},
           Numbered(s)
    PROVE  Numbered(s)'
<1>1. NextOrSame(s)
  BY NumbersMove
<1>2. seq[s] \in Nat /\ seq[s] <= seq'[s]
  BY <1>1 DEF NextOrSame, TypeOK
<1>3. ASSUME NEW x \in Entries PROVE ledger'[s][x] <= seq'[s]
  BY <1>1, <1>2 DEF NextOrSame, Numbered, TypeOK
<1>4. ASSUME NEW p \in Products PROVE rows'[s][p].seq <= seq'[s]
  BY <1>1, <1>2 DEF NextOrSame, Numbered, TypeOK
<1>5. shopSettings'[s].seq <= seq'[s]
  BY <1>1, <1>2 DEF NextOrSame, Numbered, TypeOK
<1>6. ASSUME NEW d \in Devices
      PROVE  /\ cursor'[d] <= seq'[s]
             /\ session'[d].cursor <= seq'[s]
             /\ reply'[d].cursor <= seq'[s]
  <2>1. /\ cursor[d] \in Nat /\ session[d].cursor \in Nat /\ reply[d].cursor \in Nat
        /\ cursor[d] <= seq[s] /\ session[d].cursor <= seq[s] /\ reply[d].cursor <= seq[s]
    BY DEF TypeOK, Numbered
  <2>2. NoLink.cursor = 0 /\ NoReply.cursor = 0
    BY DEF NoLink, NoReply
  <2>3. Pull(d) => reply'[d].cursor = seq[s]
    BY DEF Pull, Answer, TypeOK
  <2>4. cursor'[d] \in {cursor[d], 0, reply[d].cursor}
    BY CursorsMove
  <2>5. session'[d].cursor \in {session[d].cursor, 0, cursor[d]}
    BY <2>2, CursorsMove
  <2>6. reply'[d].cursor \in {reply[d].cursor, 0, seq[s]}
    BY <2>2, <2>3, CursorsMove
  <2>7. seq'[s] \in Nat
    BY DEF TypeOK
  <2> QED
    BY <1>2, <2>1, <2>4, <2>5, <2>6, <2>7
<1> QED
  BY <1>3, <1>4, <1>5, <1>6 DEF Numbered

(* What a till has, it keeps; and what is numbered anew lies above.         *)
LEMMA StillUpTo ==
    ASSUME TypeOK, TypeOK', InSession, [Next]_vars, NEW s \in Shops, NEW d \in Devices,
           \A p \in Products : products'[d][p].at >= products[d][p].at,
           NEW n \in Nat, n <= seq[s], HasUpTo(d, s, n),
           NEW m \in Nat, m = n
    PROVE  /\ \A x \in Entries : ledger'[s][x] \in 1..m => x \in entries'[d]
           /\ \A p \in Products :
                 rows'[s][p].seq \in 1..m => products'[d][p].at >= rows'[s][p].ver.at
<1>1. NextOrSame(s) /\ entries[d] \subseteq entries'[d]
  BY NumbersMove, CursorsMove
<1>2. seq[s] \in Nat /\ ~(seq[s] + 1 \in 1..n)
  BY DEF TypeOK
<1>3. ASSUME NEW x \in Entries, ledger'[s][x] \in 1..n PROVE x \in entries'[d]
  BY <1>1, <1>2, <1>3 DEF NextOrSame, HasUpTo
<1>4. ASSUME NEW p \in Products, rows'[s][p].seq \in 1..n
      PROVE  products'[d][p].at >= rows'[s][p].ver.at
  <2>1. rows'[s][p] = rows[s][p]
    BY <1>1, <1>2, <1>4 DEF NextOrSame
  <2>2. products[d][p].at >= rows[s][p].ver.at
    BY <1>4, <2>1 DEF HasUpTo
  <2>3. /\ products[d][p].at \in Nat /\ products'[d][p].at \in Nat
        /\ rows[s][p].ver.at \in Nat
    BY DEF TypeOK, Versions
  <2> QED
    BY <2>1, <2>2, <2>3
<1> QED
  BY <1>3, <1>4

LEMMA StepSkipsNothing ==
    ASSUME NEW s \in Shops, Shops = {s}, Skew \in {0, 1}
    PROVE  CursorInv(s) /\ [Next]_vars => CursorInv(s)'
<1> SUFFICES ASSUME CursorInv(s), [Next]_vars PROVE CursorInv(s)'
  OBVIOUS
<1>1. /\ TypeOK /\ TypeOK' /\ InSession
      /\ TimeInv'
      /\ \A d \in Devices : \A p \in Products : products'[d][p].at >= products[d][p].at
      /\ Numbered(s)
  BY StepInTime, StepTyped DEF CursorInv, TimeInv
<1>2. Numbered(s)'
  BY <1>1, StepNumbered
<1> SUFFICES ASSUME NEW d \in Devices PROVE SkipsNothing(d, s)'
  BY <1>1, <1>2 DEF CursorInv
<1>3. SkipsNothing(d, s)
  BY DEF CursorInv
<1>4. /\ cursor[d] \in Nat /\ session[d].cursor \in Nat /\ reply[d].cursor \in Nat
      /\ cursor[d] <= seq[s] /\ session[d].cursor <= seq[s] /\ reply[d].cursor <= seq[s]
  BY <1>1 DEF TypeOK, Numbered
<1>5. ASSUME NEW n \in Nat, n <= seq[s], HasUpTo(d, s, n)
      PROVE  /\ \A x \in Entries : ledger'[s][x] \in 1..n => x \in entries'[d]
             /\ \A p \in Products :
                   rows'[s][p].seq \in 1..n => products'[d][p].at >= rows'[s][p].ver.at
  BY <1>1, <1>5, StillUpTo
<1>6. /\ \A x \in Entries : ledger'[s][x] \in 1..0 => x \in entries'[d]
      /\ \A p \in Products :
            rows'[s][p].seq \in 1..0 => products'[d][p].at >= rows'[s][p].ver.at
  OBVIOUS
<1>7. HasUpTo(d, s, cursor[d])'
  <2>1. CASE cursor'[d] \in {cursor[d], 0}
    BY <1>3, <1>4, <1>5, <1>6, <2>1 DEF HasUpTo, SkipsNothing
  <2>2. CASE pc[d] = "cursor" /\ cursor'[d] = reply[d].cursor
    BY <1>3, <1>4, <1>5, <2>2 DEF HasUpTo, SkipsNothing
  <2> QED
    BY <1>1, <2>1, <2>2, CursorsMove
<1>8. HasUpTo(d, s, session[d].cursor)'
  <2>1. CASE session'[d] = NoLink
    <3>1. session'[d].cursor = 0
      BY <2>1 DEF NoLink
    <3> QED
      BY <1>6, <3>1 DEF HasUpTo
  <2>2. CASE session'[d] = session[d]
    BY <1>3, <1>4, <1>5, <2>2 DEF HasUpTo, SkipsNothing
  <2>3. CASE session'[d].cursor = cursor[d]
    BY <1>3, <1>4, <1>5, <2>3 DEF HasUpTo, SkipsNothing
  <2> QED
    BY <1>1, <2>1, <2>2, <2>3, CursorsMove
<1>9. ASSUME pc'[d] = "apply" PROVE GetsUpTo(d, s, reply[d].cursor)'
  <2>1. CASE pc[d] = "apply" /\ reply'[d] = reply[d]
    <3>1. NextOrSame(s) /\ entries[d] \subseteq entries'[d]
      BY <1>1, NumbersMove, CursorsMove
    <3>2. seq[s] \in Nat /\ ~(seq[s] + 1 \in 1..reply[d].cursor)
      BY <1>1, <1>4 DEF TypeOK
    <3>3. GetsUpTo(d, s, reply[d].cursor)
      BY <1>3, <2>1 DEF SkipsNothing
    <3>4. ASSUME NEW x \in Entries, ledger'[s][x] \in 1..reply[d].cursor
          PROVE  x \in entries'[d] \cup reply[d].entries
      BY <3>1, <3>2, <3>3, <3>4 DEF NextOrSame, GetsUpTo
    <3>5. ASSUME NEW p \in Products, rows'[s][p].seq \in 1..reply[d].cursor
          PROVE  \/ products'[d][p].at >= rows'[s][p].ver.at
                 \/ reply[d].products[p].at >= rows'[s][p].ver.at
      <4>1. rows'[s][p] = rows[s][p]
        BY <3>1, <3>2, <3>5 DEF NextOrSame
      <4>2. \/ products[d][p].at >= rows[s][p].ver.at
            \/ reply[d].products[p].at >= rows[s][p].ver.at
        BY <3>3, <3>5, <4>1 DEF GetsUpTo
      <4>3. /\ products[d][p].at \in Nat /\ products'[d][p].at \in Nat
            /\ rows[s][p].ver.at \in Nat /\ products'[d][p].at >= products[d][p].at
        BY <1>1 DEF TypeOK, Versions
      <4> QED
        BY <4>1, <4>2, <4>3
    <3> QED
      BY <2>1, <3>4, <3>5 DEF GetsUpTo
  <2>2. CASE Pull(d)
    <3>1. session[d].link = s
      BY <1>1, <2>2 DEF Pull, TypeOK
    <3>2. /\ reply'[d] = Answer(s, session[d].cursor)
          /\ UNCHANGED <<products, entries, rows, ledger>>
      BY <1>1, <2>2, <3>1 DEF Pull, TypeOK, storeVars, cloudVars
    <3>3. HasUpTo(d, s, session[d].cursor)
      BY <1>3 DEF SkipsNothing
    <3>4. ASSUME NEW x \in Entries, ledger[s][x] > 0
          PROVE  x \in entries[d] \cup reply'[d].entries
      <4>1. ledger[s][x] \in Nat
        BY <1>1 DEF TypeOK
      <4>2. CASE ledger[s][x] > session[d].cursor
        BY <3>2, <4>2 DEF Answer
      <4>3. CASE ~(ledger[s][x] > session[d].cursor)
        BY <1>4, <3>3, <3>4, <4>1, <4>3 DEF HasUpTo
      <4> QED
        BY <4>2, <4>3
    <3>5. ASSUME NEW p \in Products, rows[s][p].seq > 0
          PROVE  \/ products[d][p].at >= rows[s][p].ver.at
                 \/ reply'[d].products[p].at >= rows[s][p].ver.at
      <4>1. rows[s][p].seq \in Nat /\ rows[s][p].ver.at \in Nat
        BY <1>1 DEF TypeOK, Versions
      <4>2. CASE rows[s][p].seq > session[d].cursor
        BY <3>2, <4>1, <4>2 DEF Answer
      <4>3. CASE ~(rows[s][p].seq > session[d].cursor)
        BY <1>4, <3>3, <3>5, <4>1, <4>3 DEF HasUpTo
      <4> QED
        BY <4>2, <4>3
    <3>6. \A n : \A i \in 1..n : i > 0
      OBVIOUS
    <3> QED
      BY <3>2, <3>4, <3>5, <3>6 DEF GetsUpTo
  <2> QED
    BY <1>1, <1>9, <2>1, <2>2, CursorsMove
<1>10. ASSUME pc'[d] = "cursor" PROVE HasUpTo(d, s, reply[d].cursor)'
  <2>1. CASE pc[d] = "cursor" /\ reply'[d] = reply[d]
    BY <1>3, <1>4, <1>5, <2>1 DEF HasUpTo, SkipsNothing
  <2>2. CASE ApplyPulled(d)
    <3>1. /\ pc[d] = "apply"
          /\ UNCHANGED <<reply, rows, ledger>>
          /\ entries'[d] = entries[d] \cup reply[d].entries
          /\ \A p \in Products :
                products'[d][p] = LaterRow(products[d][p], reply[d].products[p])
      BY <1>1, <2>2 DEF ApplyPulled, At, Insert, TypeOK, cloudVars
    <3>2. GetsUpTo(d, s, reply[d].cursor)
      BY <1>3, <3>1 DEF SkipsNothing
    <3>3. ASSUME NEW p \in Products, rows[s][p].seq \in 1..reply[d].cursor
          PROVE  products'[d][p].at >= rows[s][p].ver.at
      <4>1. \/ products[d][p].at >= rows[s][p].ver.at
            \/ reply[d].products[p].at >= rows[s][p].ver.at
        BY <3>2, <3>3 DEF GetsUpTo
      <4>2. /\ products[d][p].at \in Nat /\ rows[s][p].ver.at \in Nat
            /\ reply[d].products[p].at \in Nat
        BY <1>1 DEF TypeOK, Versions
      <4> QED
        BY <3>1, <4>1, <4>2 DEF LaterRow, Newer
    <3> QED
      BY <3>1, <3>2, <3>3 DEF HasUpTo, GetsUpTo
  <2> QED
    BY <1>1, <1>10, <2>1, <2>2, CursorsMove
<1> QED
  BY <1>7, <1>8, <1>9, <1>10 DEF SkipsNothing

(* A till with one shop has all its shop numbered up to the till's cursor,  *)
(* whatever is lost, repeated, unlinked or crashed, if no till's clock      *)
(* reads below what another till has stamped.                               *)
THEOREM NothingIsSkipped ==
    ASSUME NEW s \in Shops, Shops = {s}, Skew \in {0, 1}
    PROVE  Spec => []CursorNeverSkips
<1>1. Init => CursorInv(s)
  <2> SUFFICES ASSUME Init PROVE CursorInv(s)
    OBVIOUS
  <2>1. TimeInv
    BY InitInTime
  <2>2. /\ \A x \in Entries : ledger[s][x] = 0
        /\ \A p \in Products : rows[s][p].seq = 0
        /\ shopSettings[s].seq = 0 /\ seq[s] = 0
        /\ \A d \in Devices : /\ cursor[d] = 0 /\ session[d].cursor = 0
                              /\ reply[d].cursor = 0 /\ pc[d] = "idle"
    BY DEF Init, NoLink, NoReply
  <2> QED
    BY <2>1, <2>2 DEF CursorInv, Numbered, SkipsNothing, HasUpTo
<1>2. CursorInv(s) /\ [Next]_vars => CursorInv(s)'
  BY StepSkipsNothing
<1>3. CursorInv(s) => CursorNeverSkips
  BY DEF CursorInv, SkipsNothing, HasUpTo, CursorNeverSkips
<1> QED
  BY <1>1, <1>2, <1>3, PTL DEF Spec

-----------------------------------------------------------------------------
(* The settings of a till with one shop, if every stamp is later than all   *)
(* earlier ones.                                                            *)

Settled(d, s, n) ==
    shopSettings[s].seq \in 1..n =>
        \/ settings[d] = shopSettings[s].ver.map
        \/ due[d] > shopSettings[s].ver.at

(* A reply that is still to be applied has the shop's present settings, or  *)
(* the shop has changed them since, or the till is settled without it.      *)
Settles(d, s) ==
    shopSettings[s].seq \in 1..reply[d].cursor =>
        \/ reply[d].settings = shopSettings[s].ver
        \/ reply[d].settings = NoSettings /\ Settled(d, s, reply[d].cursor)

StaysSettled(d, s) ==
    /\ Settled(d, s, cursor[d])
    /\ Settled(d, s, session[d].cursor)
    /\ pc[d] = "pull" => cursor[d] <= session[d].cursor
    /\ pc[d] \in {"apply", "cursor"} =>
          cursor[d] <= reply[d].cursor /\ session[d].cursor <= reply[d].cursor
    /\ pc[d] = "apply" => Settles(d, s)
    /\ pc[d] = "cursor" => Settled(d, s, reply[d].cursor)

(* A change is stamped later than what the shop has, and its marker goes    *)
(* only when the shop has it.                                               *)
MarkerInTime(d, s) ==
    /\ due[d] <= clock
    /\ batch[d].settings.at <= clock
    /\ pc[d] = "clear" => batch[d].settings.at <= shopSettings[s].ver.at

SettledInv(s) ==
    /\ TypeOK
    /\ InSession
    /\ Numbered(s)
    /\ shopSettings[s].seq > 0 => shopSettings[s].ver.at > 0
    /\ shopSettings[s].ver.at <= clock
    /\ \A d \in Devices : MarkerInTime(d, s) /\ StaysSettled(d, s)

(* Besides a pull that is applied, only a change of the till's own or of    *)
(* the shop's settings can make the two differ: the one is marked and later *)
(* than the shop's, the other is numbered above what the till has pulled.   *)
LEMMA StillSettled ==
    ASSUME Skew = 0, NEW s \in Shops, SettledInv(s), [Next]_vars, TypeOK',
           NEW d \in Devices, ~ApplyPulled(d),
           NEW n \in Nat, n <= seq[s], Settled(d, s, n)
    PROVE  shopSettings'[s].seq \in 1..n =>
               \/ settings'[d] = shopSettings'[s].ver.map
               \/ due'[d] > shopSettings'[s].ver.at
<1> SUFFICES ASSUME shopSettings'[s].seq \in 1..n
             PROVE  \/ settings'[d] = shopSettings'[s].ver.map
                    \/ due'[d] > shopSettings'[s].ver.at
  OBVIOUS
<1>1. TypeOK /\ InSession /\ MarkerInTime(d, s)
  BY DEF SettledInv
<1>2. NextOrSame(s)
  BY <1>1, NumbersMove
<1>3. seq[s] \in Nat /\ ~(seq[s] + 1 \in 1..n)
  BY <1>1 DEF TypeOK
<1>4. shopSettings'[s] = shopSettings[s]
  BY <1>2, <1>3 DEF NextOrSame
<1>5. \/ settings[d] = shopSettings[s].ver.map
      \/ due[d] > shopSettings[s].ver.at
  BY <1>4 DEF Settled
<1>6. CASE settings'[d] = settings[d] /\ due'[d] = due[d]
  BY <1>4, <1>5, <1>6
<1>7. CASE /\ settings'[d] = settings[d]
           /\ pc[d] = "clear" /\ ~(due[d] > batch[d].settings.at)
  <2>1. batch[d].settings.at <= shopSettings[s].ver.at
    BY <1>1, <1>7 DEF MarkerInTime
  <2>2. /\ batch[d].settings.at \in Nat /\ due[d] \in Nat
        /\ shopSettings[s].ver.at \in Nat
    BY <1>1 DEF TypeOK, Payloads
  <2> QED
    BY <1>4, <1>5, <1>7, <2>1, <2>2
<1>8. ASSUME NEW t \in Stamps, due'[d] = t
      PROVE  due'[d] > shopSettings'[s].ver.at
  <2>1. clock \in Nat /\ clock < t /\ t \in Nat
    BY <1>1, <1>8 DEF Stamps, TypeOK
  <2>2. shopSettings[s].ver.at \in Nat /\ shopSettings[s].ver.at <= clock
    BY <1>1 DEF SettledInv, TypeOK, Payloads
  <2> QED
    BY <1>4, <1>8, <2>1, <2>2
<1> QED
  BY <1>1, <1>6, <1>7, <1>8, SettingsMove DEF SettledInv
LEMMA StepMarkerInTime ==
    ASSUME Skew = 0, NEW s \in Shops, Shops = {s}, SettledInv(s), [Next]_vars, TypeOK',
           NEW d \in Devices
    PROVE  MarkerInTime(d, s)'
<1>1. /\ TypeOK /\ InSession /\ MarkerInTime(d, s)
      /\ batch[d].settings.at \in Nat /\ due[d] \in Nat
      /\ shopSettings[s].ver.at \in Nat /\ shopSettings'[s].ver.at \in Nat
  BY DEF SettledInv, TypeOK, Payloads
<1>2. clock \in Nat /\ clock' \in Nat /\ clock <= clock'
  BY <1>1, ClockMoves DEF TypeOK
<1>3. due'[d] <= clock'
  <2>1. ASSUME NEW t \in Stamps, Stamp(t) PROVE t <= clock'
    BY <1>2, <2>1, StampIsLatest
  <2>2. due'[d] \in {due[d], 0} \/ \E t \in Stamps : due'[d] = t /\ Stamp(t)
    BY <1>1, SettingsMove
  <2>3. due[d] <= clock
    BY <1>1 DEF MarkerInTime
  <2> QED
    BY <1>1, <1>2, <2>1, <2>2, <2>3
<1>4. batch'[d].settings.at <= clock'
  <2>1. NoSettings.at = 0
    BY DEF NoSettings
  <2>2. batch'[d].settings.at \in {batch[d].settings.at, 0, due[d]}
    <3>1. \/ batch'[d].settings \in {batch[d].settings, NoSettings}
          \/ batch'[d].settings = [at |-> due[d], map |-> settings[d]]
      BY <1>1, PayloadsMove
    <3> QED
      BY <2>1, <3>1
  <2> QED
    BY <1>1, <1>2, <2>2 DEF MarkerInTime
<1>5. ASSUME pc'[d] = "clear"
      PROVE  batch'[d].settings.at <= shopSettings'[s].ver.at
  <2>1. shopSettings[s].ver.at <= shopSettings'[s].ver.at
    <3>1. \A e \in Devices : batch[e].settings.at \in Nat
      BY <1>1 DEF TypeOK, Payloads
    <3>2. \/ shopSettings'[s].ver.at = shopSettings[s].ver.at
          \/ \E e \in Devices : /\ shopSettings'[s].ver.at = batch[e].settings.at
                                 /\ batch[e].settings.at > shopSettings[s].ver.at
      BY <1>1, PayloadsMove
    <3> QED
      BY <1>1, <3>1, <3>2
  <2>2. /\ batch'[d] = batch[d]
        /\ pc[d] = "clear" \/ shopSettings'[s].ver.at >= batch[d].settings.at
    BY <1>1, <1>5, ClearMove
  <2> QED
    BY <1>1, <2>1, <2>2 DEF MarkerInTime
<1> QED
  BY <1>3, <1>4, <1>5 DEF MarkerInTime

(* What the pull of till d, and the application of its reply, do to it.     *)
LEMMA PullSettles ==
    ASSUME NEW s \in Shops, Shops = {s}, SettledInv(s), NEW d \in Devices, Pull(d)
    PROVE  StaysSettled(d, s)'
<1>1. TypeOK /\ StaysSettled(d, s) /\ session[d].link = s
  BY DEF SettledInv, Pull, TypeOK
<1>2. /\ reply'[d] = Answer(s, session[d].cursor)
      /\ pc'[d] = "apply"
      /\ UNCHANGED <<settings, due, cursor, session, shopSettings, seq>>
  BY <1>1 DEF Pull, Goto, TypeOK, storeVars, linkVars, cloudVars
<1>3. reply'[d].cursor = seq[s] /\ cursor[d] <= seq[s] /\ session[d].cursor <= seq[s]
  BY <1>2 DEF Answer, SettledInv, Numbered
<1>4. Settles(d, s)'
  <2>1. shopSettings[s].seq \in Nat /\ session[d].cursor \in Nat
    BY <1>1 DEF TypeOK
  <2>2. CASE shopSettings[s].seq > session[d].cursor
    <3>1. reply'[d].settings = shopSettings[s].ver
      BY <1>2, <2>2 DEF Answer
    <3> QED
      BY <1>2, <3>1 DEF Settles
  <2>3. CASE ~(shopSettings[s].seq > session[d].cursor)
    <3>1. reply'[d].settings = NoSettings
      BY <1>2, <2>3 DEF Answer
    <3>2. shopSettings[s].seq > 0 =>
             settings[d] = shopSettings[s].ver.map \/ due[d] > shopSettings[s].ver.at
      BY <1>1, <2>1, <2>3 DEF StaysSettled, Settled
    <3>3. \A n : \A i \in 1..n : i > 0
      OBVIOUS
    <3> QED
      BY <1>2, <3>1, <3>2, <3>3 DEF Settles, Settled
  <2> QED
    BY <2>2, <2>3
<1> QED
  BY <1>1, <1>2, <1>3, <1>4 DEF StaysSettled, Settled

LEMMA ApplySettles ==
    ASSUME NEW s \in Shops, SettledInv(s), NEW d \in Devices, ApplyPulled(d)
    PROVE  StaysSettled(d, s)'
<1>1. TypeOK /\ StaysSettled(d, s) /\ pc[d] = "apply"
  BY DEF SettledInv, ApplyPulled, At
<1>2. /\ settings'[d] = LaterSettings(d, reply[d].settings)
      /\ pc'[d] = "cursor"
      /\ UNCHANGED <<due, cursor, session, reply, shopSettings>>
  BY <1>1 DEF ApplyPulled, Goto, TypeOK, linkVars, cloudVars
<1>3. /\ cursor[d] <= reply[d].cursor /\ session[d].cursor <= reply[d].cursor
      /\ Settles(d, s)
      /\ cursor[d] \in Nat /\ session[d].cursor \in Nat /\ reply[d].cursor \in Nat
      /\ shopSettings[s].seq \in Nat
  BY <1>1 DEF StaysSettled, TypeOK
<1>4. ASSUME shopSettings[s].seq \in 1..reply[d].cursor
      PROVE  settings'[d] = shopSettings[s].ver.map \/ due[d] > shopSettings[s].ver.at
  <2>1. CASE reply[d].settings = shopSettings[s].ver
    <3>1. shopSettings[s].ver.at # 0
      BY <1>4 DEF SettledInv
    <3> QED
      BY <1>2, <2>1, <3>1 DEF LaterSettings
  <2>2. CASE reply[d].settings = NoSettings /\ Settled(d, s, reply[d].cursor)
    <3>1. settings'[d] = settings[d]
      BY <1>2, <2>2 DEF LaterSettings, NoSettings
    <3> QED
      BY <1>4, <2>2, <3>1 DEF Settled
  <2> QED
    BY <1>3, <1>4, <2>1, <2>2 DEF Settles
<1>5. ASSUME NEW n \in Nat, n <= reply[d].cursor, shopSettings[s].seq \in 1..n
      PROVE  settings'[d] = shopSettings[s].ver.map \/ due[d] > shopSettings[s].ver.at
  BY <1>3, <1>4, <1>5
<1> QED
  BY <1>2, <1>3, <1>5 DEF StaysSettled, Settled

LEMMA StepStaysSettled ==
    ASSUME Skew = 0, NEW s \in Shops, Shops = {s}, SettledInv(s), [Next]_vars, TypeOK',
           NEW d \in Devices
    PROVE  StaysSettled(d, s)'
<1>1. TypeOK /\ StaysSettled(d, s) /\ Numbered(s)
  BY DEF SettledInv
<1> SUFFICES ASSUME ~Pull(d), ~ApplyPulled(d) PROVE StaysSettled(d, s)'
  BY PullSettles, ApplySettles
<1>2. /\ cursor[d] \in Nat /\ session[d].cursor \in Nat /\ reply[d].cursor \in Nat
      /\ cursor[d] <= seq[s] /\ session[d].cursor <= seq[s] /\ reply[d].cursor <= seq[s]
  BY <1>1 DEF TypeOK, Numbered
<1>3. ASSUME NEW n \in Nat, n <= seq[s], Settled(d, s, n)
      PROVE  shopSettings'[s].seq \in 1..n =>
                 \/ settings'[d] = shopSettings'[s].ver.map
                 \/ due'[d] > shopSettings'[s].ver.at
  BY <1>3, StillSettled
<1>4. Settled(d, s, 0)
  BY DEF Settled
<1>5. NoLink.cursor = 0 /\ 0 \in Nat /\ 0 <= seq[s]
  BY <1>1 DEF NoLink, TypeOK
<1>6. Settled(d, s, cursor[d])'
  <2>1. \/ cursor'[d] \in {cursor[d], 0}
        \/ pc[d] = "cursor" /\ cursor'[d] = reply[d].cursor
    BY <1>1, CursorsMove
  <2> QED
    BY <1>1, <1>2, <1>3, <1>4, <1>5, <2>1 DEF Settled, StaysSettled
<1>7. Settled(d, s, session[d].cursor)'
  <2>1. session'[d].cursor \in {session[d].cursor, 0, cursor[d]}
    BY <1>1, <1>5, CursorsMove
  <2> QED
    BY <1>1, <1>2, <1>3, <1>4, <1>5, <2>1 DEF Settled, StaysSettled
<1>8. ASSUME pc'[d] = "pull" PROVE cursor'[d] <= session'[d].cursor
  <2>1. \/ pc[d] = "pull" /\ session'[d] = session[d]
        \/ pc[d] = "reread" /\ session'[d].cursor = cursor[d]
    BY <1>1, <1>8, CursorsMove
  <2>2. cursor'[d] \in {cursor[d], 0}
    BY <1>1, <2>1, CursorsMove
  <2> QED
    BY <1>1, <1>2, <2>1, <2>2 DEF StaysSettled
<1>9. ASSUME pc'[d] \in {"apply", "cursor"}
      PROVE  /\ pc[d] = pc'[d] /\ reply'[d] = reply[d]
             /\ cursor'[d] <= reply'[d].cursor /\ session'[d].cursor <= reply'[d].cursor
  <2>1. pc[d] = pc'[d] /\ reply'[d] = reply[d]
    BY <1>1, <1>9, CursorsMove
  <2>2. session'[d].cursor \in {session[d].cursor, 0}
    BY <1>1, <1>5, <1>9, CursorsMove
  <2>3. cursor'[d] \in {cursor[d], 0, reply[d].cursor}
    BY <1>1, CursorsMove
  <2> QED
    BY <1>1, <1>2, <1>9, <2>1, <2>2, <2>3 DEF StaysSettled
<1>10. ASSUME pc'[d] = "apply" PROVE Settles(d, s)'
  <2>1. pc[d] = "apply" /\ reply'[d] = reply[d] /\ Settles(d, s)
    BY <1>1, <1>9, <1>10 DEF StaysSettled
  <2>2. ASSUME shopSettings'[s].seq \in 1..reply[d].cursor
        PROVE  shopSettings'[s] = shopSettings[s]
    <3>1. NextOrSame(s)
      BY <1>1, NumbersMove DEF SettledInv
    <3>2. ~(seq[s] + 1 \in 1..reply[d].cursor)
      BY <1>1, <1>2 DEF TypeOK
    <3> QED
      BY <2>2, <3>1, <3>2 DEF NextOrSame
  <2> QED
    BY <1>2, <1>3, <2>1, <2>2 DEF Settles, Settled
<1>11. ASSUME pc'[d] = "cursor" PROVE Settled(d, s, reply[d].cursor)'
  <2>1. reply'[d] = reply[d] /\ Settled(d, s, reply[d].cursor)
    BY <1>1, <1>9, <1>11 DEF StaysSettled
  <2> QED
    BY <1>2, <1>3, <2>1 DEF Settled
<1> QED
  BY <1>6, <1>7, <1>8, <1>9, <1>10, <1>11 DEF StaysSettled
LEMMA StepSettled ==
    ASSUME Skew = 0, NEW s \in Shops, Shops = {s}
    PROVE  SettledInv(s) /\ [Next]_vars => SettledInv(s)'
<1> SUFFICES ASSUME SettledInv(s), [Next]_vars PROVE SettledInv(s)'
  OBVIOUS
<1>1. TypeOK /\ TypeOK' /\ InSession /\ InSession' /\ Numbered(s)'
  BY StepTyped, StepInSession, StepNumbered DEF SettledInv
<1>2. \A d \in Devices : MarkerInTime(d, s)' /\ StaysSettled(d, s)'
  BY <1>1, StepMarkerInTime, StepStaysSettled
<1>3. shopSettings'[s].seq > 0 => shopSettings'[s].ver.at > 0
  BY <1>1, NumbersMove DEF SettledInv, NextOrSame
<1>4. shopSettings'[s].ver.at <= clock'
  <2>1. clock \in Nat /\ clock' \in Nat /\ clock <= clock'
    BY <1>1, ClockMoves DEF TypeOK
  <2>2. \/ shopSettings'[s].ver.at = shopSettings[s].ver.at
        \/ \E d \in Devices : shopSettings'[s].ver.at = batch[d].settings.at
    BY <1>1, PayloadsMove
  <2>3. \A d \in Devices : /\ batch[d].settings.at \in Nat
                           /\ batch[d].settings.at <= clock
    BY <1>1 DEF TypeOK, Payloads, SettledInv, MarkerInTime
  <2>4. shopSettings[s].ver.at \in Nat /\ shopSettings[s].ver.at <= clock
    BY <1>1 DEF TypeOK, Payloads, SettledInv
  <2> QED
    BY <2>1, <2>2, <2>3, <2>4
<1> QED
  BY <1>1, <1>2, <1>3, <1>4 DEF SettledInv

(* A till with one shop that has pulled up to the shop's settings has them, *)
(* or a later change of its own that is still marked: replies in flight,    *)
(* crashes and unlinks included, if every stamp is later than all earlier   *)
(* ones.                                                                    *)
THEOREM SettingsCatchUp ==
    ASSUME NEW s \in Shops, Shops = {s}, Skew = 0
    PROVE  Spec => []SettingsCaughtUp
<1>1. Init => SettledInv(s)
  <2> SUFFICES ASSUME Init PROVE SettledInv(s)
    OBVIOUS
  <2>1. TypeOK /\ InSession
    BY InitTyped, InitDurable DEF Durable
  <2>2. /\ \A x \in Entries : ledger[s][x] = 0
        /\ \A p \in Products : rows[s][p].seq = 0
        /\ shopSettings[s].seq = 0 /\ shopSettings[s].ver.at = 0 /\ seq[s] = 0
        /\ clock = 0
        /\ \A d \in Devices : /\ cursor[d] = 0 /\ session[d].cursor = 0
                              /\ reply[d].cursor = 0 /\ pc[d] = "idle"
                              /\ due[d] = 0 /\ batch[d].settings.at = 0
    BY DEF Init, NoLink, NoReply, NoBatch, NoSettings
  <2>3. Numbered(s)
    BY <2>2 DEF Numbered
  <2>4. \A d \in Devices : MarkerInTime(d, s) /\ StaysSettled(d, s)
    BY <2>2 DEF MarkerInTime, StaysSettled, Settled
  <2> QED
    BY <2>1, <2>2, <2>3, <2>4 DEF SettledInv
<1>2. SettledInv(s) /\ [Next]_vars => SettledInv(s)'
  BY StepSettled
<1>3. SettledInv(s) => SettingsCaughtUp
  BY DEF SettledInv, StaysSettled, Settled, SettingsCaughtUp
<1> QED
  BY <1>1, <1>2, <1>3, PTL DEF Spec

=============================================================================
