------------------------------ MODULE Reports ------------------------------
(***************************************************************************)
(* What a till reports of its sales: the search and its reference index    *)
(* (boltstore/search.go, web/search.go), the exports (web/export.go), the  *)
(* activity log (boltstore/audit.go) and the dashboard (boltstore          *)
(* Analytics, web handleSalesToday).                                       *)
(*                                                                         *)
(* Time is UTC, in ticks of which DayLen make a day.  A zone is how far a  *)
(* clock on the wall is ahead of UTC.  A sale keeps the zone its time was  *)
(* written with: the till's own, or whatever the cloud's copy carries.     *)
(*                                                                         *)
(* A bound on time is a set of at most one instant, empty when unset.      *)
(* Reports are read in one transaction each; they are operators here, and  *)
(* the steps are what changes the things they read.                        *)
(***************************************************************************)
EXTENDS Files, FiniteSetsExt, TLC

CONSTANTS
    Own,        \* the sales this till makes
    Others,     \* the sales other tills of the shop make
    Kinds,      \* what a sale may be: [ref, method, items, total, cells]
    Criteria,   \* searches: [ref, item, method, start, end, min, max, limit]
    DayLen,     \* ticks in a day
    Offset,     \* the till's zone
    Zones,      \* zones the cloud's copies may carry
    Window,     \* days on the dashboard (7)
    Cap,        \* defaultSearchCap (500)
    MaxClock,   \* bound: the clock
    MaxLog      \* bound: lines of the activity log

NoText == ""

(* Characters of the largest int64 of cents: a sign, 17 digits, the point  *)
(* and two more (web decimalCents).                                        *)
LongestAmount == 21

ASSUME ReportsAssumption ==
    /\ Own \cap Others = {} /\ IsFiniteSet(Others)
    /\ \A k \in Kinds :
          /\ k.total \in Nat
          /\ k.cells \in [1..8 -> Nat] /\ \A c \in 4..6 : k.cells[c] <= LongestAmount
    /\ DayLen \in Nat \ {0}
    /\ Zones \subseteq 0..(DayLen - 1) /\ Offset \in 0..(DayLen - 1)
    /\ Window \in Nat \ {0, 1} /\ Cap \in Nat \ {0}
    /\ MaxClock \in Nat /\ MaxLog \in Nat

Instants == 0..MaxClock
Dates == 0..(MaxClock \div DayLen)

VARIABLES
    sales,    \* a function of some sales to [what, at, zone]
    refIdx,   \* the reference index: pairs of a reference and a sale
    log,      \* the activity log: [seq, at] in the order of its keys
    now       \* the till's clock

vars == <<sales, refIdx, log, now>>

Refs == {k.ref : k \in Kinds} \ {NoText}

TypeOK ==
    /\ DOMAIN sales \subseteq Own \cup Others
    /\ \A i \in DOMAIN sales :
          sales[i] \in [what : Kinds, at : Instants, zone : Zones \cup {Offset}]
    /\ refIdx \subseteq Refs \X DOMAIN sales
    /\ log \in Seq([seq : 1..MaxLog, at : Instants]) /\ Len(log) <= MaxLog
    /\ now \in Instants

Init ==
    /\ sales = << >> /\ refIdx = {} /\ log = << >>
    /\ now \in Instants

-----------------------------------------------------------------------------
(* Steps.                                                                  *)

(* The sales of both, where the first decide about those in both.          *)
Joined(some, more) ==
    [i \in DOMAIN some \cup DOMAIN more |->
        IF i \in DOMAIN some THEN some[i] ELSE more[i]]

(* The keys of the index that a set of sales is put under.                 *)
RefKeys(some) ==
    {<<some[i].what.ref, i>> : i \in {j \in DOMAIN some : some[j].what.ref # NoText}}

CreateSale(i, what) ==
    /\ i \notin DOMAIN sales
    /\ LET sale == [j \in {i} |-> [what |-> what, at |-> now, zone |-> Offset]]
       IN  /\ sales' = Joined(sales, sale)
           /\ refIdx' = refIdx \cup RefKeys(sale)
    /\ UNCHANGED <<log, now>>

(* What the cloud may answer: its copy of a sale is the sale, in a zone of *)
(* the cloud's choosing; a sale not seen here is another till's.           *)
Copies(i) ==
    IF i \in DOMAIN sales
    THEN {[sales[i] EXCEPT !.zone = z] : z \in Zones}
    ELSE [what : Kinds, at : Instants, zone : Zones]

Replies ==
    UNION {{reply \in [some -> UNION {Copies(i) : i \in some}] :
                \A i \in some : reply[i] \in Copies(i)} :
           some \in SUBSET (DOMAIN sales \cup Others)}

(* Mutant: the copy replaces the sale.                                     *)
ApplyPulledOver(reply) ==
    /\ sales' = Joined(reply, sales)
    /\ refIdx' = refIdx \cup RefKeys(reply)
    /\ UNCHANGED <<log, now>>

(* Mutant: pulled sales are not put in the index.                          *)
ApplyPulledUnindexed(reply) ==
    /\ sales' = Joined(sales, reply)
    /\ UNCHANGED <<refIdx, log, now>>

(* A sale that is here already is left alone.                              *)
ApplyPulled(reply) ==
    LET new == [i \in DOMAIN reply \ DOMAIN sales |-> reply[i]]
    IN  /\ sales' = Joined(sales, new)
        /\ refIdx' = refIdx \cup RefKeys(new)
        /\ UNCHANGED <<log, now>>

(* A change of the catalogue, the stock or a setting logs a line.          *)
AppendAudit ==
    /\ Len(log) < MaxLog
    /\ log' = Append(log, [seq |-> Len(log) + 1, at |-> now])
    /\ UNCHANGED <<sales, refIdx, now>>

(* Time passes, or the clock is set, back too.                             *)
SetClock(t) ==
    /\ now' = t
    /\ UNCHANGED <<sales, refIdx, log>>

Next ==
    \/ \E i \in Own, what \in Kinds : CreateSale(i, what)
    \/ \E reply \in Replies : ApplyPulled(reply)
    \/ AppendAudit
    \/ \E t \in Instants : SetClock(t)

Spec == Init /\ [][Next]_vars

-----------------------------------------------------------------------------
(* Dates.                                                                  *)

DayIn(zone, t) == (t + zone) \div DayLen
HourIn(zone, t) == (t + zone) % DayLen

(* Midnight before t where the till is.                                    *)
StartOfDay(t) == DayIn(Offset, t) * DayLen - Offset

(* Mutant: a plain date ends where it starts.                              *)
ParseNoEndOfDay(date, endOfDay) == {date * DayLen}

(* A plain date is read as midnight in UTC, the next one for an end.       *)
ParseSearchTime(date, endOfDay) ==
    {(IF endOfDay THEN date + 1 ELSE date) * DayLen}

NotBefore(t, start) == \A s \in start : t >= s
Before(t, end) == \A e \in end : t < e

-----------------------------------------------------------------------------
(* The search.                                                             *)

SalesByReference(ref) == {k[2] : k \in {j \in refIdx : j[1] = ref}} \cap DOMAIN sales

(* Items holds the texts that occur in the names of the sale's lines.      *)
MatchesCriteria(sale, c) ==
    /\ c.item # NoText => c.item \in sale.what.items
    /\ c.method # NoText => sale.what.method = c.method
    /\ NotBefore(sale.at, c.start)
    /\ Before(sale.at, c.end)
    /\ c.min > 0 => sale.what.total >= c.min
    /\ c.max > 0 => sale.what.total <= c.max

Found(c) ==
    {i \in IF c.ref # NoText THEN SalesByReference(c.ref) ELSE DOMAIN sales :
        MatchesCriteria(sales[i], c)}

Limit(c) == IF c.limit <= 0 THEN Cap ELSE c.limit

(* The sort is not stable: of sales made at one instant, any is cut.       *)
NewestOf(found, n) ==
    IF Cardinality(found) <= n THEN {found}
    ELSE {kept \in kSubset(n, found) :
             \A i \in kept, j \in found \ kept : sales[i].at >= sales[j].at}

SearchSales(c) == NewestOf(Found(c), Limit(c))

(* Mutant: the hint compares what is left after the cut.                   *)
TruncatedBeyond(c, answer) == Cardinality(answer) > Limit(c)

(* What the page is told of an answer.                                     *)
Truncated(c, answer) == Cardinality(answer) = Limit(c)

-----------------------------------------------------------------------------
(* The exports.                                                            *)

(* Mutant: SalesSince leaves out the instant itself.                       *)
SalesAfter(start) == {i \in DOMAIN sales : \A s \in start : sales[i].at > s}

SalesSince(start) == {i \in DOMAIN sales : NotBefore(sales[i].at, start)}

SalesExport(start, end) == {i \in SalesSince(start) : Before(sales[i].at, end)}

(* The sort is not stable either: any order of sales made at one instant.  *)
OldestFirst(some) ==
    {order \in Bijection(1..Cardinality(some), some) :
        \A j, k \in DOMAIN order :
            j < k => sales[order[j]].at <= sales[order[k]].at}

(* A sale's cells, as long as its kind says, are its date, time, items,    *)
(* subtotal, tax, total, payment and reference.                            *)
SalesTables(start, end) ==
    {[numeric |-> <<FALSE, FALSE, FALSE, TRUE, TRUE, TRUE, FALSE, FALSE>>,
      heads   |-> <<4, 4, 5, 8, 3, 5, 7, 9>>,
      rows    |-> [k \in DOMAIN order |->
                      [of |-> order[k], cells |-> sales[order[k]].what.cells]]] :
        order \in OldestFirst(SalesExport(start, end))}

(* By time; the sort is stable, so lines of one instant stay in order.     *)
Earlier(j, k) == log[j].at < log[k].at \/ (log[j].at = log[k].at /\ j < k)

AuditLines(start, end) ==
    {k \in DOMAIN log : NotBefore(log[k].at, start) /\ Before(log[k].at, end)}

(* Where a line comes among some.                                          *)
Place(k, lines) == Cardinality({j \in lines : Earlier(j, k)}) + 1

Audit(start, end) ==
    LET lines == AuditLines(start, end)
    IN  [p \in 1..Cardinality(lines) |->
            log[CHOOSE k \in lines : Place(k, lines) = p]]

-----------------------------------------------------------------------------
(* The dashboard.                                                          *)

Total(some) == SumFunction([i \in some |-> sales[i].what.total])
Summary(some) == [total |-> Total(some), count |-> Cardinality(some)]

SalesToday == Summary(SalesSince({StartOfDay(now)}))

(* Today and yesterday are told by instants, the days and hours of the     *)
(* charts by the date and time each sale was written with.  Counts of      *)
(* items and the ranking of products are left out.                         *)
Analytics ==
    LET today     == DayIn(Offset, now)
        todayFrom == StartOfDay(now)
        inWindow  == SalesSince({todayFrom - (Window - 1) * DayLen})
    IN  [days |-> [k \in 1..Window |->
             Total({i \in inWindow :
                 DayIn(sales[i].zone, sales[i].at) = today - Window + k})],
         hours |-> [h \in 0..(DayLen - 1) |->
             Total({i \in inWindow : HourIn(sales[i].zone, sales[i].at) = h})],
         today |-> Summary({i \in inWindow : sales[i].at >= todayFrom}),
         yesterday |-> Summary({i \in inWindow :
             sales[i].at \in (todayFrom - DayLen)..(todayFrom - 1)})]

-----------------------------------------------------------------------------
(* Properties.                                                             *)

(* A search by reference sees exactly the sales that carry it, whichever   *)
(* till made them and in whatever order they arrived (boltstore CreateSale *)
(* and applyPulledSale keep the index that SalesByReference reads).        *)
IndexIsExact ==
    \A ref \in Refs :
        SalesByReference(ref) = {i \in DOMAIN sales : sales[i].what.ref = ref}

(* An answer that does not say it was cut short holds every sale that      *)
(* matches, and one that does holds none older than a match it left out    *)
(* (boltstore SearchSales cuts, web handleSalesSearch tells).              *)
HintIsHonest ==
    \A c \in Criteria : \A answer \in SearchSales(c) :
        LET matches == {i \in DOMAIN sales :
                           /\ c.ref # NoText => sales[i].what.ref = c.ref
                           /\ MatchesCriteria(sales[i], c)}
        IN  /\ answer \subseteq matches
            /\ ~Truncated(c, answer) => answer = matches
            /\ \A i \in answer, j \in matches \ answer : sales[i].at >= sales[j].at

(* Files of consecutive days, put together, are the whole ledger and the   *)
(* whole log, with nothing twice and nothing left out (handleSalesExport,  *)
(* handleAuditExport: an end is exclusive, a start inclusive).             *)
FilesAddUp ==
    \A d \in Dates :
        LET end   == ParseSearchTime(d, TRUE)
            start == ParseSearchTime(d + 1, FALSE)
        IN  /\ SalesExport({}, end) \cup SalesExport(start, {}) = DOMAIN sales
            /\ SalesExport({}, end) \cap SalesExport(start, {}) = {}
            /\ Audit({}, end) \o Audit(start, {}) = Audit({}, {})

(* The formats of an export agree: read as its readers read them, each     *)
(* gives every sale once, in one order.  No page runs past its bottom, no  *)
(* line past its margin, and no amount is cut (web writeCSV, sheetXML,     *)
(* writePDF, assemblePDF, fitWidths).                                      *)
FilesAgree ==
    \A t \in SalesTables({}, {}) :
    \A pdf \in {Pdf(t)} : \A pages \in {PagesOf(pdf)} :
        LET lines == FlattenSeq(pages)
        IN  /\ ToSet(Csv(t)) = DOMAIN sales /\ Len(Csv(t)) = Cardinality(DOMAIN sales)
            /\ [k \in DOMAIN t.rows |-> Sheet(t)[k].of] = Csv(t)
            /\ [k \in DOMAIN lines |-> lines[k].of] =
                   IF t.rows = << >> THEN <<NoRecords.of>> ELSE Csv(t)
            /\ \A p \in DOMAIN pages :
                   pages[p] # << >> /\ LineY(Len(pages[p])) >= Bottom
            /\ \A k \in DOMAIN t.rows :
                   LET cells == lines[k].cells
                   IN  /\ LineLen([c \in DOMAIN cells |->
                              cells[c].kept + cells[c].dots + cells[c].pad]) <= MaxChars
                       /\ \A c \in DOMAIN cells : t.numeric[c] =>
                              cells[c].kept = t.rows[k].cells[c]

(* The dates a file is asked for are read in UTC, the dates printed in it  *)
(* are the till's.  They disagree about sales made in the first Offset     *)
(* ticks of a day of the shop, and about no others (web parseSearchTime,   *)
(* handleSalesExport).                                                     *)
DatesOffByZone ==
    \A d, e \in Dates : \A i \in DOMAIN sales :
        LET asked   == i \in SalesExport(ParseSearchTime(d, FALSE), ParseSearchTime(e, TRUE))
            printed == DayIn(Offset, sales[i].at) \in d..e
        IN  HourIn(Offset, sales[i].at) >= Offset => (asked <=> printed)

(* The dashboard and the list under it count the same sales today.  While  *)
(* the till has made all its sales itself, none of them dated after today, *)
(* its charts add up too: the last two bars are today and yesterday, and   *)
(* the days and the hours have one sum (boltstore Analytics, web           *)
(* handleSalesToday, app.js loadToday).                                    *)
DashboardAddsUp ==
    LET a == Analytics
    IN  /\ a.today = SalesToday
        /\ (/\ DOMAIN sales \subseteq Own
            /\ \A i \in DOMAIN sales : sales[i].at < StartOfDay(now) + DayLen)
           => /\ a.days[Window] = a.today.total
              /\ a.days[Window - 1] = a.yesterday.total
              /\ SumFunction(a.days) = SumFunction(a.hours)

=============================================================================
