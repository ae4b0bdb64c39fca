--------------------------- MODULE ReportsProofs ---------------------------
(***************************************************************************)
(* Theorems about Reports, for any length of day, zone, clock and ledger:  *)
(* the reference index is exact, the dates of a file are off by the zone   *)
(* and no more, files of consecutive days make the whole, the dashboard    *)
(* adds up, and a file says the same in each of its formats.               *)
(***************************************************************************)
EXTENDS Reports, ArithmeticProofs, SequenceTheorems

(* The index holds the keys of the ledger, no more and no less.            *)
Keyed == refIdx = RefKeys(sales)

(* The keys of two sets of sales with no sale in common are the keys of    *)
(* both together.                                                          *)
LEMMA KeysOfUnion ==
    ASSUME NEW f, NEW g, DOMAIN f \cap DOMAIN g = {}
    PROVE  RefKeys(Joined(f, g)) = RefKeys(f) \cup RefKeys(g)
<1> DEFINE h == Joined(f, g)
<1>1. DOMAIN h = DOMAIN f \cup DOMAIN g
  BY DEF Joined
<1>2. \A i \in DOMAIN f : h[i] = f[i]
  BY DEF Joined
<1>3. \A i \in DOMAIN g : h[i] = g[i]
  BY DEF Joined
<1> HIDE DEF h
<1>4. RefKeys(h) = RefKeys(f) \cup RefKeys(g)
  BY <1>1, <1>2, <1>3 DEF RefKeys
<1> QED
  BY <1>4 DEF h

(* The index is kept by every step.                                        *)
LEMMA KeyedStays == Spec => []Keyed
<1>1. Init => Keyed
  BY DEF Init, Keyed, RefKeys
<1>2. Keyed /\ [Next]_vars => Keyed'
  <2> SUFFICES ASSUME Keyed, [Next]_vars
               PROVE  Keyed'
    OBVIOUS
  <2>1. ASSUME NEW i \in Own, NEW what \in Kinds, CreateSale(i, what)
        PROVE  Keyed'
    <3> DEFINE sale == [j \in {i} |-> [what |-> what, at |-> now, zone |-> Offset]]
    <3>1. DOMAIN sale = {i}
      OBVIOUS
    <3>2. DOMAIN sales \cap DOMAIN sale = {}
      BY <2>1, <3>1 DEF CreateSale
    <3>3. sales' = Joined(sales, sale) /\ refIdx' = refIdx \cup RefKeys(sale)
      BY <2>1 DEF CreateSale
    <3> HIDE DEF sale
    <3>4. RefKeys(Joined(sales, sale)) = RefKeys(sales) \cup RefKeys(sale)
      BY <3>2, KeysOfUnion
    <3>5. Keyed' <=> refIdx' = RefKeys(sales')
      BY DEF Keyed, RefKeys
    <3> QED
      BY <3>3, <3>4, <3>5 DEF Keyed
  <2>2. ASSUME NEW reply, ApplyPulled(reply)
        PROVE  Keyed'
    <3> DEFINE new == [i \in DOMAIN reply \ DOMAIN sales |-> reply[i]]
    <3>1. DOMAIN sales \cap DOMAIN new = {}
      OBVIOUS
    <3>2. sales' = Joined(sales, new) /\ refIdx' = refIdx \cup RefKeys(new)
      BY <2>2 DEF ApplyPulled
    <3> HIDE DEF new
    <3>3. RefKeys(Joined(sales, new)) = RefKeys(sales) \cup RefKeys(new)
      BY <3>1, KeysOfUnion
    <3>4. Keyed' <=> refIdx' = RefKeys(sales')
      BY DEF Keyed, RefKeys
    <3> QED
      BY <3>2, <3>3, <3>4 DEF Keyed
  <2>3. CASE UNCHANGED <<sales, refIdx>>
    BY <2>3 DEF Keyed, RefKeys
  <2> QED
    BY <2>1, <2>2, <2>3 DEF Next, AppendAudit, SetClock, vars
<1> QED
  BY <1>1, <1>2, PTL DEF Spec

(* What the index gives for a reference, in or out of use.                 *)
LEMMA ByReference ==
    ASSUME Keyed, NEW ref, ref # NoText
    PROVE  SalesByReference(ref) = {i \in DOMAIN sales : sales[i].what.ref = ref}
<1>1. ASSUME NEW i \in SalesByReference(ref)
      PROVE  i \in DOMAIN sales /\ sales[i].what.ref = ref
  <2>1. i \in DOMAIN sales
    BY DEF SalesByReference
  <2>2. PICK k \in RefKeys(sales) : k[1] = ref /\ k[2] = i
    BY DEF SalesByReference, Keyed
  <2>3. PICK j \in DOMAIN sales : k = <<sales[j].what.ref, j>>
    BY <2>2 DEF RefKeys
  <2> QED
    BY <2>1, <2>2, <2>3
<1>2. ASSUME NEW i \in DOMAIN sales, sales[i].what.ref = ref
      PROVE  i \in SalesByReference(ref)
  <2> DEFINE k == <<ref, i>>
  <2>1. k \in RefKeys(sales)
    BY <1>2 DEF RefKeys
  <2>2. k \in refIdx /\ k[1] = ref /\ k[2] = i
    BY <2>1 DEF Keyed
  <2> QED
    BY <2>2 DEF SalesByReference
<1> QED
  BY <1>1, <1>2

(* A search by reference sees exactly the sales that carry it.             *)
THEOREM IndexExact == Spec => []IndexIsExact
<1>1. Keyed => IndexIsExact
  BY ByReference DEF IndexIsExact, Refs
<1> QED
  BY <1>1, KeyedStays, PTL

(* An answer that does not say it was cut is whole, and one that was cut   *)
(* keeps the newest: for any criteria, any cap and any ledger.             *)
THEOREM HonestHint == Spec => []HintIsHonest
<1>1. Keyed => HintIsHonest
  <2> SUFFICES ASSUME Keyed, NEW c \in Criteria, NEW answer \in SearchSales(c)
               PROVE  LET matches == {i \in DOMAIN sales :
                              /\ c.ref # NoText => sales[i].what.ref = c.ref
                              /\ MatchesCriteria(sales[i], c)}
                      IN  /\ answer \subseteq matches
                          /\ ~Truncated(c, answer) => answer = matches
                          /\ \A i \in answer, j \in matches \ answer :
                                sales[i].at >= sales[j].at
    BY DEF HintIsHonest
  <2> DEFINE matches == {i \in DOMAIN sales :
                           /\ c.ref # NoText => sales[i].what.ref = c.ref
                           /\ MatchesCriteria(sales[i], c)}
  <2>1. Found(c) = matches
    <3>1. CASE c.ref # NoText
      <4>1. SalesByReference(c.ref) = {i \in DOMAIN sales : sales[i].what.ref = c.ref}
        BY <3>1, ByReference
      <4> QED
        BY <3>1, <4>1 DEF Found
    <3>2. CASE c.ref = NoText
      BY <3>2 DEF Found
    <3> QED
      BY <3>1, <3>2
  <2> HIDE DEF matches
  <2>2. CASE Cardinality(matches) <= Limit(c)
    <3>1. answer = matches
      BY <2>1, <2>2 DEF SearchSales, NewestOf
    <3> QED
      BY <3>1 DEF matches
  <2>3. CASE ~(Cardinality(matches) <= Limit(c))
    <3>1. /\ answer \in kSubset(Limit(c), matches)
          /\ \A i \in answer, j \in matches \ answer : sales[i].at >= sales[j].at
      BY <2>1, <2>3 DEF SearchSales, NewestOf
    <3>2. answer \subseteq matches /\ Cardinality(answer) = Limit(c)
      BY <3>1 DEF kSubset
    <3>3. Truncated(c, answer)
      BY <3>2 DEF Truncated
    <3> QED
      BY <3>1, <3>2, <3>3 DEF matches
  <2> QED
    BY <2>2, <2>3
<1> QED
  BY <1>1, KeyedStays, PTL

-----------------------------------------------------------------------------
(* Types.                                                                  *)

Entry == [what : Kinds, at : Instants, zone : Zones \cup {Offset}]

(* Every step keeps the types: a ledger of well-formed sales, an index of  *)
(* references in use, a bounded log.                                       *)
THEOREM Typed == Spec => []TypeOK
<1> USE DEF Instants
<1>1. Init => TypeOK
  <2> SUFFICES ASSUME Init
               PROVE  TypeOK
    OBVIOUS
  <2>1. DOMAIN sales = {} /\ refIdx = {} /\ now \in Instants
    BY DEF Init
  <2>2. log \in Seq([seq : 1..MaxLog, at : Instants]) /\ Len(log) <= MaxLog
    BY ReportsAssumption DEF Init
  <2> QED
    BY <2>1, <2>2 DEF TypeOK
<1>2. TypeOK /\ [Next]_vars => TypeOK'
  <2> SUFFICES ASSUME TypeOK, [Next]_vars
               PROVE  TypeOK'
    OBVIOUS
  <2> DEFINE Ledger(f) == /\ DOMAIN f \subseteq Own \cup Others
                          /\ \A i \in DOMAIN f : f[i] \in Entry
  <2>1. Ledger(sales)
    BY DEF TypeOK, Entry
  <2>2. ASSUME NEW f, Ledger(f), sales' = Joined(sales, f),
               refIdx' = refIdx \cup RefKeys(f), UNCHANGED <<log, now>>
        PROVE  TypeOK'
    <3>1. Ledger(sales')
      BY <2>1, <2>2 DEF Joined
    <3>2. DOMAIN sales \subseteq DOMAIN sales' /\ DOMAIN f \subseteq DOMAIN sales'
      BY <2>2 DEF Joined
    <3>3. RefKeys(f) \subseteq Refs \X DOMAIN f
      BY <2>2 DEF RefKeys, Refs, Entry
    <3>4. refIdx' \subseteq Refs \X DOMAIN sales'
      BY <2>2, <3>2, <3>3 DEF TypeOK
    <3> QED
      BY <2>2, <3>1, <3>4 DEF TypeOK, Entry
  <2>3. ASSUME NEW i \in Own, NEW what \in Kinds, CreateSale(i, what)
        PROVE  TypeOK'
    <3> DEFINE sale == [j \in {i} |-> [what |-> what, at |-> now, zone |-> Offset]]
    <3>1. Ledger(sale)
      BY DEF TypeOK, Entry
    <3>2. sales' = Joined(sales, sale) /\ refIdx' = refIdx \cup RefKeys(sale)
      BY <2>3 DEF CreateSale
    <3> HIDE DEF sale
    <3> QED
      BY <2>2, <2>3, <3>1, <3>2 DEF CreateSale
  <2>4. ASSUME NEW reply \in Replies, ApplyPulled(reply)
        PROVE  TypeOK'
    <3> DEFINE new == [i \in DOMAIN reply \ DOMAIN sales |-> reply[i]]
    <3>1. PICK some \in SUBSET (DOMAIN sales \cup Others) :
             DOMAIN reply = some /\ \A i \in some : reply[i] \in Copies(i)
      BY DEF Replies
    <3>2. \A i \in DOMAIN new : i \in Others /\ new[i] \in Entry
      BY <3>1 DEF Copies, Entry
    <3>3. Ledger(new)
      BY <3>2
    <3>4. sales' = Joined(sales, new) /\ refIdx' = refIdx \cup RefKeys(new)
      BY <2>4 DEF ApplyPulled
    <3> HIDE DEF new
    <3> QED
      BY <2>2, <2>4, <3>3, <3>4 DEF ApplyPulled
  <2>5. CASE AppendAudit
    <3> DEFINE LogLine == [seq : 1..MaxLog, at : Instants]
    <3>1. log \in Seq(LogLine) /\ Len(log) < MaxLog
      BY <2>5 DEF TypeOK, AppendAudit
    <3>2. [seq |-> Len(log) + 1, at |-> now] \in LogLine
      BY <3>1, ReportsAssumption DEF TypeOK
    <3> HIDE DEF LogLine
    <3>3. log' \in Seq(LogLine) /\ Len(log') <= MaxLog
      BY <2>5, <3>1, <3>2, ReportsAssumption DEF AppendAudit
    <3> QED
      BY <2>5, <3>3 DEF TypeOK, AppendAudit, LogLine
  <2>6. ASSUME NEW t \in Instants, SetClock(t)
        PROVE  TypeOK'
    BY <2>6 DEF TypeOK, SetClock
  <2>7. CASE UNCHANGED vars
    BY <2>7 DEF TypeOK, vars
  <2> QED
    BY <2>3, <2>4, <2>5, <2>6, <2>7 DEF Next
<1> QED
  BY <1>1, <1>2, PTL DEF Spec

-----------------------------------------------------------------------------
(* Dates.                                                                  *)

(* A later day starts later.                                               *)
LEMMA DaysInOrder ==
    ASSUME NEW a \in Int, NEW b \in Int, NEW n \in Nat \ {0}
    PROVE  (a <= b) <=> (a * n <= b * n)
<1>1. \A d \in Int : d >= 0 => d * n >= 0
  OBVIOUS
<1>2. \A d \in Int : d >= 1 => d * n >= 1
  OBVIOUS
<1>3. b * n - a * n = (b - a) * n /\ a * n - b * n = (a - b) * n
  OBVIOUS
<1>4. b - a \in Int /\ a - b \in Int /\ a * n \in Int /\ b * n \in Int
  OBVIOUS
<1>5. CASE a <= b
  <2>1. (b - a) * n >= 0
    BY <1>1, <1>4, <1>5
  <2> QED
    BY <1>3, <1>4, <1>5, <2>1
<1>6. CASE b < a
  <2>1. (a - b) * n >= 1
    BY <1>2, <1>4, <1>6
  <2> QED
    BY <1>3, <1>4, <1>6, <2>1
<1> QED
  BY <1>5, <1>6

(* An instant is its day's midnight and the hour since.                    *)
LEMMA DayAndHour ==
    ASSUME NEW t \in Int, NEW n \in Nat \ {0}
    PROVE  /\ t \div n \in Int /\ t % n \in 0..(n - 1)
           /\ t = (t \div n) * n + (t % n)
  OBVIOUS

(* The dates of a file are wrong by the zone and no more: for any zone     *)
(* east of UTC, any length of day and any two dates.                       *)
THEOREM OffByZoneOnly == Spec => []DatesOffByZone
<1>1. TypeOK => DatesOffByZone
  <2> SUFFICES ASSUME TypeOK, NEW d \in Dates, NEW e \in Dates, NEW i \in DOMAIN sales,
                      HourIn(Offset, sales[i].at) >= Offset
               PROVE  (i \in SalesExport(ParseSearchTime(d, FALSE),
                                         ParseSearchTime(e, TRUE)))
                      <=> (DayIn(Offset, sales[i].at) \in d..e)
    BY DEF DatesOffByZone
  <2> DEFINE t   == sales[i].at
             day == DayIn(Offset, t)
             hour == HourIn(Offset, t)
  <2>1. t \in Nat /\ Offset \in Nat /\ DayLen \in Nat \ {0}
    BY ReportsAssumption DEF TypeOK, Instants
  <2>2. d \in Int /\ e \in Int
    BY ReportsAssumption, DayAndHour DEF Dates
  <2>3. day \in Int /\ hour \in 0..(DayLen - 1) /\ t + Offset = day * DayLen + hour
    <3>1. t + Offset \in Int
      BY <2>1
    <3>2. day = (t + Offset) \div DayLen /\ hour = (t + Offset) % DayLen
      BY DEF DayIn, HourIn
    <3> HIDE DEF t, day, hour
    <3> QED
      BY <2>1, <3>1, <3>2, DayAndHour
  <2>4. (i \in SalesExport(ParseSearchTime(d, FALSE), ParseSearchTime(e, TRUE)))
        <=> (t >= d * DayLen /\ t < (e + 1) * DayLen)
    BY DEF SalesExport, SalesSince, ParseSearchTime, NotBefore, Before
  <2>5. hour >= Offset
    OBVIOUS
  <2> HIDE DEF t, day, hour
  <2>6. /\ d * DayLen \in Int /\ day * DayLen \in Int
        /\ (e + 1) * DayLen \in Int /\ (day + 1) * DayLen = day * DayLen + DayLen
    BY <2>1, <2>2, <2>3
  <2>7. day * DayLen <= t /\ t < (day + 1) * DayLen
    BY <2>1, <2>3, <2>5, <2>6
  <2>8. t >= d * DayLen <=> d <= day
    <3>1. d <= day => d * DayLen <= day * DayLen
      BY <2>1, <2>2, <2>3, DaysInOrder
    <3>2. day + 1 <= d => (day + 1) * DayLen <= d * DayLen
      BY <2>1, <2>2, <2>3, DaysInOrder
    <3> QED
      BY <2>1, <2>2, <2>3, <2>6, <2>7, <3>1, <3>2
  <2>9. t < (e + 1) * DayLen <=> day <= e
    <3>1. day + 1 <= e + 1 => (day + 1) * DayLen <= (e + 1) * DayLen
      BY <2>1, <2>2, <2>3, DaysInOrder
    <3>2. e + 1 <= day => (e + 1) * DayLen <= day * DayLen
      BY <2>1, <2>2, <2>3, DaysInOrder
    <3> QED
      BY <2>1, <2>2, <2>3, <2>6, <2>7, <3>1, <3>2
  <2>10. day \in d..e <=> d <= day /\ day <= e
    BY <2>2, <2>3
  <2>11. (i \in SalesExport(ParseSearchTime(d, FALSE), ParseSearchTime(e, TRUE)))
         <=> day \in d..e
    BY <2>4, <2>8, <2>9, <2>10
  <2> QED
    BY <2>11 DEF day, t
<1> QED
  BY <1>1, Typed, PTL

-----------------------------------------------------------------------------
(* The files of consecutive days.                                          *)

(* Time, and then the order of the log, put any two lines in order.        *)
LEMMA OrderIsTotal ==
    ASSUME TypeOK
    PROVE  /\ DOMAIN log \subseteq Nat /\ IsFiniteSet(DOMAIN log)
           /\ \A k \in DOMAIN log : log[k].at \in Nat
           /\ \A k \in DOMAIN log : ~Earlier(k, k)
           /\ \A j, k \in DOMAIN log : j # k => Earlier(j, k) \/ Earlier(k, j)
           /\ \A i, j, k \in DOMAIN log :
                 Earlier(i, j) /\ Earlier(j, k) => Earlier(i, k)
<1> DEFINE LogLine == [seq : 1..MaxLog, at : Instants]
<1>1. log \in Seq(LogLine) /\ DOMAIN log = 1..Len(log) /\ Len(log) \in Nat
  BY DEF TypeOK
<1>2. IsFiniteSet(DOMAIN log)
  BY <1>1, FS_Interval
<1>3. \A k \in DOMAIN log : log[k] \in LogLine
  <2> HIDE DEF LogLine
  <2> QED BY <1>1
<1>4. \A k \in DOMAIN log : log[k].at \in Nat /\ k \in Nat
  BY <1>1, <1>3, ReportsAssumption DEF Instants
<1> HIDE DEF LogLine
<1> QED BY <1>2, <1>4 DEF Earlier

(* Among n lines, each has one of the places 1 to n to itself.             *)
LEMMA Places ==
    ASSUME TypeOK, NEW lines \in SUBSET DOMAIN log
    PROVE  /\ IsFiniteSet(lines) /\ Cardinality(lines) \in Nat
           /\ \A k \in lines : Place(k, lines) \in 1..Cardinality(lines)
           /\ \A j, k \in lines : Place(j, lines) = Place(k, lines) => j = k
           /\ \A p \in 1..Cardinality(lines) : \E k \in lines : Place(k, lines) = p
<1> DEFINE Up(k) == {j \in lines : Earlier(j, k)}
           n == Cardinality(lines)
<1>1. IsFiniteSet(lines)
  BY OrderIsTotal, FS_Subset
<1>2. n \in Nat /\ \A s \in SUBSET lines : IsFiniteSet(s) /\ Cardinality(s) \in Nat
  BY <1>1, FS_Subset, FS_CardinalityType
<1>3. ASSUME NEW k \in lines
      PROVE  Cardinality(Up(k)) <= n - 1
  <2>1. IsFiniteSet(lines \ {k}) /\ Cardinality(lines \ {k}) = n - 1
    BY <1>1, FS_RemoveElement
  <2>2. Up(k) \in SUBSET (lines \ {k})
    BY OrderIsTotal
  <2> HIDE DEF Up, n
  <2> QED BY <2>1, <2>2, FS_Subset
<1>4. \A k \in lines : Place(k, lines) = Cardinality(Up(k)) + 1 /\ Cardinality(Up(k)) \in Nat
  BY <1>2 DEF Place
<1>5. ASSUME NEW j \in lines, NEW k \in lines, Earlier(j, k)
      PROVE  Cardinality(Up(j)) < Cardinality(Up(k))
  <2>1. Up(j) \in SUBSET (Up(k) \ {j})
    BY <1>5, OrderIsTotal
  <2>2. IsFiniteSet(Up(k)) /\ j \in Up(k)
    BY <1>2, <1>5
  <2> HIDE DEF Up
  <2>3. IsFiniteSet(Up(k) \ {j}) /\ Cardinality(Up(k) \ {j}) = Cardinality(Up(k)) - 1
    BY <2>2, FS_RemoveElement
  <2>4. Cardinality(Up(j)) <= Cardinality(Up(k) \ {j})
    BY <2>1, <2>3, FS_Subset
  <2> QED BY <1>4, <2>3, <2>4
<1> HIDE DEF Up, n
<1>6. \A k \in lines : Place(k, lines) \in 1..n
  BY <1>2, <1>3, <1>4
<1>7. \A j, k \in lines : Place(j, lines) = Place(k, lines) => j = k
  <2> SUFFICES ASSUME NEW j \in lines, NEW k \in lines, j # k
               PROVE  Place(j, lines) # Place(k, lines)
    OBVIOUS
  <2>1. Earlier(j, k) \/ Earlier(k, j)
    BY OrderIsTotal
  <2> QED BY <1>4, <1>5, <2>1
<1>8. \A p \in 1..n : \E k \in lines : Place(k, lines) = p
  <2> DEFINE f == [k \in lines |-> Place(k, lines)]
  <2>1. f \in Injection(lines, 1..n)
    BY <1>6, <1>7 DEF Injection, IsInjective
  <2>2. IsFiniteSet(1..n) /\ Cardinality(1..n) = n
    BY <1>2, FS_Interval
  <2>3. f \in Surjection(lines, 1..n)
    <3> HIDE DEF f
    <3> QED BY <2>1, <2>2, FS_Injection DEF n
  <2> QED BY <2>3 DEF Surjection
<1> QED BY <1>1, <1>2, <1>6, <1>7, <1>8 DEF n

LEMMA AuditIs ==
    ASSUME TypeOK, NEW start, NEW end
    PROVE  LET lines == AuditLines(start, end)
           IN  /\ lines \in SUBSET DOMAIN log
               /\ Audit(start, end) \in Seq([seq : 1..MaxLog, at : Instants])
               /\ Len(Audit(start, end)) = Cardinality(lines)
               /\ \A k \in lines : Audit(start, end)[Place(k, lines)] = log[k]
<1> DEFINE lines == AuditLines(start, end)
           n == Cardinality(lines)
           LogLine == [seq : 1..MaxLog, at : Instants]
           at(p) == CHOOSE k \in lines : Place(k, lines) = p
<1>1. lines \in SUBSET DOMAIN log
  BY DEF AuditLines
<1>2. /\ n \in Nat
      /\ \A k \in lines : Place(k, lines) \in 1..n
      /\ \A j, k \in lines : Place(j, lines) = Place(k, lines) => j = k
      /\ \A p \in 1..n : \E k \in lines : Place(k, lines) = p
  <2> HIDE DEF lines
  <2> QED BY <1>1, Places
<1>3. log \in Seq(LogLine)
  BY DEF TypeOK
<1>4. Audit(start, end) = [p \in 1..n |-> log[at(p)]]
  BY DEF Audit
<1> HIDE DEF lines, n, LogLine
<1>5. \A p \in 1..n : at(p) \in lines /\ Place(at(p), lines) = p
  BY <1>2
<1>6. \A k \in lines : at(Place(k, lines)) = k
  BY <1>2, <1>5
<1> HIDE DEF at
<1>7. \A p \in 1..n : log[at(p)] \in LogLine
  BY <1>1, <1>3, <1>5
<1>8. Audit(start, end) \in Seq(LogLine) /\ Len(Audit(start, end)) = n
  BY <1>2, <1>4, <1>7
<1>9. \A k \in lines : Audit(start, end)[Place(k, lines)] = log[k]
  BY <1>2, <1>4, <1>6
<1> QED BY <1>1, <1>8, <1>9 DEF lines, n, LogLine

(* Where the lines of the later file come after those of the earlier one.  *)
LEMMA PlacesOfBoth ==
    ASSUME TypeOK, NEW A \in SUBSET DOMAIN log, NEW B \in SUBSET DOMAIN log,
           \A j \in A, k \in B : log[j].at < log[k].at
    PROVE  /\ Cardinality(A \cup B) = Cardinality(A) + Cardinality(B)
           /\ \A k \in A : Place(k, A \cup B) = Place(k, A)
           /\ \A k \in B : Place(k, A \cup B) = Cardinality(A) + Place(k, B)
<1>1. IsFiniteSet(A) /\ IsFiniteSet(B) /\ A \cap B = {}
  BY OrderIsTotal, FS_Subset
<1>2. \A s \in SUBSET A, t \in SUBSET B :
          /\ Cardinality(s) \in Nat /\ Cardinality(t) \in Nat
          /\ Cardinality(s \cup t) = Cardinality(s) + Cardinality(t)
  <2> SUFFICES ASSUME NEW s \in SUBSET A, NEW t \in SUBSET B
               PROVE  /\ Cardinality(s) \in Nat /\ Cardinality(t) \in Nat
                      /\ Cardinality(s \cup t) = Cardinality(s) + Cardinality(t)
    OBVIOUS
  <2>1. IsFiniteSet(s) /\ IsFiniteSet(t) /\ s \cap t = {}
    BY <1>1, FS_Subset
  <2>2. Cardinality(s \cup t) = Cardinality(s) + Cardinality(t) - Cardinality({})
    BY <2>1, FS_Union
  <2>3. Cardinality(s) \in Nat /\ Cardinality(t) \in Nat
    BY <2>1, FS_CardinalityType
  <2> QED BY <2>2, <2>3, FS_EmptySet
<1>3. Cardinality(A \cup B) = Cardinality(A) + Cardinality(B)
  BY <1>2
<1>4. \A j \in A, k \in B : Earlier(j, k) /\ ~Earlier(k, j)
  BY OrderIsTotal DEF Earlier
<1>5. ASSUME NEW k \in A PROVE Place(k, A \cup B) = Place(k, A)
  <2>1. {j \in A \cup B : Earlier(j, k)} = {j \in A : Earlier(j, k)}
    BY <1>4
  <2> QED BY <2>1 DEF Place
<1>6. ASSUME NEW k \in B PROVE Place(k, A \cup B) = Cardinality(A) + Place(k, B)
  <2> DEFINE up == {j \in B : Earlier(j, k)}
  <2>1. {j \in A \cup B : Earlier(j, k)} = A \cup up
    BY <1>4
  <2>2. A \in SUBSET A /\ up \in SUBSET B
    OBVIOUS
  <2> HIDE DEF up
  <2>3. /\ Cardinality(A) \in Nat /\ Cardinality(up) \in Nat
        /\ Cardinality(A \cup up) = Cardinality(A) + Cardinality(up)
    BY <1>2, <2>2
  <2>4. Place(k, A \cup B) = Cardinality(A \cup up) + 1 /\ Place(k, B) = Cardinality(up) + 1
    BY <2>1 DEF Place, up
  <2> QED BY <2>3, <2>4
<1> QED BY <1>3, <1>5, <1>6

(* Files of consecutive days, put together, are the whole ledger and the   *)
(* whole log in order, with nothing twice and nothing left out, however    *)
(* the clock was set meanwhile (web handleSalesExport, handleAuditExport). *)
THEOREM FilesMakeTheWhole == Spec => []FilesAddUp
<1>1. TypeOK => FilesAddUp
  <2> SUFFICES ASSUME TypeOK, NEW d \in Dates
               PROVE  LET end   == ParseSearchTime(d, TRUE)
                          start == ParseSearchTime(d + 1, FALSE)
                      IN  /\ SalesExport({}, end) \cup SalesExport(start, {}) = DOMAIN sales
                          /\ SalesExport({}, end) \cap SalesExport(start, {}) = {}
                          /\ Audit({}, end) \o Audit(start, {}) = Audit({}, {})
    BY DEF FilesAddUp
  <2> DEFINE c == (d + 1) * DayLen
  <2>1. ParseSearchTime(d, TRUE) = {c} /\ ParseSearchTime(d + 1, FALSE) = {c}
    BY DEF ParseSearchTime
  <2>2. c \in Int /\ \A i \in DOMAIN sales : sales[i].at \in Int
    <3>1. DayLen \in Nat \ {0} /\ MaxClock \in Nat
      BY ReportsAssumption
    <3>2. d \in Int
      BY <3>1, DayAndHour DEF Dates
    <3> QED BY <3>1, <3>2 DEF TypeOK, Instants
  <2> HIDE DEF c
  <2>3. /\ SalesExport({}, {c}) = {i \in DOMAIN sales : sales[i].at < c}
        /\ SalesExport({c}, {}) = {i \in DOMAIN sales : sales[i].at >= c}
    BY DEF SalesExport, SalesSince, NotBefore, Before
  <2>4. /\ SalesExport({}, {c}) \cup SalesExport({c}, {}) = DOMAIN sales
        /\ SalesExport({}, {c}) \cap SalesExport({c}, {}) = {}
    <3>1. \A i \in DOMAIN sales : sales[i].at >= c <=> ~(sales[i].at < c)
      BY <2>2
    <3> QED BY <2>3, <3>1
  <2> DEFINE A == AuditLines({}, {c})
             B == AuditLines({c}, {})
             W == AuditLines({}, {})
             a == Audit({}, {c})
             b == Audit({c}, {})
             w == Audit({}, {})
             LogLine == [seq : 1..MaxLog, at : Instants]
  <2>5. /\ A = {k \in DOMAIN log : log[k].at < c}
        /\ B = {k \in DOMAIN log : log[k].at >= c}
        /\ W = DOMAIN log
    BY DEF AuditLines, NotBefore, Before
  <2>6. /\ A \in SUBSET DOMAIN log /\ B \in SUBSET DOMAIN log /\ W = A \cup B
        /\ \A j \in A, k \in B : log[j].at < log[k].at
    <3>1. \A k \in DOMAIN log : log[k].at \in Int
      BY OrderIsTotal
    <3>2. \A k \in DOMAIN log : log[k].at >= c <=> ~(log[k].at < c)
      BY <2>2, <3>1
    <3> HIDE DEF A, B, W
    <3>3. \A j \in A, k \in B : log[j].at < log[k].at
      BY <2>2, <2>5, <3>1
    <3> QED BY <2>5, <3>2, <3>3
  <2>7. /\ a \in Seq(LogLine) /\ Len(a) = Cardinality(A)
        /\ \A k \in A : a[Place(k, A)] = log[k]
    BY AuditIs, ZenonT(30)
  <2>8. /\ b \in Seq(LogLine) /\ Len(b) = Cardinality(B)
        /\ \A k \in B : b[Place(k, B)] = log[k]
    BY AuditIs
  <2>9. /\ w \in Seq(LogLine) /\ Len(w) = Cardinality(W)
        /\ \A k \in W : w[Place(k, W)] = log[k]
    BY AuditIs
  <2> HIDE DEF A, B, W, a, b, w, LogLine
  <2>10. /\ Cardinality(W) = Cardinality(A) + Cardinality(B)
         /\ \A k \in A : Place(k, W) = Place(k, A)
         /\ \A k \in B : Place(k, W) = Cardinality(A) + Place(k, B)
    BY <2>6, PlacesOfBoth
  <2>11. /\ Cardinality(A) \in Nat /\ Cardinality(B) \in Nat
         /\ \A k \in A : Place(k, A) \in 1..Cardinality(A)
         /\ \A k \in B : Place(k, B) \in 1..Cardinality(B)
         /\ \A p \in 1..Cardinality(W) : \E k \in W : Place(k, W) = p
    <3>1. W \in SUBSET DOMAIN log
      BY <2>6
    <3> QED BY <2>6, <3>1, Places
  <2>12. /\ a \o b \in Seq(LogLine)
         /\ Len(a \o b) = Len(a) + Len(b)
         /\ \A i \in 1..Len(a) + Len(b) :
               (a \o b)[i] = IF i <= Len(a) THEN a[i] ELSE b[i - Len(a)]
    BY <2>7, <2>8, ConcatProperties
  <2>13. Len(a \o b) = Len(w)
    BY <2>7, <2>8, <2>9, <2>10, <2>12
  <2>14. ASSUME NEW p \in 1..Len(w)
         PROVE  (a \o b)[p] = w[p]
    <3>1. PICK k \in W : Place(k, W) = p
      BY <2>9, <2>11
    <3>2. w[p] = log[k]
      BY <2>9, <3>1
    <3>3. p \in 1..Len(a) + Len(b)
      BY <2>12, <2>13
    <3>4. CASE k \in A
      <4>1. p = Place(k, A) /\ p <= Len(a)
        BY <2>7, <2>10, <2>11, <3>1, <3>4
      <4>2. (a \o b)[p] = a[p]
        BY <2>12, <3>3, <4>1
      <4> QED BY <2>7, <3>2, <3>4, <4>1, <4>2
    <3>5. CASE k \in B
      <4>1. p = Len(a) + Place(k, B) /\ Place(k, B) \in 1..Len(b)
        BY <2>7, <2>8, <2>10, <2>11, <3>1, <3>5
      <4>2. p - Len(a) = Place(k, B) /\ ~(p <= Len(a))
        BY <2>7, <2>11, <4>1
      <4>3. (a \o b)[p] = b[Place(k, B)]
        BY <2>12, <3>3, <4>2
      <4> QED BY <2>8, <3>2, <3>5, <4>3
    <3> QED BY <2>6, <3>1, <3>4, <3>5
  <2>15. a \o b = w
    BY <2>9, <2>12, <2>13, <2>14, SeqEqual
  <2> QED BY <2>1, <2>4, <2>15 DEF a, b, w
<1> QED BY <1>1, Typed, PTL

-----------------------------------------------------------------------------
(* The dashboard.                                                          *)

(* The ledger is finite, and the till's own sales are in its own zone.     *)
OwnZone ==
    /\ IsFiniteSet(DOMAIN sales)
    /\ \A i \in DOMAIN sales : i \in Own => sales[i].zone = Offset

LEMMA OwnZoneStays == Spec => []OwnZone
<1>1. Init => OwnZone
  <2> SUFFICES ASSUME Init PROVE OwnZone
    OBVIOUS
  <2>1. DOMAIN sales = {}
    BY DEF Init
  <2> QED BY <2>1, FS_EmptySet DEF OwnZone
<1>2. OwnZone /\ [Next]_vars => OwnZone'
  <2> SUFFICES ASSUME OwnZone, [Next]_vars PROVE OwnZone'
    OBVIOUS
  <2>1. ASSUME NEW f, sales' = Joined(sales, f), IsFiniteSet(DOMAIN f),
               \A i \in DOMAIN f : i \in Own => f[i].zone = Offset
        PROVE  OwnZone'
    <3>1. DOMAIN sales' = DOMAIN sales \cup DOMAIN f
      BY <2>1 DEF Joined
    <3>2. \A i \in DOMAIN sales' : i \in Own => sales'[i].zone = Offset
      BY <2>1 DEF Joined, OwnZone
    <3> QED BY <2>1, <3>1, <3>2, FS_Union DEF OwnZone
  <2>2. ASSUME NEW i \in Own, NEW what \in Kinds, CreateSale(i, what)
        PROVE  OwnZone'
    <3> DEFINE sale == [j \in {i} |-> [what |-> what, at |-> now, zone |-> Offset]]
    <3>1. sales' = Joined(sales, sale)
      BY <2>2 DEF CreateSale
    <3>2. DOMAIN sale = {i} /\ sale[i].zone = Offset
      OBVIOUS
    <3> HIDE DEF sale
    <3>3. IsFiniteSet(DOMAIN sale)
      BY <3>2, FS_Singleton
    <3> QED BY <2>1, <3>1, <3>2, <3>3
  <2>3. ASSUME NEW reply \in Replies, ApplyPulled(reply)
        PROVE  OwnZone'
    <3> DEFINE new == [i \in DOMAIN reply \ DOMAIN sales |-> reply[i]]
    <3>1. DOMAIN reply \subseteq DOMAIN sales \cup Others
      BY DEF Replies
    <3>2. DOMAIN new \in SUBSET Others
      BY <3>1
    <3>3. sales' = Joined(sales, new)
      BY <2>3 DEF ApplyPulled
    <3> HIDE DEF new
    <3>4. IsFiniteSet(DOMAIN new) /\ \A i \in DOMAIN new : i \notin Own
      BY <3>2, ReportsAssumption, FS_Subset
    <3> QED BY <2>1, <3>3, <3>4
  <2>4. CASE UNCHANGED sales
    BY <2>4 DEF OwnZone
  <2> QED BY <2>2, <2>3, <2>4 DEF Next, AppendAudit, SetClock, vars
<1> QED BY <1>1, <1>2, PTL DEF Spec

(* The totals of the sales, and what some of them come to.                 *)
Totals == [i \in DOMAIN sales |-> sales[i].what.total]

LEMMA TotalIs ==
    ASSUME TypeOK, OwnZone, NEW some \in SUBSET DOMAIN sales
    PROVE  Addable(Totals, some) /\ Total(some) = SumFunctionOnSet(Totals, some)
<1> DEFINE f == [i \in some |-> sales[i].what.total]
<1>1. \A i \in DOMAIN sales : Totals[i] \in Int
  BY ReportsAssumption DEF TypeOK, Totals
<1>2. Addable(Totals, some)
  BY <1>1, FS_Subset DEF Addable, OwnZone
<1>3. \A i \in some : f[i] = Totals[i]
  BY DEF Totals
<1>4. Addable(f, some)
  BY <1>2, <1>3 DEF Addable
<1>5. Total(some) = SumFunctionOnSet(f, some)
  BY DEF Total, SumFunction
<1> HIDE DEF f
<1> QED BY <1>2, <1>3, <1>4, <1>5, SumSame

(* A day starts at its midnight where the till is.                         *)
LEMMA SinceMidnight ==
    ASSUME NEW t \in Int, NEW day \in Int
    PROVE  t >= day * DayLen - Offset <=> DayIn(Offset, t) >= day
<1> DEFINE d == DayIn(Offset, t)
           h == HourIn(Offset, t)
<1>1. DayLen \in Nat \ {0} /\ Offset \in Int
  BY ReportsAssumption
<1>2. d \in Int /\ h \in 0..(DayLen - 1) /\ t + Offset = d * DayLen + h
  <2>1. t + Offset \in Int
    BY <1>1
  <2>2. d = (t + Offset) \div DayLen /\ h = (t + Offset) % DayLen
    BY DEF DayIn, HourIn
  <2> HIDE DEF d, h
  <2> QED BY <1>1, <2>1, <2>2, DayAndHour
<1> HIDE DEF d, h
<1>3. d * DayLen \in Int /\ day * DayLen \in Int /\ (d + 1) * DayLen = d * DayLen + DayLen
  BY <1>1, <1>2
<1>4. day <= d => day * DayLen <= d * DayLen
  BY <1>1, <1>2, DaysInOrder
<1>5. d + 1 <= day => (d + 1) * DayLen <= day * DayLen
  BY <1>1, <1>2, DaysInOrder
<1>6. t >= day * DayLen - Offset <=> d >= day
  BY <1>1, <1>2, <1>3, <1>4, <1>5
<1> QED BY <1>6 DEF d

(* The instants the dashboard is cut at are midnights.                     *)
LEMMA Midnights ==
    ASSUME now \in Int
    PROVE  LET today == DayIn(Offset, now)
               from  == StartOfDay(now)
           IN  /\ today \in Int /\ from \in Int
               /\ from = today * DayLen - Offset
               /\ from + DayLen = (today + 1) * DayLen - Offset
               /\ from - DayLen = (today - 1) * DayLen - Offset
               /\ from - (Window - 1) * DayLen = (today - (Window - 1)) * DayLen - Offset
               /\ from - (Window - 1) * DayLen <= from
               /\ from - (Window - 1) * DayLen <= from - DayLen
<1> DEFINE today == DayIn(Offset, now)
<1>1. DayLen \in Nat \ {0} /\ Offset \in Int /\ Window \in Nat \ {0, 1}
  BY ReportsAssumption
<1>2. today \in Int
  <2>1. now + Offset \in Int
    BY <1>1
  <2> QED BY <1>1, <2>1, DayAndHour DEF DayIn
<1>3. StartOfDay(now) = today * DayLen - Offset
  BY DEF StartOfDay
<1> HIDE DEF today
<1>4. (Window - 1) * DayLen = DayLen + (Window - 2) * DayLen /\ (Window - 2) * DayLen \in Nat
  BY <1>1
<1>5. /\ today * DayLen \in Int
      /\ (today + 1) * DayLen = today * DayLen + DayLen
      /\ (today - 1) * DayLen = today * DayLen - DayLen
      /\ (today - (Window - 1)) * DayLen = today * DayLen - (Window - 1) * DayLen
  BY <1>1, <1>2
<1> QED BY <1>1, <1>2, <1>3, <1>4, <1>5 DEF today

(* While all sales are the till's own and none is of a later day, each     *)
(* falls in one of the days and one of the hours.                          *)
Whole ==
    /\ DOMAIN sales \subseteq Own
    /\ \A i \in DOMAIN sales : sales[i].at < StartOfDay(now) + DayLen

InWindow == SalesSince({StartOfDay(now) - (Window - 1) * DayLen})
DayOf == [i \in InWindow |-> DayIn(Offset, sales[i].at) - DayIn(Offset, now) + Window]
HourOf == [i \in InWindow |-> HourIn(Offset, sales[i].at)]

LEMMA DaysOfSales ==
    ASSUME TypeOK, OwnZone, Whole, NEW i \in DOMAIN sales
    PROVE  LET today == DayIn(Offset, now)
               from  == StartOfDay(now)
               day   == DayIn(sales[i].zone, sales[i].at)
               hour  == HourIn(sales[i].zone, sales[i].at)
           IN  /\ day = DayIn(Offset, sales[i].at) /\ day \in Int /\ day <= today
               /\ hour = HourIn(Offset, sales[i].at) /\ hour \in 0..(DayLen - 1)
               /\ sales[i].at >= from <=> day = today
               /\ sales[i].at \in (from - DayLen)..(from - 1) <=> day = today - 1
               /\ i \in InWindow <=> day >= today - (Window - 1)
<1> DEFINE t == sales[i].at
           today == DayIn(Offset, now)
           from == StartOfDay(now)
           day == DayIn(Offset, t)
           hour == HourIn(Offset, t)
<1>1. t \in Int /\ now \in Int /\ DayLen \in Nat \ {0} /\ Offset \in Int
      /\ Window \in Nat \ {0, 1}
  BY ReportsAssumption DEF TypeOK, Instants
<1>2. sales[i].zone = Offset
  BY DEF OwnZone, Whole
<1>3. day \in Int /\ hour \in 0..(DayLen - 1)
  <2>1. t + Offset \in Int
    BY <1>1
  <2> HIDE DEF t
  <2> QED BY <1>1, <2>1, DayAndHour DEF DayIn, HourIn
<1>4. /\ today \in Int /\ from \in Int
      /\ from = today * DayLen - Offset
      /\ from + DayLen = (today + 1) * DayLen - Offset
      /\ from - DayLen = (today - 1) * DayLen - Offset
      /\ from - (Window - 1) * DayLen = (today - (Window - 1)) * DayLen - Offset
  BY <1>1, Midnights
<1>5. t < from + DayLen
  BY DEF Whole
<1>6. i \in InWindow <=> t >= from - (Window - 1) * DayLen
  BY DEF InWindow, SalesSince, NotBefore
<1> HIDE DEF t, today, from
<1>7. /\ t >= from <=> day >= today
      /\ t >= from + DayLen <=> day >= today + 1
      /\ t >= from - DayLen <=> day >= today - 1
      /\ t >= from - (Window - 1) * DayLen <=> day >= today - (Window - 1)
  <2>1. /\ today + 1 \in Int /\ today - 1 \in Int /\ today - (Window - 1) \in Int
    BY <1>1, <1>4
  <2> QED BY <1>1, <1>4, <2>1, SinceMidnight
<1> HIDE DEF day, hour
<1>8. day <= today
  BY <1>1, <1>3, <1>4, <1>5, <1>7
<1>9. /\ t >= from <=> day = today
      /\ t \in (from - DayLen)..(from - 1) <=> day = today - 1
  BY <1>1, <1>3, <1>4, <1>7, <1>8
<1> QED BY <1>2, <1>3, <1>6, <1>7, <1>8, <1>9 DEF t, today, from, day, hour

(* The bars of a chart are the parts of the window's sales.                *)
LEMMA ChartsAreParts ==
    ASSUME TypeOK, OwnZone, Whole
    PROVE  /\ Analytics.days = Parts(Totals, DayOf, InWindow, 1..Window)
           /\ Analytics.hours = Parts(Totals, HourOf, InWindow, 0..(DayLen - 1))
<1>1. InWindow \in SUBSET DOMAIN sales
  BY DEF InWindow, SalesSince
<1>2. DayLen \in Nat \ {0} /\ Window \in Nat \ {0, 1} /\ DayIn(Offset, now) \in Int
  BY ReportsAssumption, Midnights DEF TypeOK, Instants
<1>3. ASSUME NEW k \in 1..Window
      PROVE  Total({i \in InWindow :
                 DayIn(sales[i].zone, sales[i].at) = DayIn(Offset, now) - Window + k})
             = Part(Totals, DayOf, InWindow, k)
  <2> DEFINE some == {i \in InWindow :
                 DayIn(sales[i].zone, sales[i].at) = DayIn(Offset, now) - Window + k}
  <2>1. some \in SUBSET DOMAIN sales
    BY <1>1
  <2>2. ASSUME NEW i \in InWindow
        PROVE  DayIn(sales[i].zone, sales[i].at) = DayIn(Offset, now) - Window + k
               <=> DayOf[i] = k
    <3>1. /\ DayIn(sales[i].zone, sales[i].at) = DayIn(Offset, sales[i].at)
          /\ DayIn(Offset, sales[i].at) \in Int
      BY <1>1, DaysOfSales
    <3>2. DayOf[i] = DayIn(Offset, sales[i].at) - DayIn(Offset, now) + Window
      BY DEF DayOf
    <3> QED BY <1>2, <3>1, <3>2
  <2>3. some = {i \in InWindow : DayOf[i] = k}
    BY <2>2
  <2> HIDE DEF some
  <2>4. Total(some) = Part(Totals, DayOf, InWindow, k)
    BY <2>1, <2>3, TotalIs DEF Part
  <2> QED BY <2>4 DEF some
<1>4. ASSUME NEW h \in 0..(DayLen - 1)
      PROVE  Total({i \in InWindow : HourIn(sales[i].zone, sales[i].at) = h})
             = Part(Totals, HourOf, InWindow, h)
  <2> DEFINE some == {i \in InWindow : HourIn(sales[i].zone, sales[i].at) = h}
  <2>1. some \in SUBSET DOMAIN sales
    BY <1>1
  <2>2. \A i \in InWindow : HourIn(sales[i].zone, sales[i].at) = HourOf[i]
    BY <1>1, DaysOfSales DEF HourOf
  <2>3. some = {i \in InWindow : HourOf[i] = h}
    BY <2>2
  <2> HIDE DEF some
  <2>4. Total(some) = Part(Totals, HourOf, InWindow, h)
    BY <2>1, <2>3, TotalIs DEF Part
  <2> QED BY <2>4 DEF some
<1>5. Analytics.days = [k \in 1..Window |-> Total({i \in InWindow :
          DayIn(sales[i].zone, sales[i].at) = DayIn(Offset, now) - Window + k})]
  BY DEF Analytics, InWindow
<1>6. Analytics.hours = [h \in 0..(DayLen - 1) |->
          Total({i \in InWindow : HourIn(sales[i].zone, sales[i].at) = h})]
  BY DEF Analytics, InWindow
<1> QED BY <1>3, <1>4, <1>5, <1>6 DEF Parts

(* The days and the hours have one sum: that of the window's sales.        *)
LEMMA ChartsAddUp ==
    ASSUME TypeOK, OwnZone, Whole
    PROVE  SumFunction(Analytics.days) = SumFunction(Analytics.hours)
<1> DEFINE days == Parts(Totals, DayOf, InWindow, 1..Window)
           hours == Parts(Totals, HourOf, InWindow, 0..(DayLen - 1))
<1>1. InWindow \in SUBSET DOMAIN sales
  BY DEF InWindow, SalesSince
<1>2. Addable(Totals, InWindow)
  BY <1>1, TotalIs
<1>3. DayLen \in Nat \ {0} /\ Window \in Nat \ {0, 1} /\ DayIn(Offset, now) \in Int
  BY ReportsAssumption, Midnights DEF TypeOK, Instants
<1>4. IsFiniteSet(1..Window) /\ IsFiniteSet(0..(DayLen - 1))
  BY <1>3, FS_Interval
<1>5. \A i \in InWindow : DayOf[i] \in 1..Window /\ HourOf[i] \in 0..(DayLen - 1)
  <2> SUFFICES ASSUME NEW i \in InWindow
               PROVE  DayOf[i] \in 1..Window /\ HourOf[i] \in 0..(DayLen - 1)
    OBVIOUS
  <2> DEFINE day == DayIn(Offset, sales[i].at)
             today == DayIn(Offset, now)
  <2>1. /\ day \in Int /\ day <= today /\ day >= today - (Window - 1)
        /\ HourIn(Offset, sales[i].at) \in 0..(DayLen - 1)
    BY <1>1, DaysOfSales
  <2>2. DayOf[i] = day - today + Window /\ HourOf[i] = HourIn(Offset, sales[i].at)
    BY DEF DayOf, HourOf
  <2> HIDE DEF day, today
  <2>3. today \in Int
    BY <1>3 DEF today
  <2> QED BY <1>3, <2>1, <2>2, <2>3
<1>6. /\ SumFunctionOnSet(days, 1..Window) = SumFunctionOnSet(Totals, InWindow)
      /\ SumFunctionOnSet(hours, 0..(DayLen - 1)) = SumFunctionOnSet(Totals, InWindow)
  BY <1>2, <1>4, <1>5, SumByParts
<1>7. DOMAIN days = 1..Window /\ DOMAIN hours = 0..(DayLen - 1)
  BY DEF Parts
<1>8. Analytics.days = days /\ Analytics.hours = hours
  BY ChartsAreParts
<1> HIDE DEF days, hours
<1> QED BY <1>6, <1>7, <1>8 DEF SumFunction

(* The dashboard's today is the list's, always; and while the till has     *)
(* made all its sales itself, none dated after today, its last two bars    *)
(* are today and yesterday, and its days and its hours have one sum: for   *)
(* any zone, any window and any ledger (boltstore Analytics).              *)
THEOREM DashboardIsRight == Spec => []DashboardAddsUp
<1>1. ASSUME TypeOK, OwnZone PROVE DashboardAddsUp
  <2> USE <1>1
  <2> DEFINE today == DayIn(Offset, now)
             from == StartOfDay(now)
             inWindow == SalesSince({from - (Window - 1) * DayLen})
             some == {i \in inWindow : sales[i].at >= from}
             before == {i \in inWindow : sales[i].at \in (from - DayLen)..(from - 1)}
  <2>1. now \in Int /\ Window \in Nat \ {0, 1} /\ DayLen \in Nat \ {0}
        /\ \A i \in DOMAIN sales : sales[i].at \in Int
    BY ReportsAssumption DEF TypeOK, Instants
  <2>2. today \in Int /\ from \in Int
        /\ from - (Window - 1) * DayLen \in Int /\ from - (Window - 1) * DayLen <= from
    <3>1. (Window - 1) * DayLen \in Int
      BY <2>1
    <3> QED BY <2>1, <3>1, Midnights
  <2>3. Analytics.today = Summary(some) /\ Analytics.yesterday = Summary(before)
    BY DEF Analytics
  <2>4. some = SalesSince({from})
    <3> HIDE DEF from
    <3> QED BY <2>1, <2>2 DEF SalesSince, NotBefore
  <2>5. Analytics.today = SalesToday
    BY <2>3, <2>4 DEF SalesToday
  <2>6. ASSUME Whole
        PROVE  /\ Analytics.days[Window] = Analytics.today.total
               /\ Analytics.days[Window - 1] = Analytics.yesterday.total
    <3>1. \A i \in inWindow : sales[i].at >= from <=>
              DayIn(sales[i].zone, sales[i].at) = today - Window + Window
      BY <2>1, <2>2, <2>6, DaysOfSales DEF SalesSince
    <3>2. \A i \in inWindow : sales[i].at \in (from - DayLen)..(from - 1) <=>
              DayIn(sales[i].zone, sales[i].at) = today - Window + (Window - 1)
      BY <2>1, <2>2, <2>6, DaysOfSales DEF SalesSince
    <3>3. /\ some = {i \in inWindow :
                  DayIn(sales[i].zone, sales[i].at) = today - Window + Window}
          /\ before = {i \in inWindow :
                  DayIn(sales[i].zone, sales[i].at) = today - Window + (Window - 1)}
      BY <3>1, <3>2
    <3>4. Window \in 1..Window /\ Window - 1 \in 1..Window
      BY <2>1
    <3>5. Analytics.days = [k \in 1..Window |-> Total({i \in inWindow :
              DayIn(sales[i].zone, sales[i].at) = today - Window + k})]
      BY DEF Analytics
    <3> HIDE DEF today, inWindow, some, before
    <3>6. /\ Analytics.days[Window] = Total(some)
          /\ Analytics.days[Window - 1] = Total(before)
      BY <3>3, <3>4, <3>5
    <3> QED BY <2>3, <3>6 DEF Summary
  <2>7. Whole => SumFunction(Analytics.days) = SumFunction(Analytics.hours)
    BY ChartsAddUp
  <2> QED BY <2>5, <2>6, <2>7 DEF DashboardAddsUp, Whole
<1> QED BY <1>1, Typed, OwnZoneStays, PTL

-----------------------------------------------------------------------------
(* The pages of an export.                                                 *)

LEMMA PerPageIs ==
    /\ PerPage \in Nat \ {0}
    /\ LineH * (PerPage - 1) <= TitleY - 22 - 2 * LineH - Bottom
    /\ TitleY - 22 - 2 * LineH - Bottom < LineH * PerPage
<1> DEFINE usable == TitleY - 22 - 2 * LineH - Bottom
<1>1. usable \in Nat /\ LineH \in Nat \ {0}
  BY FilesAssumption DEF LineH, Bottom
<1>2. usable \div LineH \in Nat /\ LineH * (usable \div LineH) <= usable
      /\ usable < LineH * (usable \div LineH) + LineH
  BY <1>1, DivBounds
<1>3. PerPage = usable \div LineH + 1
  BY DEF PerPage
<1> HIDE DEF usable
<1>4. /\ PerPage \in Nat \ {0}
      /\ LineH * (PerPage - 1) <= usable /\ usable < LineH * PerPage
  BY <1>1, <1>2, <1>3 DEF LineH
<1> QED BY <1>4 DEF usable

(* A full page ends above its bottom, and has no room for a line more      *)
(* (pdfdoc.go writePDF perPage).                                           *)
THEOREM PageIsFull == LineY(PerPage) >= Bottom /\ LineY(PerPage + 1) < Bottom
BY PerPageIs, FilesAssumption DEF LineY, LineH, Bottom

(* Where the pages break: the lines of page i follow those of the pages    *)
(* before it, it has at least one and at most PerPage of them, and every   *)
(* line of the table is on one of the pages (writePDF, its loop).          *)
THEOREM PagesPartition ==
    ASSUME NEW S, NEW lines \in Seq(S)
    PROVE  /\ \A i \in 0..(PageCount(Len(lines)) - 1) :
                 /\ Len(PageLines(lines, i)) \in 1..PerPage
                 /\ \A j \in 1..Len(PageLines(lines, i)) :
                       PageLines(lines, i)[j] = lines[i * PerPage + j]
           /\ \A k \in 1..Len(lines) : \E i \in 0..(PageCount(Len(lines)) - 1) :
                 k - i * PerPage \in 1..Len(PageLines(lines, i))
<1> DEFINE n == Len(lines)
           P == PerPage
           count == PageCount(n)
<1>1. n \in Nat /\ P \in Nat \ {0}
  BY PerPageIs
<1>2. count \in Nat /\ P * count <= n + P - 1 /\ n + P - 1 < P * count + P
  <2>1. n + P - 1 \in Nat
    BY <1>1
  <2> QED BY <1>1, <2>1, DivBounds DEF PageCount
<1>3. ASSUME NEW i \in Nat
      PROVE  /\ Len(PageLines(lines, i)) =
                    IF n <= i * P THEN 0 ELSE Capped(n - i * P, P)
             /\ \A j \in 1..Len(PageLines(lines, i)) :
                   PageLines(lines, i)[j] = lines[i * P + j]
  <2> DEFINE a == i * P
             b == Capped(n, a + P)
  <2>1. a \in Nat
    BY <1>1
  <2>2. PageLines(lines, i) = SubSeq(lines, a + 1, b)
    BY DEF PageLines
  <2> HIDE DEF a, n, P
  <2>3. b \in Nat /\ b <= n
    BY <1>1, <2>1 DEF Capped
  <2>4. /\ Len(SubSeq(lines, a + 1, b)) = IF a + 1 <= b THEN b - a ELSE 0
        /\ \A j \in 1..Len(SubSeq(lines, a + 1, b)) :
              SubSeq(lines, a + 1, b)[j] = lines[a + j]
    BY <1>1, <2>1, <2>3 DEF n
  <2>5. (IF a + 1 <= b THEN b - a ELSE 0) = IF n <= a THEN 0 ELSE Capped(n - a, P)
    BY <1>1, <2>1 DEF Capped
  <2> HIDE DEF b
  <2> QED BY <2>2, <2>4, <2>5 DEF a, P
<1> HIDE DEF n, P, count
<1>4. ASSUME NEW i \in 0..(count - 1)
      PROVE  i * P < n
  <2>1. (count - 1 - i) * P \in Nat
    <3>1. count - 1 - i \in Nat
      BY <1>2
    <3> QED BY <1>1, <3>1
  <2>2. (count - 1 - i) * P = P * count - P - i * P
    BY <1>1, <1>2
  <2> QED BY <1>1, <1>2, <2>1, <2>2
<1>5. ASSUME NEW i \in 0..(count - 1)
      PROVE  /\ Len(PageLines(lines, i)) \in 1..P
             /\ \A j \in 1..Len(PageLines(lines, i)) :
                   PageLines(lines, i)[j] = lines[i * P + j]
  <2>1. i \in Nat /\ i * P \in Nat
    BY <1>1, <1>2
  <2> QED BY <1>1, <1>3, <1>4, <2>1 DEF Capped
<1>6. ASSUME NEW k \in 1..n
      PROVE  \E i \in 0..(count - 1) : k - i * P \in 1..Len(PageLines(lines, i))
  <2> DEFINE i == (k - 1) \div P
  <2>1. i \in Nat /\ P * i <= k - 1 /\ k - 1 < P * i + P
    <3>1. k - 1 \in Nat
      BY <1>1
    <3> QED BY <1>1, <3>1, DivBounds
  <2> HIDE DEF i
  <2>2. i <= count - 1
    <3>1. SUFFICES ASSUME i >= count PROVE FALSE
      BY <1>2, <2>1
    <3>2. (i - count) * P \in Nat
      BY <1>1, <1>2, <2>1, <3>1
    <3>3. (i - count) * P = P * i - P * count
      BY <1>1, <1>2, <2>1
    <3> QED BY <1>1, <1>2, <2>1, <3>2, <3>3
  <2>3. i * P = P * i
    BY <1>1, <2>1
  <2>4. Len(PageLines(lines, i)) = IF n <= i * P THEN 0 ELSE Capped(n - i * P, P)
    BY <1>3, <2>1
  <2>5. k - i * P \in 1..Len(PageLines(lines, i))
    BY <1>1, <2>1, <2>3, <2>4 DEF Capped
  <2> QED BY <1>2, <2>1, <2>2, <2>5
<1> QED BY <1>5, <1>6 DEF n, P, count

(* Narrowing the columns takes one character of one column at a time,      *)
(* never of one that holds money, and never below the narrowest, so what   *)
(* fitWidths ends with keeps money as wide as it was (pdfdoc.go            *)
(* fitWidths).                                                             *)
THEOREM MoneyKeepsItsWidth ==
    ASSUME NEW widths \in Seq(Nat), NEW numeric \in [DOMAIN widths -> BOOLEAN]
    PROVE  LET shrunk == Shrink(numeric, widths)
           IN  /\ shrunk \in Seq(Nat) /\ Len(shrunk) = Len(widths)
               /\ \A c \in DOMAIN widths : numeric[c] => shrunk[c] = widths[c]
               /\ \A c \in DOMAIN widths : shrunk[c] # widths[c] =>
                     /\ shrunk[c] = widths[c] - 1 /\ shrunk[c] >= Narrowest
                     /\ \A d \in DOMAIN widths \ {c} : shrunk[d] = widths[d]
<1> DEFINE victims == Victims(numeric, widths)
           shrunk == [c \in DOMAIN widths |->
               IF c \in victims THEN widths[c] - 1 ELSE widths[c]]
<1>1. /\ \A c \in victims : c \in DOMAIN widths /\ ~numeric[c] /\ widths[c] > 6
      /\ \A c, d \in victims : c = d
  BY DEF Victims, Narrowest
<1>2. DOMAIN widths = 1..Len(widths) /\ \A c \in DOMAIN widths : widths[c] \in Nat
  OBVIOUS
<1> HIDE DEF victims
<1>3. \A c \in DOMAIN widths : shrunk[c] = IF c \in victims THEN widths[c] - 1 ELSE widths[c]
  OBVIOUS
<1>4. \A c \in DOMAIN widths : shrunk[c] \in Nat
  BY <1>1, <1>2
<1>5. shrunk \in Seq(Nat) /\ Len(shrunk) = Len(widths)
  BY <1>2, <1>4
<1>6. Shrink(numeric, widths) = shrunk
  BY DEF Shrink, victims
<1> HIDE DEF shrunk
<1> QED BY <1>1, <1>2, <1>3, <1>5, <1>6 DEF Narrowest

-----------------------------------------------------------------------------
(* What a reader of the pages finds.                                       *)

(* The recursive function behind FlattenSeq: what the sequences up to one  *)
(* are, put together.                                                      *)
Joins(f, seqs) ==
    f = [i \in 1..Len(seqs) |-> IF i = 1 THEN seqs[i] ELSE f[i - 1] \o seqs[i]]

LEMMA FlattenIs ==
    ASSUME NEW seqs, Len(seqs) \in Nat \ {0}, NEW g, Joins(g, seqs)
    PROVE  FlattenSeq(seqs) = g[Len(seqs)]
<1> DEFINE n == Len(seqs)
           f == CHOOSE h : Joins(h, seqs)
           Bad == {i \in 1..n : f[i] # g[i]}
<1>1. Joins(f, seqs)
  OBVIOUS
<1>2. FlattenSeq(seqs) = f[n]
  BY DEF FlattenSeq, Joins
<1> HIDE DEF f
<1>3. ASSUME NEW i \in Bad, \A j \in Bad : i <= j PROVE FALSE
  <2>1. /\ f[i] = IF i = 1 THEN seqs[i] ELSE f[i - 1] \o seqs[i]
        /\ g[i] = IF i = 1 THEN seqs[i] ELSE g[i - 1] \o seqs[i]
    BY <1>1 DEF Joins
  <2>2. CASE i = 1
    BY <2>1, <2>2
  <2>3. CASE i # 1
    <3>1. i - 1 \in 1..n /\ i - 1 \notin Bad
      BY <1>3, <2>3
    <3> QED BY <2>1, <2>3, <3>1
  <2> QED BY <2>2, <2>3
<1>4. Bad = {}
  <2> SUFFICES ASSUME Bad # {} PROVE FALSE
    OBVIOUS
  <2>1. Bad \subseteq Nat
    OBVIOUS
  <2> HIDE DEF Bad
  <2>2. PICK i \in Bad : \A j \in Bad : i <= j
    BY <2>1, Least
  <2> QED BY <1>3, <2>2
<1>5. n \in 1..n
  OBVIOUS
<1> QED BY <1>2, <1>4, <1>5

LEMMA SubSeqsJoin ==
    ASSUME NEW S, NEW s \in Seq(S), NEW a \in Nat, NEW b \in Nat, a <= b, b <= Len(s)
    PROVE  SubSeq(s, 1, a) \o SubSeq(s, a + 1, b) = SubSeq(s, 1, b)
<1> DEFINE one == SubSeq(s, 1, a)
           two == SubSeq(s, a + 1, b)
           all == SubSeq(s, 1, b)
<1>1. \A i \in 1..Len(s) : s[i] \in S
  OBVIOUS
<1>2. /\ one \in Seq(S) /\ Len(one) = a
      /\ \A i \in 1..a : one[i] = s[i]
  BY <1>1, SubSeqProperties
<1>3. /\ two \in Seq(S) /\ Len(two) = b - a
      /\ \A i \in 1..(b - a) : two[i] = s[a + i]
  BY <1>1, SubSeqProperties
<1>4. /\ all \in Seq(S) /\ Len(all) = b
      /\ \A i \in 1..b : all[i] = s[i]
  BY <1>1, SubSeqProperties
<1> HIDE DEF one, two, all
<1> DEFINE both == one \o two
<1>5. /\ both \in Seq(S) /\ Len(both) = Len(one) + Len(two)
      /\ \A i \in 1..(Len(one) + Len(two)) :
            both[i] = IF i <= Len(one) THEN one[i] ELSE two[i - Len(one)]
  <2>1. one \in Seq(S) /\ two \in Seq(S)
    BY <1>2, <1>3
  <2> QED BY <2>1, ConcatProperties
<1> HIDE DEF both
<1>6. ASSUME NEW i \in 1..b PROVE both[i] = all[i]
  <2>1. both[i] = IF i <= a THEN one[i] ELSE two[i - a]
    <3>1. Len(one) + Len(two) = b
      BY <1>2, <1>3
    <3> QED BY <1>2, <1>5, <3>1
  <2>2. CASE i <= a
    <3>1. i \in 1..a
      BY <2>2
    <3> QED BY <1>2, <1>4, <2>1, <2>2, <3>1
  <2>3. CASE ~(i <= a)
    <3>1. i - a \in 1..(b - a) /\ a + (i - a) = i
      BY <2>3
    <3>2. two[i - a] = s[i]
      BY <1>3, <3>1
    <3> QED BY <1>4, <2>1, <2>3, <3>2
  <2> QED BY <2>2, <2>3
<1>7. Len(both) = b
  BY <1>2, <1>3, <1>5
<1>8. both = all
  BY <1>4, <1>5, <1>6, <1>7, SeqEqual
<1> QED BY <1>8 DEF both, one, two, all

(* The last page is the first that reaches the last line.                  *)
LEMMA PageCountIs ==
    ASSUME NEW n \in Nat \ {0}
    PROVE  /\ PageCount(n) \in Nat \ {0}
           /\ (PageCount(n) - 1) * PerPage < n
           /\ n <= PageCount(n) * PerPage
<1> DEFINE P == PerPage
           count == PageCount(n)
<1>1. P \in Nat \ {0}
  BY PerPageIs
<1>2. count \in Nat /\ P * count <= n + P - 1 /\ n + P - 1 < P * count + P
  <2>1. n + P - 1 \in Nat
    BY <1>1
  <2> QED BY <1>1, <2>1, DivBounds DEF PageCount
<1> HIDE DEF P, count
<1>3. P * count = count * P /\ (count - 1) * P = count * P - P
  BY <1>1, <1>2
<1>4. count # 0
  BY <1>1, <1>2
<1> QED BY <1>1, <1>2, <1>3, <1>4 DEF P, count

(* Put together, the pages of a file are its lines.                        *)
LEMMA PagesJoin ==
    ASSUME NEW S, NEW lines \in Seq(S), lines # << >>
    PROVE  FlattenSeq([k \in 1..PageCount(Len(lines)) |-> PageLines(lines, k - 1)]) = lines
<1> DEFINE L == Len(lines)
           P == PerPage
           n == PageCount(L)
           pages == [k \in 1..n |-> PageLines(lines, k - 1)]
           g == [k \in 1..n |-> SubSeq(lines, 1, Capped(L, k * P))]
<1>1. L \in Nat \ {0} /\ P \in Nat \ {0}
  BY PerPageIs
<1>2. n \in Nat \ {0} /\ (n - 1) * P < L /\ L <= n * P
  BY <1>1, PageCountIs
<1>3. Len(pages) = n
  BY <1>2
<1>4. ASSUME NEW k \in 1..n
      PROVE  g[k] = IF k = 1 THEN pages[k] ELSE g[k - 1] \o pages[k]
  <2> DEFINE a == (k - 1) * P
             b == Capped(L, k * P)
  <2>1. a \in Nat /\ k * P = a + P
    BY <1>1
  <2>2. a < L
    <3>1. (n - k) * P \in Nat /\ (n - 1) * P = (n - k) * P + a
      BY <1>1, <1>2
    <3> QED BY <1>1, <1>2, <2>1, <3>1
  <2>3. b \in Nat /\ a <= b /\ b <= L
    BY <1>1, <2>1, <2>2 DEF Capped
  <2>4. pages[k] = SubSeq(lines, a + 1, b)
    BY <2>1 DEF PageLines
  <2>5. CASE k = 1
    <3>1. a = 0
      BY <1>1, <2>5
    <3> QED BY <2>4, <2>5, <3>1
  <2>6. CASE k # 1
    <3>1. g[k - 1] = SubSeq(lines, 1, a)
      <4>1. Capped(L, a) = a
        BY <1>1, <2>1, <2>2 DEF Capped
      <4>2. k - 1 \in 1..n
        BY <1>2, <2>6
      <4> HIDE DEF n, P, L
      <4> QED BY <4>1, <4>2 DEF g
    <3> HIDE DEF a, b, g, pages
    <3>2. SubSeq(lines, 1, a) \o SubSeq(lines, a + 1, b) = SubSeq(lines, 1, b)
      BY <2>1, <2>3, SubSeqsJoin
    <3>3. g[k] = SubSeq(lines, 1, b)
      BY DEF g, b
    <3> QED BY <2>4, <2>6, <3>1, <3>2, <3>3
  <2> QED BY <2>5, <2>6
<1>5. Joins(g, pages)
  BY <1>3, <1>4 DEF Joins
<1>6. g[n] = lines
  <2>1. Capped(L, n * P) = L
    BY <1>1, <1>2 DEF Capped
  <2> QED BY <1>2, <2>1, SubSeqFull
<1> HIDE DEF g, pages
<1>7. FlattenSeq(pages) = g[n]
  BY <1>2, <1>3, <1>5, FlattenIs
<1> QED BY <1>6, <1>7 DEF pages
Paired(n, one, two) == [k \in 1..n |-> <<one[k], two[k]>>]

Alternate(n, U, one, two) ==
    LET flat == FlattenSeq(Paired(n, one, two))
    IN  /\ flat \in Seq(U) /\ Len(flat) = 2 * n
        /\ \A k \in 1..n : flat[2 * k - 1] = one[k] /\ flat[2 * k] = two[k]

(* Two objects a page, each at its place.                                  *)
LEMMA PairsJoin ==
    ASSUME NEW n \in Nat \ {0}, NEW U, NEW one \in [1..n -> U], NEW two \in [1..n -> U]
    PROVE  Alternate(n, U, one, two)
<1> DEFINE pairs == [k \in 1..n |-> <<one[k], two[k]>>]
           Half(i) == (i + 1) \div 2
           Obj(i) == IF i = 2 * Half(i) THEN two[Half(i)] ELSE one[Half(i)]
           g == [k \in 1..n |-> [i \in 1..(2 * k) |-> Obj(i)]]
<1>1. ASSUME NEW k \in 1..n
      PROVE  Obj(2 * k) = two[k] /\ Obj(2 * k - 1) = one[k]
  <2>1. Half(2 * k) = k /\ Half(2 * k - 1) = k /\ 2 * k - 1 # 2 * k
    OBVIOUS
  <2> HIDE DEF Half
  <2> QED BY <2>1
<1>2. ASSUME NEW k \in 1..n, NEW i \in 1..(2 * k) PROVE Obj(i) \in U
  <2>1. Half(i) \in 1..n
    OBVIOUS
  <2> HIDE DEF Half
  <2> QED BY <2>1
<1>3. ASSUME NEW k \in 1..n
      PROVE  /\ g[k] \in Seq(U) /\ Len(g[k]) = 2 * k
             /\ \A i \in 1..(2 * k) : g[k][i] = Obj(i)
  <2>1. 2 * k \in Nat
    OBVIOUS
  <2> HIDE DEF Obj
  <2> QED BY <1>2, <2>1
<1>4. ASSUME NEW k \in 1..n
      PROVE  /\ pairs[k] \in Seq(U) /\ Len(pairs[k]) = 2
             /\ pairs[k][1] = Obj(2 * k - 1) /\ pairs[k][2] = Obj(2 * k)
  <2> HIDE DEF Obj
  <2> QED BY <1>1
<1> HIDE DEF Obj, Half
<1>5. ASSUME NEW k \in 1..n
      PROVE  g[k] = IF k = 1 THEN pairs[k] ELSE g[k - 1] \o pairs[k]
  <2>1. CASE k = 1
    <3> HIDE DEF g, pairs
    <3>1. /\ g[k] \in Seq(U) /\ Len(g[k]) = 2 * k
          /\ \A i \in 1..(2 * k) : g[k][i] = Obj(i)
      BY <1>3
    <3>2. /\ pairs[k] \in Seq(U) /\ Len(pairs[k]) = 2
          /\ pairs[k][1] = Obj(2 * k - 1) /\ pairs[k][2] = Obj(2 * k)
      BY <1>4
    <3>3. 2 * k = 2 /\ 2 * k - 1 = 1
      BY <2>1
    <3>4. \A i \in 1..2 : g[k][i] = pairs[k][i]
      BY <3>1, <3>2, <3>3
    <3>5. g[k] = pairs[k]
      BY <3>1, <3>2, <3>3, <3>4, SeqEqual
    <3> QED BY <2>1, <3>5
  <2>2. CASE k # 1
    <3> DEFINE both == g[k - 1] \o pairs[k]
               m == 2 * (k - 1)
    <3>1. k - 1 \in 1..n /\ m \in Nat /\ 2 * k = m + 2
      BY <2>2
    <3> HIDE DEF g, pairs
    <3>2. /\ g[k - 1] \in Seq(U) /\ Len(g[k - 1]) = m
          /\ \A i \in 1..m : g[k - 1][i] = Obj(i)
      BY <1>3, <3>1
    <3> HIDE DEF m
    <3>3. /\ pairs[k] \in Seq(U) /\ Len(pairs[k]) = 2
          /\ pairs[k][1] = Obj(m + 1) /\ pairs[k][2] = Obj(m + 2)
      <4>1. 2 * k - 1 = m + 1
        BY <3>1
      <4> QED BY <1>4, <3>1, <4>1
    <3>4. /\ both \in Seq(U) /\ Len(both) = m + 2
          /\ \A i \in 1..(m + 2) :
                both[i] = IF i <= m THEN g[k - 1][i] ELSE pairs[k][i - m]
      <4> DEFINE a == g[k - 1]
                 b == pairs[k]
      <4>1. /\ a \in Seq(U) /\ b \in Seq(U) /\ Len(a) = m /\ Len(b) = 2
        BY <3>2, <3>3
      <4> HIDE DEF a, b
      <4>2. /\ a \o b \in Seq(U) /\ Len(a \o b) = m + 2
            /\ \A i \in 1..(m + 2) : (a \o b)[i] = IF i <= m THEN a[i] ELSE b[i - m]
        <5>1. /\ a \o b \in Seq(U) /\ Len(a \o b) = Len(a) + Len(b)
              /\ \A i \in 1..(Len(a) + Len(b)) :
                    (a \o b)[i] = IF i <= Len(a) THEN a[i] ELSE b[i - Len(a)]
          BY <4>1, ConcatProperties
        <5> QED BY <4>1, <5>1
      <4> QED BY <4>2 DEF a, b
    <3> HIDE DEF both
    <3>5. /\ g[k] \in Seq(U) /\ Len(g[k]) = m + 2
          /\ \A i \in 1..(m + 2) : g[k][i] = Obj(i)
      BY <1>3, <3>1
    <3>6. ASSUME NEW i \in 1..(m + 2) PROVE both[i] = g[k][i]
      <4>1. CASE i <= m
        <5>1. i \in 1..m
          BY <3>1, <4>1
        <5>2. both[i] = g[k - 1][i]
          BY <3>4, <4>1
        <5> QED BY <3>2, <3>5, <5>1, <5>2
      <4>2. CASE i = m + 1
        <5>1. both[i] = pairs[k][1]
          BY <3>1, <3>4, <4>2
        <5> QED BY <3>3, <3>5, <4>2, <5>1
      <4>3. CASE i = m + 2
        <5>1. both[i] = pairs[k][2]
          BY <3>1, <3>4, <4>3
        <5> QED BY <3>3, <3>5, <4>3, <5>1
      <4> QED BY <3>1, <4>1, <4>2, <4>3
    <3>7. both = g[k]
      BY <3>4, <3>5, <3>6, SeqEqual
    <3> QED BY <2>2, <3>7 DEF both
  <2> QED BY <2>1, <2>2
<1>6. Len(pairs) = n
  OBVIOUS
<1>7. Joins(g, pairs)
  BY <1>5, <1>6 DEF Joins
<1> HIDE DEF g
<1>8. FlattenSeq(pairs) = g[n]
  <2> HIDE DEF pairs
  <2> QED BY <1>6, <1>7, FlattenIs
<1>9. n \in 1..n
  OBVIOUS
<1>11. Paired(n, one, two) = pairs
  BY DEF Paired
<1> HIDE DEF pairs
<1>10. ASSUME NEW k \in 1..n PROVE g[n][2 * k - 1] = one[k] /\ g[n][2 * k] = two[k]
  <2>1. 2 * k \in 1..(2 * n) /\ 2 * k - 1 \in 1..(2 * n)
    OBVIOUS
  <2> QED BY <1>1, <1>3, <1>9, <2>1
<1> QED BY <1>3, <1>8, <1>9, <1>10, <1>11 DEF Alternate

(* The lines of the pages, in order.                                       *)
Lines(t) ==
    IF t.rows = << >> THEN <<NoRecords>>
    ELSE [k \in DOMAIN t.rows |-> FormatRow(t.rows[k], FitWidths(t))]

(* From the root a reader comes to the pages, and from a page to its lines *)
(* (pdfdoc.go assemblePDF: an object's number is its place).               *)
LEMMA PagesFollowed ==
    ASSUME NEW t, NEW n \in Nat \ {0}, n = PageCount(Len(Lines(t)))
    PROVE  PagesOf(Pdf(t)) = [k \in 1..n |-> PageLines(Lines(t), k - 1)]
<1> DEFINE lines == Lines(t)
           one == [k \in 1..n |-> [lines |-> PageLines(lines, k - 1)]]
           two == [k \in 1..n |-> [contents |-> ContentObj(k - 1)]]
           kids == [k \in 1..n |-> PageObj(k - 1)]
           root == [root |-> 2]
           tree == [kids |-> kids]
           font == [font |-> "Courier"]
           bold == [font |-> "Helvetica-Bold"]
           head == <<root, tree, font, bold>>
           U == {one[k] : k \in 1..n} \cup {two[k] : k \in 1..n}
                \cup {root, tree, font, bold}
           flat == FlattenSeq(Paired(n, one, two))
           pdf == head \o flat
<1>1. Paired(n, one, two) =
          [k \in 1..n |-> <<[lines |-> PageLines(lines, k - 1)],
                            [contents |-> ContentObj(k - 1)]>>]
  BY DEF Paired
<1>2. Pdf(t) = pdf
  BY <1>1 DEF Pdf, Lines
<1>3. /\ one \in [1..n -> U] /\ two \in [1..n -> U]
      /\ head \in Seq(U) /\ Len(head) = 4
  <2>1. one \in [1..n -> U] /\ two \in [1..n -> U]
    <3> HIDE DEF root, tree, font, bold
    <3> QED OBVIOUS
  <2>2. root \in U /\ tree \in U /\ font \in U /\ bold \in U
    OBVIOUS
  <2> HIDE DEF root, tree, font, bold, U
  <2> QED BY <2>1, <2>2
<1>4. /\ flat \in Seq(U) /\ Len(flat) = 2 * n
      /\ \A k \in 1..n : flat[2 * k - 1] = one[k] /\ flat[2 * k] = two[k]
  <2> HIDE DEF one, two, U
  <2>1. n \in Nat \ {0} /\ one \in [1..n -> U] /\ two \in [1..n -> U]
    BY <1>3
  <2>2. Alternate(n, U, one, two)
    BY <2>1, PairsJoin
  <2> QED BY <2>2 DEF Alternate
<1>5. head[1].root = 2 /\ head[2].kids = kids
  OBVIOUS
<1> HIDE DEF U, head, flat
<1>6. \A i \in 1..(4 + 2 * n) : pdf[i] = IF i <= 4 THEN head[i] ELSE flat[i - 4]
  <2>1. head \in Seq(U) /\ flat \in Seq(U)
    BY <1>3, <1>4
  <2>2. \A i \in 1..(Len(head) + Len(flat)) :
            (head \o flat)[i] = IF i <= Len(head) THEN head[i] ELSE flat[i - Len(head)]
    BY <2>1, ConcatProperties
  <2>3. ASSUME NEW i \in 1..(4 + 2 * n)
        PROVE  pdf[i] = IF i <= 4 THEN head[i] ELSE flat[i - 4]
    <3>1. Len(head) = 4 /\ Len(flat) = 2 * n
      BY <1>3, <1>4
    <3>2. (head \o flat)[i] = IF i <= 4 THEN head[i] ELSE flat[i - 4]
      BY <2>2, <3>1
    <3> QED BY <3>2
  <2> QED BY <2>3
<1> HIDE DEF pdf
<1>7. pdf[1].root = 2 /\ pdf[2].kids = kids
  <2>1. 1 \in 1..(4 + 2 * n) /\ 2 \in 1..(4 + 2 * n)
    OBVIOUS
  <2>2. pdf[1] = head[1] /\ pdf[2] = head[2]
    BY <1>6, <2>1
  <2> QED BY <1>5, <2>2
<1>8. ASSUME NEW k \in 1..n
      PROVE  pdf[pdf[kids[k]].contents].lines = PageLines(lines, k - 1)
  <2>1. kids[k] = 4 + 2 * k /\ two[k].contents = 3 + 2 * k
    BY DEF PageObj, ContentObj
  <2>2. pdf[4 + 2 * k] = flat[2 * k] /\ pdf[3 + 2 * k] = flat[2 * k - 1]
    <3>1. /\ 4 + 2 * k \in 1..(4 + 2 * n) /\ 3 + 2 * k \in 1..(4 + 2 * n)
          /\ ~(4 + 2 * k <= 4) /\ ~(3 + 2 * k <= 4)
          /\ (4 + 2 * k) - 4 = 2 * k /\ (3 + 2 * k) - 4 = 2 * k - 1
      OBVIOUS
    <3> QED BY <1>6, <3>1
  <2>3. pdf[4 + 2 * k] = two[k] /\ pdf[3 + 2 * k] = one[k]
    BY <1>4, <2>2
  <2>4. one[k].lines = PageLines(lines, k - 1)
    OBVIOUS
  <2> HIDE DEF one, two, kids
  <2> QED BY <2>1, <2>3, <2>4
<1>9. DOMAIN kids = 1..n
  OBVIOUS
<1> HIDE DEF kids
<1> QED BY <1>2, <1>7, <1>8, <1>9 DEF PagesOf

-----------------------------------------------------------------------------
(* Loops that end.                                                        *)

Loop(g, D, step, stop) == g = [d \in D |-> IF d \in stop THEN d ELSE g[step[d]]]

(* A step that is taken outside of stop and that makes something smaller.  *)
Falls(D, step, stop, size, bound) ==
    /\ step \in [D -> D] /\ bound \in Nat /\ size \in [D -> 0..bound]
    /\ \A d \in D \ stop : size[step[d]] < size[d]

(* There is a function that takes such steps until it stops.               *)
LEMMA LoopExists ==
    ASSUME NEW D, NEW step, NEW stop, NEW size, NEW bound,
           Falls(D, step, stop, size, bound)
    PROVE  \E g : Loop(g, D, step, stop)
<1> DEFINE Upto(n) == {d \in D : size[d] <= n}
           Ok(g, n) == g = [d \in Upto(n) |-> IF d \in stop THEN d ELSE g[step[d]]]
           Bad == {n \in Nat : ~ \E g : Ok(g, n)}
<1>1. /\ \A d \in D : step[d] \in D /\ size[d] \in Nat /\ size[d] <= bound
      /\ \A d \in D \ stop : size[step[d]] < size[d]
      /\ bound \in Nat
  BY DEF Falls
<1>2. \E g : Ok(g, 0)
  <2> DEFINE g == [d \in Upto(0) |-> d]
  <2>1. Upto(0) \subseteq stop
    BY <1>1
  <2>2. Ok(g, 0)
    BY <2>1
  <2> QED BY <2>2
<1>3. ASSUME NEW n \in Nat, NEW g, Ok(g, n) PROVE \E h : Ok(h, n + 1)
  <2> DEFINE h == [d \in Upto(n + 1) |-> IF d \in stop THEN d ELSE g[step[d]]]
  <2>1. \A d \in Upto(n + 1) \ stop : step[d] \in Upto(n)
    BY <1>1
  <2>2. \A d \in Upto(n) : d \in Upto(n + 1) /\ h[d] = g[d]
    BY <1>1, <1>3
  <2>3. ASSUME NEW d \in Upto(n + 1)
        PROVE  h[d] = IF d \in stop THEN d ELSE h[step[d]]
    BY <2>1, <2>2
  <2>4. h = [d \in Upto(n + 1) |-> IF d \in stop THEN d ELSE h[step[d]]]
    BY <2>3
  <2> QED BY <2>4
<1>4. Bad = {}
  <2> SUFFICES ASSUME Bad # {} PROVE FALSE
    OBVIOUS
  <2>1. PICK m \in Bad : \A k \in Bad : m <= k
    <3> HIDE DEF Bad
    <3>1. Bad \subseteq Nat
      BY DEF Bad
    <3> QED BY <3>1, Least
  <2> HIDE DEF Ok
  <2>2. m \in Nat /\ m # 0
    BY <1>2, <2>1
  <2>3. m - 1 \in Nat /\ m - 1 \notin Bad
    <3> HIDE DEF Bad
    <3> QED BY <2>1, <2>2
  <2>4. PICK g : Ok(g, m - 1)
    BY <2>3
  <2>5. \E h : Ok(h, (m - 1) + 1)
    BY <1>3, <2>3, <2>4
  <2>6. (m - 1) + 1 = m
    BY <2>1
  <2> QED BY <2>1, <2>5, <2>6
<1>5. Upto(bound) = D
  BY <1>1
<1>6. PICK g : Ok(g, bound)
  BY <1>1, <1>4
<1>7. Loop(g, D, step, stop)
  BY <1>5, <1>6 DEF Loop
<1> QED BY <1>7

(* Where it stops is where its steps lead: in any set they do not leave.   *)
LEMMA LoopKeeps ==
    ASSUME NEW D, NEW step, NEW stop, NEW size, NEW bound,
           Falls(D, step, stop, size, bound),
           NEW g, Loop(g, D, step, stop),
           NEW I, I \subseteq D, \A d \in I \ stop : step[d] \in I
    PROVE  \A d \in I : g[d] \in I /\ g[d] \in stop
<1> DEFINE wrong == {d \in I : ~ (g[d] \in I /\ g[d] \in stop)}
           sizes == {size[d] : d \in wrong}
<1>1. \A d \in D : size[d] \in Nat
  BY DEF Falls
<1>2. \A d \in D : g[d] = IF d \in stop THEN d ELSE g[step[d]]
  BY DEF Loop
<1>3. \A d \in D \ stop : size[step[d]] < size[d]
  BY DEF Falls
<1>4. wrong = {}
  <2> SUFFICES ASSUME wrong # {} PROVE FALSE
    OBVIOUS
  <2>1. \E m \in sizes : \A k \in sizes : m <= k
    <3>1. sizes \subseteq Nat /\ sizes # {}
      BY <1>1
    <3> HIDE DEF sizes
    <3> QED BY <3>1, Least
  <2>2. PICK d \in wrong : \A e \in wrong : size[d] <= size[e]
    BY <2>1
  <2>3. d \in I /\ d \in D /\ d \notin stop
    BY <1>2, <2>2
  <2>4. step[d] \in I /\ g[d] = g[step[d]]
    BY <1>2, <2>3
  <2>5. step[d] \in wrong
    BY <2>2, <2>4
  <2>6. size[step[d]] \in Nat /\ size[d] \in Nat
    BY <1>1, <2>3, <2>4
  <2> QED BY <1>3, <2>2, <2>3, <2>5, <2>6
<1> QED BY <1>4

(* A finite set of numbers has a largest one.                              *)
LEMMA MaxIs ==
    ASSUME NEW S, IsFiniteSet(S), S \subseteq Nat, S # {}
    PROVE  Max(S) \in S /\ \A x \in S : x <= Max(S)
<1> DEFINE Top(s) == \E m \in s : \A x \in s : x <= m
           Bad == {s \in SUBSET S : s # {} /\ ~ Top(s)}
<1>1. Bad = {}
  <2> SUFFICES ASSUME Bad # {} PROVE FALSE
    OBVIOUS
  <2>1. PICK s \in Bad : \A x \in s : s \ {x} \notin Bad
    <3>1. Bad \subseteq SUBSET S
      OBVIOUS
    <3> HIDE DEF Bad
    <3> QED BY <3>1, Smallest
  <2>2. PICK x \in s : TRUE
    BY <2>1
  <2>3. s \subseteq Nat /\ s \ {x} \in SUBSET S /\ ~ Top(s)
    BY <2>1
  <2>4. CASE s \ {x} = {}
    <3>1. \A y \in s : y <= x
      BY <2>2, <2>3, <2>4
    <3> QED BY <2>2, <2>3, <3>1
  <2>5. CASE s \ {x} # {}
    <3>1. PICK m \in s \ {x} : \A y \in s \ {x} : y <= m
      BY <2>1, <2>3, <2>5
    <3>2. CASE m <= x
      BY <2>2, <2>3, <3>1, <3>2
    <3>3. CASE x <= m
      BY <2>2, <2>3, <3>1, <3>3
    <3> QED BY <2>2, <2>3, <3>1, <3>2, <3>3
  <2> QED BY <2>4, <2>5
<1>2. PICK m \in S : \A x \in S : x <= m
  BY <1>1
<1>3. \E n \in S : \A x \in S : n >= x
  BY <1>2
<1> QED BY <1>3 DEF Max

-----------------------------------------------------------------------------
(* The widths of the columns of the sales, of which three hold money.      *)

Columns == 1..8
ColumnWidths == [Columns -> 0..Widest]

LEMMA LineLenIs ==
    ASSUME NEW w \in [Columns -> Nat]
    PROVE  LineLen(w) = w[1] + w[2] + w[3] + w[4] + w[5] + w[6] + w[7] + w[8] + 7
<1> DEFINE sum(k) == SumFunctionOnSet(w, 1..k)
<1>1. \A k \in 1..8 : w[k] \in Nat
  BY DEF Columns
<1>2. ASSUME NEW k \in 1..8 PROVE sum(k) = w[k] + sum(k - 1)
  <2>1. IsFiniteSet(1..k) /\ \A x \in 1..k : w[x] \in Int
    <3>1. 1 \in Int /\ k \in Int
      OBVIOUS
    <3>2. IsFiniteSet(1..k)
      BY <3>1, FS_Interval
    <3>3. ASSUME NEW x \in 1..k PROVE w[x] \in Int
      <4>1. x \in 1..8
        OBVIOUS
      <4> QED BY <1>1, <4>1
    <3> QED BY <3>2, <3>3
  <2>2. k \in 1..k /\ (1..k) \ {k} = 1..(k - 1)
    OBVIOUS
  <2> DEFINE all == 1..k
  <2>3. Addable(w, all) /\ k \in all
    BY <2>1, <2>2 DEF Addable
  <2> HIDE DEF all
  <2>4. SumFunctionOnSet(w, all) = w[k] + SumFunctionOnSet(w, all \ {k})
    BY <2>3, SumWithout
  <2> QED BY <2>2, <2>4 DEF all
<1>3. sum(0) = 0
  <2>1. 1..0 = {}
    OBVIOUS
  <2> QED BY <2>1, SumOfNone
<1>4. LineLen(w) = sum(8) + 7
  <2>1. DOMAIN w = 1..8 /\ Len(w) = 8
    BY DEF Columns
  <2> QED BY <2>1 DEF LineLen, SumFunction
<1> HIDE DEF sum
<1>5. /\ sum(1) = w[1] + sum(0) /\ sum(2) = w[2] + sum(1)
      /\ sum(3) = w[3] + sum(2) /\ sum(4) = w[4] + sum(3)
      /\ sum(5) = w[5] + sum(4) /\ sum(6) = w[6] + sum(5)
      /\ sum(7) = w[7] + sum(6) /\ sum(8) = w[8] + sum(7)
  BY <1>2
<1> QED BY <1>1, <1>3, <1>4, <1>5

Stopped(numeric, w) == LineLen(w) <= MaxChars \/ Victims(numeric, w) = {}

(* A step of narrowing makes a line shorter, unless no column can give way,*)
(* and leaves money as it is.                                              *)
LEMMA ShrinkFalls ==
    ASSUME NEW numeric \in [Columns -> BOOLEAN], NEW w \in ColumnWidths
    PROVE  /\ Shrink(numeric, w) \in ColumnWidths
           /\ \A c \in Columns : numeric[c] => Shrink(numeric, w)[c] = w[c]
           /\ ~Stopped(numeric, w) => LineLen(Shrink(numeric, w)) < LineLen(w)
<1> DEFINE victims == Victims(numeric, w)
           shrunk == [c \in Columns |-> IF c \in victims THEN w[c] - 1 ELSE w[c]]
<1>1. DOMAIN w = Columns /\ \A c \in Columns : w[c] \in 0..44
  BY DEF ColumnWidths, Widest
<1>2. \A c \in victims : c \in Columns /\ ~numeric[c] /\ w[c] > 6
  BY <1>1 DEF Victims, Narrowest
<1>3. Shrink(numeric, w) = shrunk
  BY <1>1 DEF Shrink
<1> HIDE DEF victims
<1>4. \A c \in Columns :
          /\ shrunk[c] \in 0..44 /\ shrunk[c] <= w[c]
          /\ numeric[c] => shrunk[c] = w[c]
          /\ c \in victims => shrunk[c] < w[c]
  BY <1>1, <1>2
<1>5. shrunk \in ColumnWidths
  BY <1>4 DEF ColumnWidths, Widest
<1> HIDE DEF shrunk
<1>6. ASSUME ~Stopped(numeric, w) PROVE LineLen(shrunk) < LineLen(w)
  <2>1. PICK c \in victims : TRUE
    BY <1>6 DEF Stopped, victims
  <2>2. c \in 1..8 /\ shrunk[c] < w[c]
    BY <1>2, <1>4, <2>1 DEF Columns
  <2>3. w \in [Columns -> Nat] /\ shrunk \in [Columns -> Nat]
    BY <1>1, <1>5 DEF ColumnWidths, Widest
  <2>4. \A d \in 1..8 : w[d] \in Nat /\ shrunk[d] \in Nat /\ shrunk[d] <= w[d]
    BY <1>1, <1>4 DEF Columns
  <2>5. /\ LineLen(w) = w[1] + w[2] + w[3] + w[4] + w[5] + w[6] + w[7] + w[8] + 7
        /\ LineLen(shrunk) = shrunk[1] + shrunk[2] + shrunk[3] + shrunk[4]
                               + shrunk[5] + shrunk[6] + shrunk[7] + shrunk[8] + 7
    BY <2>3, LineLenIs
  <2>6. c = 1 \/ c = 2 \/ c = 3 \/ c = 4 \/ c = 5 \/ c = 6 \/ c = 7 \/ c = 8
    BY <2>2
  <2> QED BY <2>2, <2>4, <2>5, <2>6
<1> QED BY <1>3, <1>4, <1>5, <1>6

(* When no column can give way every column of text is narrow.             *)
LEMMA NoneGivesWay ==
    ASSUME NEW numeric \in [Columns -> BOOLEAN], NEW w \in ColumnWidths,
           Victims(numeric, w) = {}
    PROVE  \A c \in Columns : ~numeric[c] => w[c] <= Narrowest
<1> DEFINE wide == {c \in Columns : ~numeric[c] /\ w[c] > Narrowest}
           gaps == {Widest - w[c] : c \in wide}
<1>1. \A c \in Columns : w[c] \in 0..44
  BY DEF ColumnWidths, Widest
<1> SUFFICES ASSUME wide # {} PROVE FALSE
  BY <1>1 DEF Narrowest
<1>2. PICK c \in wide : \A d \in wide : w[d] <= w[c]
  <2>1. gaps \subseteq Nat /\ gaps # {}
    BY <1>1 DEF Widest
  <2>2. \E m \in gaps : \A k \in gaps : m <= k
    <3> HIDE DEF gaps
    <3> QED BY <2>1, Least
  <2>3. PICK c \in wide : \A d \in wide : Widest - w[c] <= Widest - w[d]
    BY <2>2
  <2> QED BY <1>1, <2>3 DEF Widest
<1> DEFINE widest == {d \in wide : w[d] = w[c]}
<1>3. PICK first \in widest : \A d \in widest : first <= d
  <2>1. widest \subseteq Nat /\ widest # {}
    BY <1>2 DEF Columns
  <2> HIDE DEF widest
  <2> QED BY <2>1, Least
<1>4. first \in Columns /\ ~numeric[first] /\ w[first] > Narrowest /\ w[first] = w[c]
  BY <1>3
<1>5. \A d \in Columns : ~numeric[d] =>
          w[d] < w[first] \/ (w[d] = w[first] /\ first <= d)
  <2> SUFFICES ASSUME NEW d \in Columns, ~numeric[d]
               PROVE  w[d] < w[first] \/ (w[d] = w[first] /\ first <= d)
    OBVIOUS
  <2>1. CASE w[d] <= Narrowest
    BY <1>1, <1>4, <2>1 DEF Narrowest
  <2>2. CASE w[d] > Narrowest /\ w[d] = w[c]
    <3>1. d \in widest
      BY <2>2
    <3> HIDE DEF widest
    <3> QED BY <1>3, <1>4, <2>2, <3>1
  <2>3. CASE w[d] > Narrowest /\ w[d] # w[c]
    BY <1>1, <1>2, <1>4, <2>3
  <2> QED BY <1>1, <2>1, <2>2, <2>3 DEF Narrowest
<1>6. first \in Victims(numeric, w)
  <2>1. DOMAIN w = Columns
    BY DEF ColumnWidths
  <2> HIDE DEF wide, widest
  <2> QED BY <1>4, <1>5, <2>1 DEF Victims
<1> QED BY <1>6

LEMMA LineLenBelow == \A w \in ColumnWidths : LineLen(w) \in 0..359
<1> SUFFICES ASSUME NEW w \in ColumnWidths PROVE LineLen(w) \in 0..359
  OBVIOUS
<1>1. w \in [Columns -> Nat]
  BY DEF ColumnWidths, Widest
<1>2. ASSUME NEW c \in 1..8 PROVE w[c] \in Nat /\ 0 <= w[c] /\ w[c] <= 44
  BY DEF ColumnWidths, Widest, Columns
<1>3. LineLen(w) = w[1] + w[2] + w[3] + w[4] + w[5] + w[6] + w[7] + w[8] + 7
  BY <1>1, LineLenIs
<1>4. /\ w[1] \in Nat /\ w[2] \in Nat /\ w[3] \in Nat /\ w[4] \in Nat
      /\ w[5] \in Nat /\ w[6] \in Nat /\ w[7] \in Nat /\ w[8] \in Nat
  BY <1>2
<1>5. /\ w[1] <= 44 /\ w[2] <= 44 /\ w[3] <= 44 /\ w[4] <= 44
      /\ w[5] <= 44 /\ w[6] <= 44 /\ w[7] <= 44 /\ w[8] <= 44
  BY <1>2
<1> HIDE <1>2
<1>6. LineLen(w) \in Nat /\ LineLen(w) <= 359
  BY <1>3, <1>4, <1>5
<1> QED BY <1>6

(* What the columns of a table would be if there were room.                *)
Wanted(t) ==
    [c \in DOMAIN t.heads |->
        Capped(Widest, Max({t.heads[c]} \cup {t.rows[k].cells[c] : k \in DOMAIN t.rows}))]

Narrows(g, t) ==
    g = [widths \in [DOMAIN t.heads -> 0..Widest] |->
            IF LineLen(widths) <= MaxChars \/ Victims(t.numeric, widths) = {}
            THEN widths
            ELSE g[Shrink(t.numeric, widths)]]

(* The recursive function behind FitWidths.                                *)
LEMMA FitIs ==
    ASSUME NEW t
    PROVE  FitWidths(t) = (CHOOSE g : Narrows(g, t))[Wanted(t)]
BY DEF FitWidths, Narrows, Wanted

(* Fitted widths fit, or no column can give way; money is as wide as it    *)
(* would be if there were room.                                            *)
LEMMA Fitted ==
    ASSUME NEW t, t.numeric \in [Columns -> BOOLEAN], DOMAIN t.heads = Columns,
           Wanted(t) \in ColumnWidths
    PROVE  /\ FitWidths(t) \in ColumnWidths
           /\ Stopped(t.numeric, FitWidths(t))
           /\ \A c \in Columns : t.numeric[c] => FitWidths(t)[c] = Wanted(t)[c]
<1> DEFINE numeric == t.numeric
           wanted == Wanted(t)
           step == [w \in ColumnWidths |-> Shrink(numeric, w)]
           stop == {w \in ColumnWidths : Stopped(numeric, w)}
           size == [w \in ColumnWidths |-> LineLen(w)]
           fit == CHOOSE g : Narrows(g, t)
           kept == {w \in ColumnWidths : \A c \in Columns : numeric[c] => w[c] = wanted[c]}
<1>1. ASSUME NEW g PROVE Loop(g, ColumnWidths, step, stop) <=> Narrows(g, t)
  <2>1. [DOMAIN t.heads -> 0..Widest] = ColumnWidths
    BY DEF ColumnWidths
  <2>2. \A w \in ColumnWidths :
            (IF w \in stop THEN w ELSE g[step[w]]) =
            (IF LineLen(w) <= MaxChars \/ Victims(numeric, w) = {}
             THEN w ELSE g[Shrink(numeric, w)])
    BY DEF Stopped
  <2> HIDE DEF step, stop
  <2> QED BY <2>1, <2>2 DEF Loop, Narrows
<1>2. Falls(ColumnWidths, step, stop, size, 359)
  <2>1. \A w \in ColumnWidths : LineLen(w) \in 0..359
    BY LineLenBelow
  <2>2. step \in [ColumnWidths -> ColumnWidths]
    BY ShrinkFalls
  <2>3. \A w \in ColumnWidths \ stop : LineLen(Shrink(numeric, w)) < LineLen(w)
    BY ShrinkFalls
  <2>4. \A w \in ColumnWidths \ stop : size[step[w]] < size[w]
    BY <2>2, <2>3
  <2> HIDE DEF step, stop
  <2> QED BY <2>1, <2>2, <2>4 DEF Falls
<1>3. wanted \in kept /\ kept \subseteq ColumnWidths
  OBVIOUS
<1>4. \A w \in kept \ stop : step[w] \in kept
  BY ShrinkFalls
<1> HIDE DEF step, stop, size, fit, kept, wanted
<1>5. Loop(fit, ColumnWidths, step, stop)
  <2>1. \E g : Narrows(g, t)
    BY <1>1, <1>2, LoopExists
  <2> QED BY <1>1, <2>1 DEF fit
<1>6. fit[wanted] \in kept /\ fit[wanted] \in stop
  BY <1>2, <1>3, <1>4, <1>5, LoopKeeps
<1> QED BY <1>6, FitIs DEF kept, stop, wanted, fit

Amounts == 4..6

(* The table of all sales: one row each, of eight cells, three of them     *)
(* amounts.                                                                *)
Tabled(t) ==
    /\ t.numeric \in [Columns -> BOOLEAN] /\ \A c \in Columns : t.numeric[c] <=> c \in Amounts
    /\ t.heads \in [Columns -> Nat] /\ \A c \in Amounts : t.heads[c] <= LongestAmount
    /\ Cardinality(DOMAIN sales) \in Nat
    /\ t.rows \in [1..Cardinality(DOMAIN sales) ->
                      [of : DOMAIN sales, cells : [Columns -> Nat]]]
    /\ \A k \in DOMAIN t.rows : \A c \in Amounts : t.rows[k].cells[c] <= LongestAmount
    /\ \A i \in DOMAIN sales : \E k \in DOMAIN t.rows : t.rows[k].of = i

LEMMA TableOfSales ==
    ASSUME TypeOK, OwnZone, NEW t \in SalesTables({}, {})
    PROVE  Tabled(t)
<1> DEFINE n == Cardinality(DOMAIN sales)
           numeric == <<FALSE, FALSE, FALSE, TRUE, TRUE, TRUE, FALSE, FALSE>>
           heads == <<4, 4, 5, 8, 3, 5, 7, 9>>
           rows(order) == [k \in DOMAIN order |->
                              [of |-> order[k], cells |-> sales[order[k]].what.cells]]
<1>1. SalesExport({}, {}) = DOMAIN sales
  BY DEF SalesExport, SalesSince, NotBefore, Before
<1>2. PICK order \in OldestFirst(DOMAIN sales) :
          t = [numeric |-> numeric, heads |-> heads, rows |-> rows(order)]
  BY <1>1 DEF SalesTables
<1>3. n \in Nat
  BY FS_CardinalityType DEF OwnZone
<1>4. /\ order \in [1..n -> DOMAIN sales]
      /\ \A i \in DOMAIN sales : \E k \in 1..n : order[k] = i
  BY <1>2 DEF OldestFirst, Bijection, Injection, Surjection
<1>5. /\ numeric \in [Columns -> BOOLEAN] /\ \A c \in Columns : numeric[c] <=> c \in Amounts
      /\ heads \in [Columns -> Nat] /\ \A c \in Amounts : heads[c] <= LongestAmount
  <2>1. numeric \in Seq(BOOLEAN) /\ Len(numeric) = 8
    OBVIOUS
  <2>2. heads \in Seq(Nat) /\ Len(heads) = 8
    OBVIOUS
  <2>3. /\ ~numeric[1] /\ ~numeric[2] /\ ~numeric[3] /\ numeric[4]
        /\ numeric[5] /\ numeric[6] /\ ~numeric[7] /\ ~numeric[8]
    OBVIOUS
  <2>4. heads[4] <= 21 /\ heads[5] <= 21 /\ heads[6] <= 21
    OBVIOUS
  <2> HIDE DEF numeric, heads
  <2>5. numeric \in [Columns -> BOOLEAN] /\ heads \in [Columns -> Nat]
    <3>1. \A S : \A s \in Seq(S) : s \in [1..Len(s) -> S]
      OBVIOUS
    <3>2. numeric \in [1..8 -> BOOLEAN]
      BY <2>1, <3>1, Zenon
    <3>3. heads \in [1..8 -> Nat]
      BY <2>2, <3>1, Zenon
    <3> QED BY <3>2, <3>3 DEF Columns
  <2>6. ASSUME NEW c \in Columns PROVE numeric[c] <=> c \in Amounts
    <3>1. c = 1 \/ c = 2 \/ c = 3 \/ c = 4 \/ c = 5 \/ c = 6 \/ c = 7 \/ c = 8
      BY DEF Columns
    <3>2. c \in Amounts <=> c = 4 \/ c = 5 \/ c = 6
      BY DEF Columns, Amounts
    <3> HIDE DEF Columns
    <3> QED BY <2>3, <3>1, <3>2
  <2>7. \A c \in Amounts : heads[c] <= LongestAmount
    BY <2>4 DEF Amounts, LongestAmount
  <2> QED BY <2>5, <2>6, <2>7
<1>6. \A i \in DOMAIN sales :
          /\ sales[i].what.cells \in [Columns -> Nat]
          /\ \A c \in Amounts : sales[i].what.cells[c] <= LongestAmount
  BY ReportsAssumption DEF TypeOK, Columns, Amounts
<1> HIDE DEF n, numeric, heads
<1>7. /\ DOMAIN rows(order) = 1..n
      /\ \A k \in 1..n : rows(order)[k] =
             [of |-> order[k], cells |-> sales[order[k]].what.cells]
  BY <1>4
<1>8. t.numeric = numeric /\ t.heads = heads /\ t.rows = rows(order)
  BY <1>2
<1> HIDE DEF rows
<1>9. ASSUME NEW k \in 1..n
      PROVE  /\ rows(order)[k] \in [of : DOMAIN sales, cells : [Columns -> Nat]]
             /\ rows(order)[k].of = order[k]
             /\ \A c \in Amounts : rows(order)[k].cells[c] <= LongestAmount
  <2>1. order[k] \in DOMAIN sales
    BY <1>4
  <2> QED BY <1>6, <1>7, <2>1
<1>10. rows(order) \in [1..n -> [of : DOMAIN sales, cells : [Columns -> Nat]]]
  <2>1. rows(order) = [k \in 1..n |-> rows(order)[k]]
    BY <1>7 DEF rows
  <2> QED BY <1>9, <2>1
<1>11. \A i \in DOMAIN sales : \E k \in 1..n : rows(order)[k].of = i
  BY <1>4, <1>9
<1> QED BY <1>3, <1>5, <1>7, <1>8, <1>9, <1>10, <1>11 DEF Tabled, n

(* A line fits between the margins, and an amount in its column.           *)
LEMMA WidthsFit ==
    ASSUME NEW t, Tabled(t)
    PROVE  /\ FitWidths(t) \in ColumnWidths
           /\ LineLen(FitWidths(t)) <= MaxChars
           /\ \A c \in Amounts : \A k \in DOMAIN t.rows :
                 t.rows[k].cells[c] <= FitWidths(t)[c]
<1> DEFINE n == Cardinality(DOMAIN sales)
           lens(c) == {t.heads[c]} \cup {t.rows[k].cells[c] : k \in DOMAIN t.rows}
<1>1. /\ DOMAIN t.rows = 1..n /\ n \in Nat /\ DOMAIN t.heads = Columns
      /\ t.numeric \in [Columns -> BOOLEAN]
  BY DEF Tabled
<1>2. ASSUME NEW c \in Columns
      PROVE  lens(c) \subseteq Nat /\ IsFiniteSet(lens(c)) /\ lens(c) # {}
  <2>1. lens(c) \subseteq Nat
    <3>1. \A k \in DOMAIN t.rows : t.rows[k].cells[c] \in Nat
      BY DEF Tabled
    <3> QED BY <3>1 DEF Tabled
  <2> DEFINE cells == {t.rows[k].cells[c] : k \in 1..n}
             cell == [k \in 1..n |-> t.rows[k].cells[c]]
  <2>2. cell \in Surjection(1..n, cells)
    BY DEF Surjection
  <2>3. IsFiniteSet(1..n)
    <3>1. 1 \in Int /\ n \in Int
      BY <1>1
    <3> QED BY <3>1, FS_Interval
  <2>4. IsFiniteSet(cells)
    <3> HIDE DEF cell, cells, n
    <3> QED BY <2>2, <2>3, FS_Surjection
  <2>5. lens(c) = cells \cup {t.heads[c]}
    BY <1>1
  <2> HIDE DEF cells, lens
  <2>6. IsFiniteSet(lens(c))
    BY <2>4, <2>5, FS_AddElement
  <2> QED BY <2>1, <2>5, <2>6
<1>3. ASSUME NEW c \in Columns
      PROVE  Max(lens(c)) \in lens(c) /\ \A x \in lens(c) : x <= Max(lens(c))
  <2> DEFINE set == lens(c)
  <2>1. set \subseteq Nat /\ IsFiniteSet(set) /\ set # {}
    BY <1>2
  <2> HIDE DEF set
  <2>2. Max(set) \in set /\ \A x \in set : x <= Max(set)
    BY <2>1, MaxIs
  <2> QED BY <2>2 DEF set
<1>4. Wanted(t) = [c \in Columns |-> Capped(Widest, Max(lens(c)))]
  BY <1>1 DEF Wanted
<1>5. Wanted(t) \in ColumnWidths
  <2>1. \A c \in Columns : Max(lens(c)) \in Nat
    BY <1>2, <1>3
  <2> HIDE DEF lens
  <2> QED BY <1>4, <2>1 DEF ColumnWidths, Capped, Widest
<1>6. \A c \in Amounts : c \in Columns /\ t.numeric[c]
  BY DEF Amounts, Columns, Tabled
<1>7. ASSUME NEW c \in Amounts
      PROVE  Wanted(t)[c] = Max(lens(c)) /\ Max(lens(c)) \in Nat /\ Max(lens(c)) <= 21
  <2>1. \A x \in lens(c) : x <= 21
    BY DEF Tabled, LongestAmount
  <2>2. c \in Columns
    BY <1>6
  <2> HIDE DEF lens
  <2>3. Max(lens(c)) \in Nat /\ Max(lens(c)) <= 21
    BY <1>2, <1>3, <2>1, <2>2
  <2> QED BY <1>4, <2>2, <2>3 DEF Capped, Widest
<1>8. /\ FitWidths(t) \in ColumnWidths /\ Stopped(t.numeric, FitWidths(t))
      /\ \A c \in Columns : t.numeric[c] => FitWidths(t)[c] = Wanted(t)[c]
  BY <1>1, <1>5, Fitted
<1> DEFINE fit == FitWidths(t)
<1>9. LineLen(fit) <= MaxChars
  <2> HIDE DEF fit
  <2> SUFFICES ASSUME Victims(t.numeric, fit) = {} PROVE LineLen(fit) <= MaxChars
    BY <1>8 DEF Stopped, fit
  <2>1. \A c \in Columns : ~t.numeric[c] => fit[c] <= Narrowest
    BY <1>1, <1>8, NoneGivesWay DEF fit
  <2>2. fit \in [Columns -> Nat] /\ \A c \in 1..8 : fit[c] \in Nat
    BY <1>8 DEF fit, ColumnWidths, Columns, Widest
  <2>3. /\ fit[1] <= 6 /\ fit[2] <= 6 /\ fit[3] <= 6 /\ fit[7] <= 6 /\ fit[8] <= 6
    <3>1. \A c \in {1, 2, 3, 7, 8} : c \in Columns /\ ~t.numeric[c]
      BY DEF Tabled, Columns, Amounts
    <3> QED BY <2>1, <3>1 DEF Narrowest
  <2>4. fit[4] <= 21 /\ fit[5] <= 21 /\ fit[6] <= 21
    <3>1. \A c \in Amounts : fit[c] <= 21
      BY <1>6, <1>7, <1>8 DEF fit
    <3> QED BY <3>1 DEF Amounts
  <2>5. LineLen(fit) =
            fit[1] + fit[2] + fit[3] + fit[4] + fit[5] + fit[6] + fit[7] + fit[8] + 7
    BY <2>2, LineLenIs
  <2>6. /\ fit[1] \in Nat /\ fit[2] \in Nat /\ fit[3] \in Nat /\ fit[4] \in Nat
        /\ fit[5] \in Nat /\ fit[6] \in Nat /\ fit[7] \in Nat /\ fit[8] \in Nat
    BY <2>2
  <2> QED BY <2>3, <2>4, <2>5, <2>6 DEF MaxChars
<1>10. ASSUME NEW c \in Amounts, NEW k \in DOMAIN t.rows
       PROVE  t.rows[k].cells[c] <= fit[c]
  <2>1. t.rows[k].cells[c] \in lens(c)
    OBVIOUS
  <2> HIDE DEF lens
  <2> QED BY <1>3, <1>6, <1>7, <1>8, <2>1
<1> QED BY <1>8, <1>9, <1>10

(* What is printed of a cell and what fills it up are as wide as its       *)
(* column; a cell that fits is printed whole.                              *)
LEMMA CellFills ==
    ASSUME NEW len \in Nat, NEW width \in Nat
    PROVE  LET cell == CellFit(len, width)
           IN  /\ cell.kept + cell.dots + cell.pad = width
               /\ len <= width => cell.kept = len
<1>1. CASE len <= width
  <2>1. CellFit(len, width) = [kept |-> len, dots |-> 0, pad |-> width - len]
    BY <1>1 DEF CellFit
  <2> QED BY <1>1, <2>1
<1>2. CASE len > width /\ width <= 2
  <2>1. CellFit(len, width) = [kept |-> width, dots |-> 0, pad |-> 0]
    BY <1>2 DEF CellFit
  <2> QED BY <1>2, <2>1
<1>3. CASE len > width /\ width > 2
  <2>1. CellFit(len, width) = [kept |-> width - 2, dots |-> 2, pad |-> 0]
    BY <1>3 DEF CellFit
  <2> QED BY <1>3, <2>1
<1> QED BY <1>1, <1>2, <1>3

(* What a reader finds on the pages is the lines in order, on pages that   *)
(* are neither empty nor over-full.                                        *)
LEMMA PagesHoldLines ==
    ASSUME NEW t, NEW n \in Nat, DOMAIN t.rows = 1..n,
           t.rows = << >> <=> n = 0
    PROVE  LET pages == PagesOf(Pdf(t))
           IN  /\ FlattenSeq(pages) = Lines(t)
               /\ \A p \in DOMAIN pages : pages[p] # << >> /\ LineY(Len(pages[p])) >= Bottom
<1> DEFINE lines == Lines(t)
           count == PageCount(Len(lines))
           S == {NoRecords} \cup {FormatRow(t.rows[k], FitWidths(t)) : k \in DOMAIN t.rows}
           pages == [p \in 1..count |-> PageLines(lines, p - 1)]
<1>1. lines \in Seq(S) /\ lines # << >> /\ Len(lines) \in Nat \ {0}
  <2>1. CASE n = 0
    <3>1. lines = <<NoRecords>>
      BY <2>1 DEF Lines
    <3>2. <<NoRecords>> \in Seq({NoRecords}) /\ Len(<<NoRecords>>) = 1
      OBVIOUS
    <3> QED BY <3>1, <3>2
  <2>2. CASE n # 0
    <3> DEFINE row(k) == FormatRow(t.rows[k], FitWidths(t))
    <3>1. lines = [k \in 1..n |-> row(k)]
      BY <2>2 DEF Lines
    <3>2. \A k \in 1..n : row(k) \in S
      OBVIOUS
    <3> HIDE DEF row, S, lines
    <3>3. lines \in Seq(S) /\ Len(lines) = n
      BY <3>1, <3>2
    <3> QED BY <2>2, <3>3
  <2> QED BY <2>1, <2>2
<1>2. count \in Nat \ {0}
  <2> HIDE DEF lines
  <2> QED BY <1>1, PageCountIs
<1>3. PagesOf(Pdf(t)) = pages
  <2>1. count = PageCount(Len(Lines(t)))
    OBVIOUS
  <2> HIDE DEF count
  <2>2. PagesOf(Pdf(t)) = [p \in 1..count |-> PageLines(Lines(t), p - 1)]
    BY <1>2, <2>1, PagesFollowed
  <2> QED BY <2>2
<1> HIDE DEF lines, S
<1>4. FlattenSeq(pages) = lines
  BY <1>1, PagesJoin
<1>5. ASSUME NEW p \in 1..count
      PROVE  pages[p] # << >> /\ LineY(Len(pages[p])) >= Bottom
  <2>1. p - 1 \in 0..(PageCount(Len(lines)) - 1)
    BY <1>2
  <2>2. pages[p] = PageLines(lines, p - 1)
    OBVIOUS
  <2> HIDE DEF pages
  <2>3. Len(pages[p]) \in 1..PerPage
    BY <1>1, <2>1, <2>2, PagesPartition
  <2>4. pages[p] # << >>
    BY <2>3
  <2>5. \A m \in 1..PerPage : LineY(m) >= Bottom
    BY PageIsFull, PerPageIs, FilesAssumption DEF LineY, LineH, Bottom
  <2> QED BY <2>3, <2>4, <2>5
<1> QED BY <1>3, <1>4, <1>5 DEF lines

(* The formats of an export agree, for every ledger and every order of     *)
(* sales made at one instant, however wide the texts and however short the *)
(* page: a file holds every sale once in all of them, and what is printed  *)
(* stays on its page, between its margins and, if it is money, whole (web  *)
(* writeCSV, sheetXML, writePDF, assemblePDF, fitWidths).                  *)
THEOREM FormatsAgree == Spec => []FilesAgree
<1>1. ASSUME TypeOK, OwnZone PROVE FilesAgree
  <2> SUFFICES ASSUME NEW t \in SalesTables({}, {}) PROVE
          LET pages == PagesOf(Pdf(t))
              lines == FlattenSeq(pages)
          IN  /\ ToSet(Csv(t)) = DOMAIN sales /\ Len(Csv(t)) = Cardinality(DOMAIN sales)
              /\ [k \in DOMAIN t.rows |-> Sheet(t)[k].of] = Csv(t)
              /\ [k \in DOMAIN lines |-> lines[k].of] =
                     IF t.rows = << >> THEN <<NoRecords.of>> ELSE Csv(t)
              /\ \A p \in DOMAIN pages :
                     pages[p] # << >> /\ LineY(Len(pages[p])) >= Bottom
              /\ \A k \in DOMAIN t.rows :
                     LET cells == lines[k].cells
                     IN  /\ LineLen([c \in DOMAIN cells |->
                                cells[c].kept + cells[c].dots + cells[c].pad]) <= MaxChars
                         /\ \A c \in DOMAIN cells : t.numeric[c] =>
                                cells[c].kept = t.rows[k].cells[c]
    BY DEF FilesAgree
  <2> DEFINE n == Cardinality(DOMAIN sales)
             rows == t.rows
             fit == FitWidths(t)
             lines == Lines(t)
  <2>1. Tabled(t)
    BY <1>1, TableOfSales
  <2>2. /\ n \in Nat /\ DOMAIN rows = 1..n
        /\ \A k \in 1..n : rows[k].of \in DOMAIN sales /\ rows[k].cells \in [Columns -> Nat]
        /\ \A i \in DOMAIN sales : \E k \in 1..n : rows[k].of = i
    BY <2>1 DEF Tabled
  <2>3. rows = << >> <=> n = 0
    BY <2>1, <2>2 DEF Tabled
  <2>4. /\ fit \in ColumnWidths /\ LineLen(fit) <= MaxChars
        /\ \A c \in Amounts : \A k \in 1..n : rows[k].cells[c] <= fit[c]
    BY <2>1, <2>2, WidthsFit
  <2>5. /\ FlattenSeq(PagesOf(Pdf(t))) = lines
        /\ \A p \in DOMAIN PagesOf(Pdf(t)) :
              /\ PagesOf(Pdf(t))[p] # << >>
              /\ LineY(Len(PagesOf(Pdf(t))[p])) >= Bottom
    <3> HIDE DEF n
    <3> QED BY <2>2, <2>3, PagesHoldLines
  <2>6. /\ ToSet(Csv(t)) = DOMAIN sales /\ Len(Csv(t)) = n
        /\ [k \in DOMAIN rows |-> Sheet(t)[k].of] = Csv(t)
    <3>1. Csv(t) = [k \in 1..n |-> rows[k].of]
      BY <2>2 DEF Csv
    <3>2. \A k \in DOMAIN rows : Sheet(t)[k].of = rows[k].of
      BY DEF Sheet, SheetRow
    <3> HIDE DEF n, rows
    <3>3. Len(Csv(t)) = n
      BY <2>2, <3>1
    <3>4. ToSet(Csv(t)) = DOMAIN sales
      <4>1. ToSet(Csv(t)) = {rows[k].of : k \in 1..n}
        BY <3>1 DEF ToSet
      <4> QED BY <2>2, <4>1, ZenonT(30)
    <3> QED BY <2>2, <3>1, <3>2, <3>3, <3>4
  <2>7. n # 0 => lines = [k \in 1..n |-> FormatRow(rows[k], fit)]
    BY <2>2, <2>3 DEF Lines
  <2>8. [k \in DOMAIN lines |-> lines[k].of] =
            IF rows = << >> THEN <<NoRecords.of>> ELSE Csv(t)
    <3>1. CASE n = 0
      <4>1. lines = <<NoRecords>> /\ rows = << >>
        BY <2>3, <3>1 DEF Lines
      <4>2. [k \in DOMAIN <<NoRecords>> |-> <<NoRecords>>[k].of] = <<NoRecords.of>>
        OBVIOUS
      <4> HIDE DEF lines, rows
      <4> QED BY <4>1, <4>2
    <3>2. CASE n # 0
      <4>1. \A k \in 1..n : FormatRow(rows[k], fit).of = rows[k].of
        BY DEF FormatRow
      <4>2. Csv(t) = [k \in 1..n |-> rows[k].of]
        BY <2>2 DEF Csv
      <4> HIDE DEF lines, rows, n, fit
      <4> QED BY <2>3, <2>7, <3>2, <4>1, <4>2
    <3> QED BY <3>1, <3>2
  <2>9. ASSUME NEW k \in 1..n
        PROVE  LET cells == lines[k].cells
               IN  /\ LineLen([c \in DOMAIN cells |->
                          cells[c].kept + cells[c].dots + cells[c].pad]) <= MaxChars
                   /\ \A c \in DOMAIN cells : t.numeric[c] => cells[c].kept = rows[k].cells[c]
    <3> DEFINE cells == lines[k].cells
    <3>1. n # 0
      BY <2>2
    <3>2. cells = [c \in Columns |-> CellFit(rows[k].cells[c], fit[c])]
      <4>1. DOMAIN fit = Columns
        BY <2>4 DEF ColumnWidths
      <4>2. lines[k] = FormatRow(rows[k], fit)
        <5> HIDE DEF lines, rows, n, fit
        <5> QED BY <2>7, <3>1
      <4> HIDE DEF lines, rows, fit
      <4> QED BY <4>1, <4>2 DEF FormatRow
    <3>3. fit = [c \in Columns |-> fit[c]] /\ \A c \in Columns : fit[c] \in Nat
      BY <2>4 DEF ColumnWidths, Widest
    <3> HIDE DEF cells, fit, lines, rows, n
    <3>4. ASSUME NEW c \in Columns
          PROVE  /\ cells[c].kept + cells[c].dots + cells[c].pad = fit[c]
                 /\ rows[k].cells[c] <= fit[c] => cells[c].kept = rows[k].cells[c]
      <4>1. rows[k].cells[c] \in Nat /\ fit[c] \in Nat
        BY <2>2, <3>3
      <4>2. cells[c] = CellFit(rows[k].cells[c], fit[c])
        BY <3>2
      <4> QED BY <4>1, <4>2, CellFills
    <3>5. [c \in DOMAIN cells |-> cells[c].kept + cells[c].dots + cells[c].pad] = fit
      <4>1. DOMAIN cells = Columns
        BY <3>2
      <4> QED BY <3>3, <3>4, <4>1
    <3>6. \A c \in DOMAIN cells : t.numeric[c] => cells[c].kept = rows[k].cells[c]
      <4>1. \A c \in DOMAIN cells : c \in Columns
        BY <3>2
      <4>2. \A c \in Columns : t.numeric[c] => c \in Amounts
        BY <2>1 DEF Tabled
      <4> QED BY <2>4, <3>4, <4>1, <4>2
    <3> QED BY <2>4, <3>5, <3>6 DEF cells
  <2> HIDE DEF lines
  <2> QED BY <2>2, <2>5, <2>6, <2>8, <2>9
<1> QED BY <1>1, Typed, OwnZoneStays, PTL

=============================================================================
