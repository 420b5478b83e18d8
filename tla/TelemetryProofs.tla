--------------------------- MODULE TelemetryProofs ---------------------------
(***************************************************************************)
(* Theorems about TelemetryRollups, for every number of events, every      *)
(* retention and grain of time, every length of a pass: nothing is counted *)
(* twice, and a day whose events are on time is whole.                     *)
(***************************************************************************)
EXTENDS TelemetryRollups, FiniteSetTheorems, TLAPS

(***************************************************************************)
(* Days.                                                                   *)
(***************************************************************************)
LEMMA MulMonotone == \A U \in Nat \ {0}, x, y \in Int : x <= y => x * U <= y * U
  OBVIOUS

LEMMA DivBounds ==
  \A U \in Nat \ {0}, a \in Int :
    (a \div U) \in Int /\ (a \div U) * U <= a /\ a < ((a \div U) + 1) * U
  OBVIOUS

LEMMA DayTyping == \A a \in Int : DayOf(a) \in Int
  BY TimeAssumption DEF DayOf

\* Later times are on later days, or on the same day.
LEMMA DayMonotone ==
  ASSUME NEW a \in Int, NEW b \in Int, a <= b
  PROVE  DayOf(a) <= DayOf(b)
<1> DEFINE U == UnitsPerDay
<1>1. U \in Nat \ {0} /\ DayOf(a) \in Int /\ DayOf(b) \in Int
  BY TimeAssumption, DayTyping
<1>2. DayOf(a) * U <= a /\ b < (DayOf(b) + 1) * U
  BY <1>1, DivBounds DEF DayOf
<1>3. CASE DayOf(b) + 1 <= DayOf(a)
  <2>1. (DayOf(b) + 1) * U <= DayOf(a) * U
    BY <1>1, <1>3, MulMonotone
  <2>2. (DayOf(b) + 1) * U \in Int /\ DayOf(a) * U \in Int
    BY <1>1
  <2> QED BY <1>2, <2>1, <2>2
<1> QED BY <1>1, <1>3

\* The cutoff is the start of its day: it cuts no day in two.
LEMMA CutoffIsDay ==
  ASSUME NEW t \in Int, NEW now \in Int
  PROVE  t < Cutoff(now) <=> DayOf(t) < DayOf(now - Retention)
<1> DEFINE U == UnitsPerDay
           c == DayOf(now - Retention)
           d == DayOf(t)
<1>1. U \in Nat \ {0} /\ c \in Int /\ d \in Int
  BY TimeAssumption, DayTyping
<1>2. d * U <= t /\ t < (d + 1) * U
  BY <1>1, DivBounds DEF DayOf
<1>3. Cutoff(now) = c * U
  BY DEF Cutoff
<1>4. d * U \in Int /\ c * U \in Int /\ (d + 1) * U \in Int
  BY <1>1
<1> HIDE DEF U, c, d
<1>5. CASE d < c
  <2>1. (d + 1) * U <= c * U
    BY <1>1, <1>5, MulMonotone
  <2> QED BY <1>2, <1>3, <1>4, <1>5, <2>1 DEF c, d
<1>6. CASE c <= d
  <2>1. c * U <= d * U
    BY <1>1, <1>6, MulMonotone
  <2>2. ~(t < Cutoff(now))
    BY <1>2, <1>3, <1>4, <2>1
  <2>3. ~(d < c)
    BY <1>1, <1>6
  <2> QED BY <2>2, <2>3 DEF c, d
<1> QED BY <1>1, <1>5, <1>6

(***************************************************************************)
(* Types, and counts.                                                      *)
(***************************************************************************)
\* The rows received are finitely many, within the bound.
Finite == IsFiniteSet(received) /\ Cardinality(received) <= MaxEvents

Typed == TypeOK /\ Finite

LEMMA CountTyping ==
  ASSUME Typed, NEW E \in SUBSET received, NEW k \in Keys, NEW d \in Days
  PROVE  Count(E, k, d) \in 0..MaxEvents /\ Count(E, k, d) <= Count(received, k, d)
<1>1. Rows(received, k, d) \subseteq received /\ Rows(E, k, d) \subseteq Rows(received, k, d)
  BY DEF Rows
<1>2. IsFiniteSet(received)
  BY DEF Typed, Finite
<1>3. /\ IsFiniteSet(Rows(received, k, d))
      /\ Cardinality(Rows(received, k, d)) <= Cardinality(received)
  BY <1>1, <1>2, FS_Subset
<1>4. /\ IsFiniteSet(Rows(E, k, d))
      /\ Cardinality(Rows(E, k, d)) <= Cardinality(Rows(received, k, d))
  BY <1>1, <1>3, FS_Subset
<1>5. /\ Cardinality(received) \in Nat /\ Cardinality(Rows(received, k, d)) \in Nat
      /\ Cardinality(Rows(E, k, d)) \in Nat
  BY <1>2, <1>3, <1>4, FS_CardinalityType
<1> QED BY <1>3, <1>4, <1>5, CountAssumption DEF Typed, Finite, Count

\* No rows, no count.
LEMMA CountOfNothing ==
  ASSUME Typed, NEW E \in SUBSET received, NEW k \in Keys, NEW d \in Days
  PROVE  Count(E, k, d) = 0 <=> Rows(E, k, d) = {}
<1>1. Rows(E, k, d) \subseteq received
  BY DEF Rows
<1>2. IsFiniteSet(Rows(E, k, d))
  BY <1>1, FS_Subset DEF Typed, Finite
<1> QED BY <1>2, FS_EmptySet DEF Count

LEMMA UpsertTyping ==
  ASSUME Typed, NEW k \in Keys, NEW d \in Days
  PROVE  Upsert(k, d) \in 0..MaxEvents
<1>1. Count(events, k, d) \in 0..MaxEvents
  BY CountTyping DEF Typed, TypeOK
<1> QED BY <1>1 DEF Upsert, Typed, TypeOK, Counts

LEMMA RecountTyping ==
  ASSUME Typed, NEW K, Recount(K)
  PROVE  written' \in Counts
BY UpsertTyping DEF Recount, Typed, TypeOK, Counts

\* The row an insertion adds is new and is typed.
LEMMA InsertTyping ==
  ASSUME Typed, NEW k \in Keys, NEW t \in Times, Insert(k, t)
  PROVE  /\ Typed'
         /\ \E row \in Row :
              /\ row.key = k /\ row.ts = t /\ row.at = clock
              /\ received' = received \union {row} /\ events' = events \union {row}
<1> DEFINE row == [id |-> Cardinality(received) + 1, key |-> k, ts |-> t, at |-> clock]
<1>1. Cardinality(received) \in Nat /\ IsFiniteSet(received)
  BY FS_CardinalityType DEF Typed, Finite
<1>2. row \in Row
  BY <1>1, CountAssumption DEF Insert, Row, Typed, TypeOK
<1>3. received' = received \union {row} /\ events' = events \union {row}
  BY DEF Insert
<1> HIDE DEF row
<1>4. IsFiniteSet(received') /\ Cardinality(received') <= MaxEvents
  <2>1. /\ IsFiniteSet(received')
        /\ Cardinality(received') = Cardinality(received) \/ Cardinality(received') = Cardinality(received) + 1
    BY <1>1, <1>3, FS_AddElement
  <2>2. Cardinality(received) < MaxEvents
    BY DEF Insert
  <2> QED BY <1>1, <2>1, <2>2, CountAssumption
<1>5. TypeOK'
  BY <1>2, <1>3 DEF Insert, txVars, Typed, TypeOK
<1> QED BY <1>2, <1>3, <1>4, <1>5 DEF Typed, Finite, row


\* Every step keeps the types.
LEMMA NextTyping ==
  ASSUME Typed, [Next]_vars
  PROVE  Typed'
<1>1. CASE UNCHANGED vars
  BY <1>1 DEF vars, txVars, Typed, Finite, TypeOK
<1>2. ASSUME NEW k \in Keys, NEW t \in Times, Insert(k, t) PROVE Typed'
  BY <1>2, InsertTyping
<1>3. CASE Tick
  BY <1>3, TimeAssumption DEF Tick, Times, txVars, Typed, Finite, TypeOK
<1>4. CASE Begin
  BY <1>4, TimeAssumption DEF Begin, Times, Typed, Finite, TypeOK
<1>5. CASE AggComponents
  BY <1>5, RecountTyping DEF AggComponents, Typed, Finite, TypeOK
<1>6. CASE AggFunnel
  BY <1>6, RecountTyping DEF AggFunnel, Typed, Finite, TypeOK
<1>7. CASE Prune
  BY <1>7 DEF Prune, Typed, Finite, TypeOK
<1>8. CASE Commit
  BY <1>8, TimeAssumption DEF Commit, Times, Typed, Finite, TypeOK
<1>9. CASE PassFails
  BY <1>9, TimeAssumption, CountAssumption
  DEF PassFails, Fault, Rollback, Times, Typed, Finite, TypeOK
<1>10. CASE Crash
  BY <1>10, TimeAssumption, CountAssumption
  DEF Crash, Fault, Rollback, Times, Typed, Finite, TypeOK
<1>11. CASE Boot
  BY <1>11, CountAssumption DEF Boot, Fault, txVars, Typed, Finite, TypeOK
<1> QED
  BY <1>1, <1>2, <1>3, <1>4, <1>5, <1>6, <1>7, <1>8, <1>9, <1>10, <1>11 DEF Next, Aggregate

LEMMA InitTyping == Init => Typed
<1> SUFFICES ASSUME Init PROVE Typed
  OBVIOUS
<1>1. IsFiniteSet(received) /\ Cardinality(received) = 0
  BY FS_EmptySet DEF Init
<1>2. NoCounts \in Counts
  BY CountAssumption DEF NoCounts, Counts
<1> QED BY <1>1, <1>2, TimeAssumption, CountAssumption DEF Init, Typed, Finite, TypeOK, Times

LEMMA Typing == Spec => []Typed
<1>1. Typed /\ [Next]_vars => Typed'
  BY NextTyping
<1> QED BY <1>1, InitTyping, PTL DEF Spec

\* The variables of the store keep their types: in particular no rollup exceeds
\* the number of events, and a pass that is not under way holds nothing.
THEOREM TypesKept == Spec => []TypeOK
<1>1. Typed => TypeOK
  BY DEF Typed
<1> QED BY <1>1, Typing, PTL

(***************************************************************************)
(* Nothing is counted twice: neither in the rollups nor in what a pass is  *)
(* about to commit.                                                        *)
(***************************************************************************)
NoExcess ==
  \A k \in Keys, d \in Days :
    rollup[k][d] <= Count(received, k, d) /\ written[k][d] <= Count(received, k, d)

LEMMA MoreRowsMoreCount ==
  ASSUME NEW S, IsFiniteSet(S), NEW E \in SUBSET S, NEW k, NEW d
  PROVE  /\ Count(E, k, d) \in Nat /\ Count(S, k, d) \in Nat
         /\ Count(E, k, d) <= Count(S, k, d)
<1>1. Rows(S, k, d) \subseteq S /\ Rows(E, k, d) \subseteq Rows(S, k, d)
  BY DEF Rows
<1>2. IsFiniteSet(Rows(S, k, d))
  BY <1>1, FS_Subset
<1>3. IsFiniteSet(Rows(E, k, d)) /\ Cardinality(Rows(E, k, d)) <= Cardinality(Rows(S, k, d))
  BY <1>1, <1>2, FS_Subset
<1> QED BY <1>2, <1>3, FS_CardinalityType DEF Count

\* A recount writes no more than was received.
LEMMA RecountNoExcess ==
  ASSUME Typed, NoExcess, NEW K, Recount(K), NEW k \in Keys, NEW d \in Days
  PROVE  written'[k][d] <= Count(received, k, d)
<1>1. Count(events, k, d) <= Count(received, k, d)
  BY CountTyping DEF Typed, TypeOK
<1>2. Upsert(k, d) <= Count(received, k, d)
  BY <1>1 DEF Upsert, NoExcess
<1>3. written'[k][d] = Upsert(k, d) \/ written'[k][d] = written[k][d]
  BY DEF Recount, Typed, TypeOK, Counts
<1> QED BY <1>2, <1>3 DEF NoExcess

LEMMA NextNoExcess ==
  ASSUME Typed, NoExcess, [Next]_vars
  PROVE  NoExcess'
<1> SUFFICES ASSUME NEW k \in Keys, NEW d \in Days
    PROVE  rollup'[k][d] <= Count(received', k, d) /\ written'[k][d] <= Count(received', k, d)
  BY DEF NoExcess, Count, Rows
<1>0. rollup[k][d] <= Count(received, k, d) /\ written[k][d] <= Count(received, k, d)
  BY DEF NoExcess
<1>1. CASE UNCHANGED vars
  BY <1>0, <1>1 DEF vars, txVars
<1>2. ASSUME NEW j \in Keys, NEW t \in Times, Insert(j, t)
      PROVE  rollup'[k][d] <= Count(received', k, d) /\ written'[k][d] <= Count(received', k, d)
  <2>1. IsFiniteSet(received') /\ received \in SUBSET received'
    BY <1>2, InsertTyping DEF Typed, Finite
  <2>2. /\ Count(received, k, d) \in Nat /\ Count(received', k, d) \in Nat
        /\ Count(received, k, d) <= Count(received', k, d)
    BY <2>1, MoreRowsMoreCount
  <2>3. rollup' = rollup /\ written' = written
    BY <1>2 DEF Insert, txVars
  <2>4. rollup[k][d] \in 0..MaxEvents /\ written[k][d] \in 0..MaxEvents
    BY DEF Typed, TypeOK, Counts
  <2> QED BY <1>0, <2>2, <2>3, <2>4, CountAssumption
<1>3. CASE Tick \/ Begin \/ Prune \/ Boot
  BY <1>0, <1>3 DEF Tick, Begin, Prune, Boot, txVars
<1>4. CASE AggComponents
  BY <1>0, <1>4, RecountNoExcess DEF AggComponents
<1>5. CASE AggFunnel
  BY <1>0, <1>5, RecountNoExcess DEF AggFunnel
<1>6. CASE Commit \/ PassFails \/ Crash
  BY <1>0, <1>6 DEF Commit, PassFails, Crash, Rollback
<1> QED BY <1>1, <1>2, <1>3, <1>4, <1>5, <1>6 DEF Next, Aggregate

LEMMA InitNoExcess == Init => NoExcess
<1> SUFFICES ASSUME Init, NEW k \in Keys, NEW d \in Days
    PROVE  rollup[k][d] <= Count(received, k, d) /\ written[k][d] <= Count(received, k, d)
  BY DEF NoExcess
<1>1. Count(received, k, d) \in Nat
  BY InitTyping, MoreRowsMoreCount DEF Typed, Finite
<1>2. rollup[k][d] = 0 /\ written[k][d] = 0
  BY DEF Init, NoCounts
<1> QED BY <1>1, <1>2

LEMMA ExcessNever == Spec => []NoExcess
<1>1. Typed /\ NoExcess /\ [Next]_vars => NoExcess'
  BY NextNoExcess
<1> QED BY <1>1, InitNoExcess, Typing, PTL DEF Spec

\* Whatever passes repeat, fail or crash, and however events arrive between their
\* statements, no rollup is more than the events received.
THEOREM EventsCountOnce == Spec => []NothingCountedTwice
<1>1. NoExcess => NothingCountedTwice
  BY DEF NoExcess, NothingCountedTwice
<1> QED BY <1>1, ExcessNever, PTL

(***************************************************************************)
(* A day is whole.  A day whose rows were on time gets no row once it is   *)
(* past the retention; what a pass deletes is past it; and a day that will *)
(* be past it before the pass under way commits gets no row during it.     *)
(***************************************************************************)
Past(d) == Retention > 0 /\ d < DayOf(clock - Retention)
Closing(d) == Retention > 0 /\ d < DayOf((began + MaxPass) - Retention)

Counted(k) ==
  \/ k \in ComponentKeys /\ pass \in {"funnel", "prune", "commit"}
  \/ k \in StepKeys /\ pass \in {"prune", "commit"}

\* All rows are there, or none is and the rollup has them.
StoredWhole(k, d) ==
  \/ Rows(events, k, d) = Rows(received, k, d)
  \/ /\ Rows(events, k, d) = {} /\ Past(d)
     /\ rollup[k][d] = Count(received, k, d) /\ written[k][d] = Count(received, k, d)

\* What this pass has counted, and may delete, it has counted in full.
CountedWhole(k, d) ==
  Counted(k) /\ Closing(d) => written[k][d] = Count(received, k, d)

\* The pass deletes a day that is past, in full, or leaves it.
DeletedWhole(k, d) ==
  pass = "commit" => \/ Rows(deleted, k, d) = {}
                     \/ Past(d) /\ Rows(events, k, d) \subseteq deleted

PassTime == pass # "idle" => clock <= began + MaxPass

Whole ==
  /\ PassTime
  /\ \A k \in Keys, d \in Days :
       OnTime(k, d) => StoredWhole(k, d) /\ CountedWhole(k, d) /\ DeletedWhole(k, d)

LEMMA Numbers ==
  ASSUME Typed
  PROVE  /\ clock \in Nat /\ began \in Nat /\ began <= clock
         /\ MaxPass \in Nat /\ Retention \in Nat
BY TimeAssumption DEF Typed, TypeOK, Times

LEMMA DaysAreIntegers == Days \subseteq Int
BY DayTyping, TimeAssumption DEF Days

\* During a pass, a day that is past is closing.
LEMMA PastIsClosing ==
  ASSUME Typed, PassTime, pass # "idle", NEW d \in Days, Past(d)
  PROVE  Closing(d)
<1>1. clock - Retention \in Int /\ (began + MaxPass) - Retention \in Int
  BY Numbers
<1>2. clock - Retention <= (began + MaxPass) - Retention
  BY Numbers DEF PassTime
<1>3. DayOf(clock - Retention) <= DayOf((began + MaxPass) - Retention)
  BY <1>1, <1>2, DayMonotone
<1> QED BY <1>1, <1>3, DayTyping, DaysAreIntegers DEF Past, Closing

\* A row of a day that is past, or closing, is tardy.
LEMMA PastRowIsTardy ==
  ASSUME Typed, NEW k \in Keys, NEW t \in Times, Insert(k, t), NEW d \in Days,
         DayOf(t) = d, Past(d) \/ Closing(d)
  PROVE  ~OnTime(k, d)'
<1> DEFINE limit == DayOf((clock + MaxPass) - Retention)
<1>1. PICK row \in Row : /\ row.key = k /\ row.ts = t /\ row.at = clock
                         /\ received' = received \union {row}
  BY InsertTyping
<1>2. /\ clock - Retention \in Int /\ (began + MaxPass) - Retention \in Int
      /\ (clock + MaxPass) - Retention \in Int /\ clock + MaxPass \in Int
      /\ clock - Retention <= (clock + MaxPass) - Retention
      /\ (began + MaxPass) - Retention <= (clock + MaxPass) - Retention
  BY Numbers
<1>3. DayOf(clock - Retention) <= limit /\ DayOf((began + MaxPass) - Retention) <= limit
  BY <1>2, DayMonotone
<1>4. /\ DayOf(clock - Retention) \in Int /\ DayOf((began + MaxPass) - Retention) \in Int
      /\ limit \in Int /\ d \in Int
  BY <1>2, DayTyping, DaysAreIntegers
<1>5. d < limit /\ Retention > 0
  <2> HIDE DEF limit
  <2> QED BY <1>3, <1>4 DEF Past, Closing
<1>6. t \in Int
  BY TimeAssumption DEF Times
<1>7. t < Cutoff(clock + MaxPass)
  <2>1. t < Cutoff(clock + MaxPass) <=> DayOf(t) < limit
    BY <1>2, <1>6, CutoffIsDay
  <2> HIDE DEF limit
  <2> QED BY <1>5, <2>1
<1>8. Tardy(row)
  BY <1>1, <1>5, <1>7 DEF Tardy
<1>9. row \in Rows(received', k, d)
  BY <1>1 DEF Rows
<1> QED BY <1>8, <1>9 DEF OnTime, Rows

\* A day that is on time was on time before.
LEMMA OnTimeBefore ==
  ASSUME Typed, [Next]_vars, NEW k \in Keys, NEW d \in Days, OnTime(k, d)'
  PROVE  OnTime(k, d)
<1>1. received \subseteq received'
  BY DEF Next, Aggregate, Insert, Tick, Begin, AggComponents, AggFunnel, Prune, Commit,
     PassFails, Crash, Boot, vars
<1> QED BY <1>1 DEF OnTime, Rows

\* An insertion leaves a whole day whole.
LEMMA InsertWhole ==
  ASSUME Typed, Whole, NEW j \in Keys, NEW t \in Times, Insert(j, t),
         NEW k \in Keys, NEW d \in Days, OnTime(k, d), OnTime(k, d)'
  PROVE  StoredWhole(k, d)' /\ CountedWhole(k, d)' /\ DeletedWhole(k, d)'
<1>1. PICK row \in Row :
        /\ row.key = j /\ row.ts = t
        /\ received' = received \union {row} /\ events' = events \union {row}
  BY InsertTyping
<1>2. /\ clock' = clock /\ rollup' = rollup
      /\ pass' = pass /\ began' = began /\ written' = written /\ deleted' = deleted
  BY DEF Insert, txVars
<1>3. StoredWhole(k, d) /\ CountedWhole(k, d) /\ DeletedWhole(k, d)
  BY DEF Whole
<1>4. CASE k # j \/ DayOf(t) # d
  <2>1. Rows(received', k, d) = Rows(received, k, d) /\ Rows(events', k, d) = Rows(events, k, d)
    BY <1>1, <1>4 DEF Rows
  <2>2. Count(received', k, d) = Count(received, k, d)
    BY <2>1 DEF Count
  <2>3. StoredWhole(k, d)'
    BY <1>2, <1>3, <2>1, <2>2 DEF StoredWhole, Past
  <2>4. CountedWhole(k, d)'
    BY <1>2, <1>3, <2>2 DEF CountedWhole, Counted, Closing
  <2>5. DeletedWhole(k, d)'
    BY <1>2, <1>3, <2>1 DEF DeletedWhole, Past, Rows
  <2> QED BY <2>3, <2>4, <2>5
<1>5. CASE k = j /\ DayOf(t) = d
  <2>1. ~Past(d) /\ ~Closing(d)
    BY <1>5, PastRowIsTardy
  <2>2. Rows(events, k, d) = Rows(received, k, d)
    BY <1>3, <2>1 DEF StoredWhole
  <2>3. StoredWhole(k, d)'
    BY <1>1, <2>2 DEF StoredWhole, Rows
  <2>4. CountedWhole(k, d)'
    BY <1>2, <2>1 DEF CountedWhole, Closing
  <2>5. DeletedWhole(k, d)'
    BY <1>2, <1>3, <2>1 DEF DeletedWhole, Rows
  <2> QED BY <2>3, <2>4, <2>5
<1> QED BY <1>4, <1>5

\* What is past stays past.
LEMMA TickWhole ==
  ASSUME Typed, Whole, Tick, NEW k \in Keys, NEW d \in Days, OnTime(k, d)
  PROVE  StoredWhole(k, d)' /\ CountedWhole(k, d)' /\ DeletedWhole(k, d)'
<1>1. clock - Retention \in Int /\ clock' - Retention \in Int
      /\ clock - Retention <= clock' - Retention
  BY Numbers DEF Tick
<1>2. DayOf(clock - Retention) <= DayOf(clock' - Retention)
  BY <1>1, DayMonotone
<1>3. DayOf(clock - Retention) \in Int /\ DayOf(clock' - Retention) \in Int /\ d \in Int
  BY <1>1, DayTyping, DaysAreIntegers
<1>4. Past(d) => Past(d)'
  BY <1>2, <1>3 DEF Past
<1>5. /\ received' = received /\ events' = events /\ rollup' = rollup
      /\ pass' = pass /\ began' = began /\ written' = written /\ deleted' = deleted
  BY DEF Tick, txVars
<1>6. StoredWhole(k, d) /\ CountedWhole(k, d) /\ DeletedWhole(k, d)
  BY DEF Whole
<1> QED BY <1>4, <1>5, <1>6
        DEF StoredWhole, CountedWhole, DeletedWhole, Counted, Closing, Count, Rows

\* A recount of K leaves a whole day whole, and has counted the keys of K in full.
LEMMA RecountWhole ==
  ASSUME Typed, NoExcess, NEW K, Recount(K), NEW k \in Keys, NEW d \in Days, StoredWhole(k, d)
  PROVE  /\ Rows(events, k, d) = {} /\ Past(d) => written'[k][d] = written[k][d]
         /\ k \in K => written'[k][d] = Count(received, k, d)
         /\ k \notin K => written'[k][d] = written[k][d]
<1>1. written'[k][d] = IF k \in K THEN Upsert(k, d) ELSE written[k][d]
  BY DEF Recount, Typed, TypeOK, Counts
<1>2. Count(events, k, d) = 0 <=> Rows(events, k, d) = {}
  BY CountOfNothing DEF Typed, TypeOK
<1>3. CASE Rows(events, k, d) = {} /\ Past(d) /\ written[k][d] = Count(received, k, d)
  BY <1>1, <1>2, <1>3 DEF Upsert
<1>4. CASE Rows(events, k, d) = Rows(received, k, d)
  <2>1. Count(events, k, d) = Count(received, k, d)
    BY <1>4 DEF Count
  <2>2. CASE Count(events, k, d) # 0
    BY <1>1, <1>2, <2>1, <2>2 DEF Upsert
  <2>3. CASE Count(events, k, d) = 0
    <3>1. written[k][d] <= Count(received, k, d)
      BY DEF NoExcess
    <3>2. written[k][d] \in 0..MaxEvents
      BY DEF Typed, TypeOK, Counts
    <3>3. written[k][d] = 0
      BY <2>1, <2>3, <3>1, <3>2, CountAssumption
    <3> QED BY <1>1, <2>1, <2>3, <3>3 DEF Upsert
  <2> QED BY <2>2, <2>3
<1> QED BY <1>3, <1>4 DEF StoredWhole

\* The two statements that count.
LEMMA CountingWhole ==
  ASSUME Typed, NoExcess, Whole, AggComponents \/ AggFunnel,
         NEW k \in Keys, NEW d \in Days, OnTime(k, d)
  PROVE  StoredWhole(k, d)' /\ CountedWhole(k, d)' /\ DeletedWhole(k, d)'
<1>1. StoredWhole(k, d) /\ CountedWhole(k, d)
  BY DEF Whole
<1>2. /\ clock' = clock /\ received' = received /\ events' = events
      /\ rollup' = rollup /\ began' = began
  BY DEF AggComponents, AggFunnel
<1>3. PICK K : /\ Recount(K)
               /\ \/ K = ComponentKeys /\ pass = "components" /\ pass' = "funnel"
                  \/ K = StepKeys /\ pass = "funnel" /\ pass' = "prune"
  BY DEF AggComponents, AggFunnel
<1>4. /\ Rows(events, k, d) = {} /\ Past(d) => written'[k][d] = written[k][d]
      /\ k \in K => written'[k][d] = Count(received, k, d)
      /\ k \notin K => written'[k][d] = written[k][d]
  BY <1>1, <1>3, RecountWhole
<1>5. StoredWhole(k, d)'
  BY <1>1, <1>2, <1>4 DEF StoredWhole, Past, Rows, Count
<1>6. CountedWhole(k, d)'
  BY <1>1, <1>2, <1>3, <1>4, KeysAssumption DEF CountedWhole, Counted, Closing, Rows, Count
<1>7. DeletedWhole(k, d)'
  BY <1>3 DEF DeletedWhole
<1> QED BY <1>5, <1>6, <1>7

\* The deletion takes the days that are past, whole.
LEMMA PruneWhole ==
  ASSUME Typed, Whole, Prune, NEW k \in Keys, NEW d \in Days, OnTime(k, d)
  PROVE  StoredWhole(k, d)' /\ CountedWhole(k, d)' /\ DeletedWhole(k, d)'
<1>1. StoredWhole(k, d) /\ CountedWhole(k, d)
  BY DEF Whole
<1>2. /\ clock' = clock /\ received' = received /\ events' = events /\ rollup' = rollup
      /\ began' = began /\ written' = written /\ pass = "prune" /\ pass' = "commit"
      /\ deleted' = IF Retention > 0 THEN {e \in events : e.ts < Cutoff(clock)} ELSE {}
  BY DEF Prune
<1>3. ASSUME NEW e \in Rows(events, k, d) PROVE e \in deleted' <=> Past(d)
  <2>1. e \in events /\ e.ts \in Int /\ DayOf(e.ts) = d /\ clock \in Int
    BY TimeAssumption DEF Rows, Typed, TypeOK, Row, Times
  <2>2. e.ts < Cutoff(clock) <=> DayOf(e.ts) < DayOf(clock - Retention)
    BY <2>1, CutoffIsDay
  <2> QED BY <1>2, <2>1, <2>2 DEF Past
<1>4. deleted' \subseteq events
  BY <1>2
<1>5. Rows(deleted', k, d) = {} \/ (Past(d) /\ Rows(events, k, d) \subseteq deleted')
  <2>1. Rows(deleted', k, d) \subseteq Rows(events, k, d)
    BY <1>4 DEF Rows
  <2>2. Rows(deleted', k, d) \subseteq deleted'
    BY DEF Rows
  <2>3. CASE Past(d)
    BY <1>3, <2>3
  <2>4. CASE ~Past(d)
    BY <1>3, <2>1, <2>2, <2>4
  <2> QED BY <2>3, <2>4
<1>6. DeletedWhole(k, d)'
  BY <1>2, <1>5 DEF DeletedWhole, Past, Rows
<1>7. StoredWhole(k, d)'
  BY <1>1, <1>2 DEF StoredWhole, Past, Rows, Count
<1>8. CountedWhole(k, d)'
  BY <1>1, <1>2 DEF CountedWhole, Counted, Closing, Count, Rows
<1> QED BY <1>6, <1>7, <1>8

\* The commit publishes the counts of the days it deletes.
LEMMA CommitWhole ==
  ASSUME Typed, Whole, Commit, NEW k \in Keys, NEW d \in Days, OnTime(k, d)
  PROVE  StoredWhole(k, d)' /\ CountedWhole(k, d)' /\ DeletedWhole(k, d)'
<1>1. StoredWhole(k, d) /\ CountedWhole(k, d) /\ DeletedWhole(k, d)
  BY DEF Whole
<1>2. /\ clock' = clock /\ received' = received /\ events' = events \ deleted
      /\ rollup' = written /\ written' = written /\ pass = "commit" /\ pass' = "idle"
  BY DEF Commit
<1>3. CASE Rows(deleted, k, d) = {}
  <2>1. Rows(events', k, d) = Rows(events, k, d)
    BY <1>2, <1>3 DEF Rows
  <2> QED BY <1>1, <1>2, <2>1 DEF StoredWhole, CountedWhole, DeletedWhole, Counted, Past, Rows, Count
<1>4. CASE Past(d) /\ Rows(events, k, d) \subseteq deleted
  <2>1. Rows(events', k, d) = {}
    BY <1>2, <1>4 DEF Rows
  <2>2. Closing(d)
    BY <1>2, <1>4, PastIsClosing DEF Whole
  <2>3. Counted(k)
    BY <1>2 DEF Counted, Keys
  <2>4. written[k][d] = Count(received, k, d)
    BY <1>1, <2>2, <2>3 DEF CountedWhole
  <2> QED BY <1>2, <1>4, <2>1, <2>4 DEF StoredWhole, CountedWhole, DeletedWhole, Counted, Past, Rows, Count
<1> QED BY <1>1, <1>2, <1>3, <1>4 DEF DeletedWhole

\* A pass that begins, fails or is cut short, and a boot.
LEMMA RestWhole ==
  ASSUME Typed, Whole, Begin \/ PassFails \/ Crash \/ Boot,
         NEW k \in Keys, NEW d \in Days, OnTime(k, d)
  PROVE  StoredWhole(k, d)' /\ CountedWhole(k, d)' /\ DeletedWhole(k, d)'
<1>1. StoredWhole(k, d) /\ CountedWhole(k, d) /\ DeletedWhole(k, d)
  BY DEF Whole
<1>2. clock' = clock /\ received' = received /\ events' = events /\ rollup' = rollup
  BY DEF Begin, PassFails, Crash, Boot
<1>3. CASE Begin
  BY <1>1, <1>2, <1>3 DEF Begin, StoredWhole, CountedWhole, DeletedWhole, Counted, Past, Rows, Count
<1>4. CASE PassFails \/ Crash
  <2>1. pass' = "idle" /\ written' = rollup
    BY <1>4 DEF PassFails, Crash, Rollback
  <2> QED BY <1>1, <1>2, <2>1
          DEF StoredWhole, CountedWhole, DeletedWhole, Counted, Past, Rows, Count
<1>5. CASE Boot
  <2>1. pass' = pass /\ began' = began /\ written' = written /\ deleted' = deleted
    BY <1>5 DEF Boot, txVars
  <2> QED BY <1>1, <1>2, <2>1
          DEF StoredWhole, CountedWhole, DeletedWhole, Counted, Closing, Past, Rows, Count
<1> QED BY <1>3, <1>4, <1>5

LEMMA NextPassTime ==
  ASSUME Typed, PassTime, [Next]_vars
  PROVE  PassTime'
<1>1. CASE Tick
  <2>1. clock' = clock + 1 /\ pass' = pass /\ began' = began
        /\ (pass # "idle" => clock < began + MaxPass)
    BY <1>1 DEF Tick, txVars
  <2> QED BY <2>1, Numbers DEF PassTime
<1>2. CASE Begin
  BY <1>2, Numbers DEF Begin, PassTime
<1>3. CASE Commit \/ PassFails \/ Crash
  BY <1>3 DEF Commit, PassFails, Crash, Rollback, PassTime
<1>4. CASE \/ UNCHANGED vars \/ AggComponents \/ AggFunnel \/ Prune \/ Boot
           \/ \E k \in Keys, t \in Times : Insert(k, t)
  <2>1. clock' = clock /\ began' = began /\ (pass' # "idle" => pass # "idle")
    BY <1>4 DEF vars, txVars, AggComponents, AggFunnel, Prune, Boot, Insert
  <2> QED BY <2>1 DEF PassTime
<1> QED BY <1>1, <1>2, <1>3, <1>4 DEF Next, Aggregate

LEMMA NextWhole ==
  ASSUME Typed, NoExcess, Whole, [Next]_vars
  PROVE  Whole'
<1>1. PassTime'
  BY NextPassTime DEF Whole
<1>2. ASSUME NEW k \in Keys, NEW d \in Days, OnTime(k, d)'
      PROVE  StoredWhole(k, d)' /\ CountedWhole(k, d)' /\ DeletedWhole(k, d)'
  <2>1. OnTime(k, d)
    BY <1>2, OnTimeBefore
  <2>2. CASE UNCHANGED vars
    <3>1. StoredWhole(k, d) /\ CountedWhole(k, d) /\ DeletedWhole(k, d)
      BY <2>1 DEF Whole
    <3> QED BY <2>2, <3>1 DEF vars, txVars, StoredWhole, CountedWhole, DeletedWhole,
               Counted, Closing, Past, Rows, Count
  <2>3. ASSUME NEW j \in Keys, NEW t \in Times, Insert(j, t)
        PROVE  StoredWhole(k, d)' /\ CountedWhole(k, d)' /\ DeletedWhole(k, d)'
    BY <1>2, <2>1, <2>3, InsertWhole
  <2>4. CASE Tick
    BY <2>1, <2>4, TickWhole
  <2>5. CASE AggComponents \/ AggFunnel
    BY <2>1, <2>5, CountingWhole
  <2>6. CASE Prune
    BY <2>1, <2>6, PruneWhole
  <2>7. CASE Commit
    BY <2>1, <2>7, CommitWhole
  <2>8. CASE Begin \/ PassFails \/ Crash \/ Boot
    BY <2>1, <2>8, RestWhole
  <2> QED BY <2>2, <2>3, <2>4, <2>5, <2>6, <2>7, <2>8 DEF Next, Aggregate
<1> QED BY <1>1, <1>2 DEF Whole

LEMMA InitWhole == Init => Whole
<1> SUFFICES ASSUME Init PROVE Whole
  OBVIOUS
<1>1. PassTime
  BY DEF Init, PassTime
<1>2. ASSUME NEW k \in Keys, NEW d \in Days
      PROVE  StoredWhole(k, d) /\ CountedWhole(k, d) /\ DeletedWhole(k, d)
  BY DEF Init, StoredWhole, CountedWhole, DeletedWhole, Counted, Rows
<1> QED BY <1>1, <1>2 DEF Whole

\* A day whose events arrived on time is kept in full or, once it is pruned, was
\* counted in full first: for every retention, every grain of days, and however
\* long a pass may take, as long as an event counts as on time only when its day
\* stays within the retention for that long.
THEOREM DaysStayWhole == Spec => []DayIsWhole
<1>1. Typed /\ NoExcess /\ Whole /\ [Next]_vars => Whole'
  BY NextWhole
<1>2. Whole => DayIsWhole
  BY DEF Whole, StoredWhole, DayIsWhole
<1> QED BY <1>1, <1>2, InitWhole, Typing, ExcessNever, PTL DEF Spec

==============================================================================
