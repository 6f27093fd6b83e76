------------------------- MODULE EventPagesProofs --------------------------
(***************************************************************************)
(* What a sweep deletes and what the Live Logs page and the Overview show, *)
(* for any number of events, tabs and visits, any settings, and batches,   *)
(* faults and restarts in between.                                         *)
(*                                                                         *)
(* RetentionIsKeptInRange is about the moment a row goes; its invariant    *)
(* carries what the sweep has read up to that moment (SweepOK), and that   *)
(* no row precedes its insert (RowsOK), so that only the sweep can make a  *)
(* row disappear.                                                          *)
(*                                                                         *)
(* The page's invariant (PageOK) rests on two facts about the table: ids   *)
(* are in the order of the events among the rows there are (IdsOK), and a  *)
(* new row is later than all before it (TableGrows).                       *)
(*                                                                         *)
(* The Overview's invariant (VisitOK) says, query by query, what the       *)
(* numbers read so far still mean after the table has moved on: counts     *)
(* only grow, and what is counted has or had a row (CountsOK).             *)
(***************************************************************************)
EXTENDS EventPages, QueueLemmas

\* Only events that have been handed to InsertEvents have a row.
RowsOK ==
    /\ arrived \in Nat
    /\ clock \in Nat
    /\ \A e \in Events : e > arrived => idOf[e] = 0

\* The setting in force, and the one the sweep read, are among those that
\* were in force since the sweep took its time.
SweepOK ==
    /\ days \in (Nat \ {0}) \cup {Unset}
    /\ sweepNow \in Nat
    /\ inForce \subseteq Nat \ {0}
    /\ spc # "wait" => GetRetentionDays(days) \in inForce
    /\ spc = "delete" => sweepDays \in inForce

SweepInv == RowsOK /\ SweepOK

-----------------------------------------------------------------------------
LEMMA SweepInvInit == Init => SweepInv
BY EventTableAssumption, RetentionAssumption
DEF Init, EventTableInit, RetentionInit, SweepInv, RowsOK, SweepOK, GetRetentionDays, Events

LEMMA DefaultIsPositive ==
    ASSUME SweepOK PROVE GetRetentionDays(days) \in Nat \ {0}
BY RetentionAssumption DEF SweepOK, GetRetentionDays

\* The steps of the table, the job aside.
LEMMA IngestKeepsRowsOK ==
    ASSUME RowsOK, Ingest PROVE RowsOK'
<1>1. ASSUME NEW n \in 1..MaxBatch, InsertEvents(n) \/ InsertEventsFails(n)
      PROVE  RowsOK'
  <2>1. n \in Nat /\ NEvents \in Nat
    BY EventTableAssumption
  <2>2. CASE InsertEvents(n)
    BY <2>1, <2>2 DEF InsertEvents, NextBatch, RowsOK, Events
  <2>3. CASE InsertEventsFails(n)
    BY <2>1, <2>3 DEF InsertEventsFails, RowsOK, Events
  <2> QED BY <1>1, <2>2, <2>3
<1>2. CASE UpsertRollups \/ UpsertRollupsFails
  BY <1>2 DEF UpsertRollups, UpsertRollupsFails, RowsOK
<1> QED BY <1>1, <1>2 DEF Ingest

LEMMA RowsStep == RowsOK /\ [Next]_vars => RowsOK'
<1> SUFFICES ASSUME RowsOK, [Next]_vars PROVE RowsOK'
  OBVIOUS
<1>1. CASE PassTime
  BY <1>1 DEF PassTime, RowsOK
<1>2. CASE Ingest
  BY <1>2, IngestKeepsRowsOK
<1>3. CASE PruneEvents
  BY <1>3 DEF PruneEvents, DeleteEventsOlderThan, RowsOK, Rows
<1>4. CASE UNCHANGED <<arrived, clock, idOf>>
  BY <1>4 DEF RowsOK
<1>5. CASE SweepFails \/ Restart
  BY <1>5, <1>4 DEF SweepFails, Restart
<1>6. ChangeRetention /\ UNCHANGED <<tableVars, tabVars, visitVars>> => UNCHANGED <<arrived, clock, idOf>>
  BY DEF tableVars
<1>7. SweepStep => PruneEvents \/ UNCHANGED <<arrived, clock, idOf>>
  BY DEF SweepStep, tableVars
<1>8. Browse => UNCHANGED <<arrived, clock, idOf>>
  BY DEF Browse, HandleLogsList, Connect, ConnectFails, Poll, Disconnect, Pause, Resume, tableVars
<1>9. Visit => UNCHANGED <<arrived, clock, idOf>>
  BY DEF Visit, HandleOverview, HandleStatsSummary, ReadSummary, ReadSample, ReadChart,
         ReadRecent, VisitFails, tableVars
<1>10. CASE UNCHANGED vars
  BY <1>10, <1>4 DEF vars, tableVars
<1> QED BY <1>1, <1>2, <1>3, <1>4, <1>5, <1>6, <1>7, <1>8, <1>9, <1>10 DEF Next

LEMMA SweepStepOK == SweepInv /\ [Next]_vars => SweepOK'
<1> SUFFICES ASSUME SweepInv, [Next]_vars PROVE SweepOK'
  OBVIOUS
<1> USE RetentionAssumption DEF SweepInv
<1>1. CASE UNCHANGED retentionVars
  BY <1>1 DEF SweepOK, retentionVars, GetRetentionDays
<1>2. CASE ChangeRetention
  <2>1. PICK d \in DayForms : HandleRetentionChange(d)
    BY <1>2 DEF ChangeRetention
  <2>2. d \in Nat \ {0} /\ GetRetentionDays(days') = d
    BY <2>1 DEF HandleRetentionChange, GetRetentionDays
  <2> QED BY <2>1, <2>2 DEF HandleRetentionChange, SweepOK
<1>3. CASE BeginSweep
  BY <1>3, DefaultIsPositive DEF BeginSweep, SweepOK, RowsOK, GetRetentionDays
<1>4. CASE ReadRetentionDays
  BY <1>4 DEF ReadRetentionDays, SweepOK, GetRetentionDays
<1>5. CASE SweepEnds
  BY <1>5 DEF SweepEnds, SweepOK
<1>6. PruneEvents \/ SweepFails \/ Restart => SweepEnds
  BY DEF PruneEvents, SweepFails, Restart
<1>7. UNCHANGED vars => UNCHANGED retentionVars
  BY DEF vars
<1> QED BY <1>1, <1>2, <1>3, <1>4, <1>5, <1>6, <1>7 DEF Next, SweepStep

LEMMA SweepInvHolds == Spec => []SweepInv
<1>1. SweepInv /\ [Next]_vars => SweepInv'
  BY RowsStep, SweepStepOK DEF SweepInv
<1> QED BY SweepInvInit, <1>1, PTL DEF Spec

-----------------------------------------------------------------------------
\* A number of hours that a Duration can hold is what it holds.
LEMMA DurationIsExact ==
    ASSUME NEW x \in Nat, x <= DurationRange \div 2, x # 0
    PROVE  Duration(-x) = -x
<1> DEFINE half == DurationRange \div 2
           a == -x + half
<1>1. half \in Nat /\ DurationRange = 2 * half
  BY RetentionAssumption
<1>2. a \in Nat /\ a < DurationRange
  BY <1>1
<1>3. a % DurationRange = a
  BY <1>1, <1>2
<1> QED BY <1>1, <1>3 DEF Duration

\* A row disappears only by the sweep's delete, and then by its cutoff.
LEMMA PrunedByCutoff ==
    ASSUME SweepInv, [Next]_vars, NEW e \in Events, Pruned(e)
    PROVE  /\ spc = "delete"
           /\ ReceivedAt[e] < Cutoff(sweepNow, sweepDays)
<1>1. CASE PruneEvents
  BY <1>1 DEF PruneEvents, DeleteEventsOlderThan, Pruned, Rows
<1>2. ~UNCHANGED idOf
  BY DEF Pruned
<1>3. ~Ingest
  <2>1. ASSUME NEW n \in 1..MaxBatch, InsertEvents(n) PROVE FALSE
    BY <2>1 DEF InsertEvents, NextBatch, Pruned, SweepInv, RowsOK
  <2> QED BY <1>2, <2>1 DEF Ingest, InsertEventsFails, UpsertRollups, UpsertRollupsFails
<1>4. Browse => UNCHANGED idOf
  BY DEF Browse, HandleLogsList, Connect, ConnectFails, Poll, Disconnect, Pause, Resume, tableVars
<1>5. Visit => UNCHANGED idOf
  BY DEF Visit, HandleOverview, HandleStatsSummary, ReadSummary, ReadSample, ReadChart,
         ReadRecent, VisitFails, tableVars
<1>6. PassTime \/ SweepFails \/ Restart \/ UNCHANGED vars \/ UNCHANGED tableVars => UNCHANGED idOf
  BY DEF PassTime, SweepFails, Restart, vars, tableVars
<1>7. UNCHANGED <<tableVars, tabVars, visitVars>> => UNCHANGED idOf
  BY DEF tableVars
<1> QED BY <1>1, <1>2, <1>3, <1>4, <1>5, <1>6, <1>7 DEF Next, SweepStep

(* While every setting fits a Duration, a sweep deletes only rows that are  *)
(* older, at its start, than a number of days in force since then           *)
(* (retention.go:82-97), whatever is inserted, changed, failing or          *)
(* restarted meanwhile.                                                     *)
THEOREM RetentionIsKeptInRangeHolds == Spec => RetentionIsKeptInRange
<1>1. SweepInv /\ [Next]_vars => [PrunesOnlyExpiredInRange]_vars
  <2> SUFFICES ASSUME SweepInv, [Next]_vars, \A d \in inForce : RepresentableDays(d),
                      NEW e \in Events, Pruned(e)
               PROVE  \E d \in inForce : Expired(e, sweepNow, d)
    BY DEF PrunesOnlyExpiredInRange, PrunesOnlyExpired
  <2>1. sweepDays \in inForce /\ sweepDays \in Nat \ {0} /\ sweepNow \in Nat
    BY PrunedByCutoff DEF SweepInv, SweepOK
  <2> DEFINE x == sweepDays * DayHours
  <2>2. x \in Nat /\ x # 0
    BY <2>1, RetentionAssumption
  <2>3. x <= DurationRange \div 2
    BY <2>1 DEF RepresentableDays
  <2>4. Cutoff(sweepNow, sweepDays) = sweepNow + -x
    BY <2>2, <2>3, DurationIsExact DEF Cutoff
  <2>5. Expired(e, sweepNow, sweepDays)
    <3> HIDE DEF x
    <3>1. ReceivedAt[e] < sweepNow + -x /\ ReceivedAt[e] \in Int
      BY <2>4, PrunedByCutoff, EventTableAssumption
    <3>2. ReceivedAt[e] < sweepNow - x
      BY <3>1, <2>1, <2>2
    <3> QED BY <3>2 DEF Expired, x
  <2> QED BY <2>1, <2>5
<1> QED BY <1>1, SweepInvHolds, PTL DEF Spec, RetentionIsKeptInRange

-----------------------------------------------------------------------------
(* Live Logs.  Ids grow with the events in the table, though not with all    *)
(* the events there ever were: highest may be past the ids in use.           *)
IdsOK ==
    /\ arrived \in Nat /\ highest \in Nat
    /\ idOf \in [Events -> Nat]
    /\ \A e \in Rows : e <= arrived /\ idOf[e] <= highest
    /\ \A d, e \in Rows : d < e => idOf[d] < idOf[e]

\* store.LatestEventID: at least every id in use, and one of them.
LEMMA LatestIsLargest ==
    ASSUME NEW ids \in [Events -> Nat]
    PROVE  /\ LatestID(ids) \in Nat
           /\ \A e \in Events : ids[e] <= LatestID(ids)
           /\ LatestID(ids) = 0 \/ \E e \in Events : LatestID(ids) = ids[e]
<1> DEFINE S == {0} \cup {ids[e] : e \in Events}
           I == {ids[e] : e \in Events}
<1>1. IsFiniteSet(Events)
  BY EventTableAssumption, FS_Interval DEF Events
<1>2. IsFiniteSet(I)
  <2>1. ids \in Surjection(Events, I)
    BY DEF Surjection
  <2> QED BY <1>1, <2>1, FS_Surjection
<1>3. IsFiniteSet(S)
  BY <1>2, FS_AddElement, S = I \cup {0}
<1>4. S \in SUBSET Int /\ S \subseteq Nat /\ S # {} /\ \A e \in Events : ids[e] \in S
  OBVIOUS
<1>5. \A x \in S : x = 0 \/ \E e \in Events : x = ids[e]
  OBVIOUS
<1>6. LatestID(ids) = Max(S)
  BY DEF LatestID
<1> HIDE DEF S
<1>7. Max(S) \in S /\ \A x \in S : x <= Max(S)
  BY <1>3, <1>4, MaxOfFinite
<1> QED BY <1>4, <1>5, <1>6, <1>7

LEMMA MinOfTwo ==
    ASSUME NEW a \in Nat, NEW b \in Nat
    PROVE  /\ Min({a, b}) \in {a, b} /\ Min({a, b}) \in Nat
           /\ Min({a, b}) <= a /\ Min({a, b}) <= b
<1>1. \E x \in {a, b} : \A y \in {a, b} : x =< y
  <2>1. a =< b \/ b =< a
    OBVIOUS
  <2> QED BY <2>1
<1>2. Min({a, b}) \in {a, b} /\ \A y \in {a, b} : Min({a, b}) =< y
  BY <1>1 DEF Min
<1> QED BY <1>2

LEMMA RowWithId ==
    ASSUME IdsOK, NEW e \in Rows PROVE RowWith(idOf[e]) = e
<1>1. \A d \in Rows : idOf[d] = idOf[e] => d = e
  <2> SUFFICES ASSUME NEW d \in Rows, idOf[d] = idOf[e] PROVE d = e
    OBVIOUS
  <2>1. d \in Int /\ e \in Int /\ idOf[d] \in Int
    BY EventTableAssumption DEF Rows, Events, IdsOK
  <2>2. ~(d < e) /\ ~(e < d)
    BY <2>1 DEF IdsOK
  <2> QED BY <2>1, <2>2
<1> QED BY <1>1 DEF RowWith

\* The ids of some rows, in order, one for each row; earlier events first.
LEMMA IdsInOrder ==
    ASSUME IdsOK, NEW rows \in SUBSET Rows
    PROVE  LET ids == IdsOf(rows)
               n == Len(ids)
           IN /\ ids \in Seq(Int) /\ n \in Nat /\ DOMAIN ids = 1..n
              /\ \A k \in 1..n : RowWith(ids[k]) \in rows /\ idOf[RowWith(ids[k])] = ids[k]
              /\ \A j, k \in 1..n : j < k => RowWith(ids[j]) < RowWith(ids[k])
              /\ \A e \in rows : \E k \in 1..n : RowWith(ids[k]) = e /\ ids[k] = idOf[e]
              /\ \A j, k \in 1..n : j < k => ids[j] < ids[k]
<1> DEFINE S == {idOf[e] : e \in rows}
           ids == IdsOf(rows)
           n == Len(ids)
<1>0. rows \subseteq Events /\ idOf \in [Events -> Nat] /\ Events \subseteq Int
  BY EventTableAssumption DEF Rows, IdsOK, Events
<1>1. S \in SUBSET Int /\ \A x \in S : \E e \in rows : x = idOf[e]
  BY <1>0
<1>2. IsFiniteSet(S)
  <2>1. IsFiniteSet(Events)
    BY EventTableAssumption, FS_Interval DEF Events
  <2>2. IsFiniteSet(rows)
    BY <1>0, <2>1, FS_Subset
  <2>3. [e \in rows |-> idOf[e]] \in Surjection(rows, S)
    BY DEF Surjection
  <2> QED BY <2>2, <2>3, FS_Surjection
<1>3. ids = Ascending(S)
  BY DEF IdsOf
<1> HIDE DEF ids
<1>4. ids \in Seq(S) /\ IsAscending(ids) /\ \A x \in S : \E k \in DOMAIN ids : ids[k] = x
  BY <1>1, <1>2, <1>3, AscendingProperties
<1>5. n \in Nat /\ DOMAIN ids = 1..n /\ \A k \in 1..n : ids[k] \in S
  BY <1>4, LenProperties, ElementOfSeq
<1>6. ids \in Seq(Int)
  BY <1>1, <1>4, SeqMonotonic
<1> HIDE DEF n
<1>7. \A e \in rows : RowWith(idOf[e]) = e /\ idOf[e] \in S
  BY RowWithId
<1>8. \A k \in 1..n : RowWith(ids[k]) \in rows /\ idOf[RowWith(ids[k])] = ids[k]
  <2> SUFFICES ASSUME NEW k \in 1..n
               PROVE  RowWith(ids[k]) \in rows /\ idOf[RowWith(ids[k])] = ids[k]
    OBVIOUS
  <2>1. PICK e \in rows : ids[k] = idOf[e]
    BY <1>1, <1>5
  <2> QED BY <1>7, <2>1
<1>9. \A j, k \in 1..n : j < k => ids[j] < ids[k]
  BY <1>4, <1>5 DEF IsAscending
<1>10. \A e \in rows : \E k \in 1..n : RowWith(ids[k]) = e /\ ids[k] = idOf[e]
  <2> SUFFICES ASSUME NEW e \in rows
               PROVE  \E k \in 1..n : RowWith(ids[k]) = e /\ ids[k] = idOf[e]
    OBVIOUS
  <2>1. PICK k \in 1..n : ids[k] = idOf[e]
    BY <1>4, <1>5, <1>7
  <2> QED BY <1>7, <2>1
<1>11. \A j, k \in 1..n : j < k => RowWith(ids[j]) < RowWith(ids[k])
  <2> SUFFICES ASSUME NEW j \in 1..n, NEW k \in 1..n, j < k
               PROVE  RowWith(ids[j]) < RowWith(ids[k])
    OBVIOUS
  <2> DEFINE d == RowWith(ids[j])
             e == RowWith(ids[k])
  <2>1. d \in rows /\ e \in rows /\ idOf[d] < idOf[e]
    BY <1>8, <1>9
  <2> HIDE DEF d, e
  <2>2. d \in Int /\ e \in Int /\ idOf[d] \in Int /\ idOf[e] \in Int
    BY <1>0, <2>1
  <2>3. ~(e < d) /\ e # d
    BY <2>1, <2>2 DEF IdsOK
  <2>4. d < e
    BY <2>2, <2>3
  <2> QED BY <2>4 DEF d, e
<1> QED BY <1>5, <1>6, <1>8, <1>9, <1>10, <1>11 DEF n, ids

\* What a poll writes: the first rows past the cursor, none of them skipped.
LEMMA PolledRows ==
    ASSUME IdsOK, NEW c \in Nat, NEW events, events = EventsSince(c), events # <<>>
    PROVE  LET last == idOf[Last(events)]
           IN /\ events \in Seq(Events) /\ last \in Nat /\ last <= highest
              /\ \A k \in DOMAIN events :
                    events[k] \in Rows /\ c < idOf[events[k]] /\ idOf[events[k]] <= last
              /\ \A j, k \in DOMAIN events : j < k => events[j] < events[k]
              /\ \A e \in Rows : c < idOf[e] /\ idOf[e] <= last =>
                    \E k \in DOMAIN events : events[k] = e
<1> DEFINE rows == {e \in Rows : idOf[e] > c}
           ids == IdsOf(rows)
           n == Len(ids)
           m == Min({StreamLimit, n})
           row(k) == RowWith(ids[k])
<1>0. Rows \subseteq Events /\ \A e \in Events : idOf[e] \in Nat
  BY DEF Rows, IdsOK
<1>1. /\ n \in Nat /\ DOMAIN ids = 1..n
      /\ \A k \in 1..n : row(k) \in rows /\ idOf[row(k)] = ids[k]
      /\ \A j, k \in 1..n : j < k => row(j) < row(k)
      /\ \A e \in rows : \E k \in 1..n : row(k) = e /\ ids[k] = idOf[e]
      /\ \A j, k \in 1..n : j < k => ids[j] < ids[k]
  BY IdsInOrder
<1>2. events = [k \in 1..m |-> row(k)]
  BY DEF EventsSince, OldestFirst
<1>r. \A e \in Rows : e \in rows <=> c < idOf[e]
  BY <1>0
<1>s. rows \subseteq Rows
  OBVIOUS
<1> HIDE DEF rows, ids, n
<1>3. m \in {StreamLimit, n} /\ m \in Nat /\ m <= n
  BY <1>1, LiveLogsAssumption, MinOfTwo
<1> HIDE DEF m
<1>4. m # 0
  <2> SUFFICES ASSUME m = 0 PROVE FALSE
    OBVIOUS
  <2>1. events = [k \in 1..0 |-> row(k)]
    BY <1>2
  <2> QED BY <2>1
<1>5. \A k \in 1..m : k \in 1..n
  BY <1>1, <1>3
<1>6. events \in [1..m -> Events] /\ \A k \in 1..m : events[k] = row(k)
  BY <1>0, <1>1, <1>2, <1>5, <1>s
<1> HIDE DEF row
<1>7. events \in Seq(Events) /\ Len(events) = m /\ DOMAIN events = 1..m
  BY <1>3, <1>6
<1>8. m \in 1..m /\ m \in 1..n
  BY <1>1, <1>3, <1>4
<1>9. Last(events) = row(m) /\ idOf[Last(events)] = ids[m]
  BY <1>1, <1>6, <1>7, <1>8 DEF Last
<1>10. \A k \in 1..n : ids[k] \in Nat /\ c < ids[k]
  BY <1>0, <1>1, <1>r, <1>s
<1>11. ids[m] \in Nat /\ ids[m] <= highest
  BY <1>1, <1>8, <1>10, <1>s DEF IdsOK
<1>12. ASSUME NEW k \in 1..m
       PROVE  events[k] \in Rows /\ c < idOf[events[k]] /\ idOf[events[k]] <= ids[m]
  <2>1. k = m \/ k < m
    BY <1>3
  <2>2. ids[k] <= ids[m]
    BY <1>1, <1>5, <1>8, <1>10, <2>1
  <2> QED BY <1>1, <1>5, <1>6, <1>10, <1>s, <2>2
<1>13. \A j, k \in 1..m : j < k => events[j] < events[k]
  BY <1>1, <1>5, <1>6
<1>14. ASSUME NEW e \in Rows, c < idOf[e], idOf[e] <= ids[m]
       PROVE  \E k \in 1..m : events[k] = e
  <2>1. PICK k \in 1..n : row(k) = e /\ ids[k] = idOf[e]
    BY <1>1, <1>14, <1>r
  <2>2. ~(m < k)
    <3>1. m < k => ids[m] < ids[k]
      BY <1>1, <1>8, <2>1
    <3> QED BY <1>10, <1>11, <1>14, <2>1, <3>1
  <2>3. k \in 1..m
    BY <1>1, <1>3, <2>1, <2>2
  <2> QED BY <1>6, <2>1, <2>3
<1> QED BY <1>7, <1>9, <1>11, <1>12, <1>13, <1>14

-----------------------------------------------------------------------------
(* Pages are descending sequences of events that arrived.                    *)
Descending(s) == \A i, j \in DOMAIN s : i < j => s[i] > s[j]

LEMMA OnTop ==
    ASSUME NEW a \in Seq(Events), NEW b \in Seq(Events), Descending(a), Descending(b),
           \A i \in DOMAIN a, j \in DOMAIN b : a[i] > b[j]
    PROVE  /\ a \o b \in Seq(Events) /\ Descending(a \o b)
           /\ ToSet(a \o b) = ToSet(a) \cup ToSet(b)
<1> DEFINE c == a \o b
           m == Len(a)
           n == Len(b)
<1>1. m \in Nat /\ n \in Nat /\ DOMAIN a = 1..m /\ DOMAIN b = 1..n
  BY LenProperties
<1>2. /\ c \in Seq(Events) /\ Len(c) = m + n
      /\ \A i \in 1..m+n : c[i] = IF i <= m THEN a[i] ELSE b[i - m]
  BY ConcatProperties
<1> HIDE DEF c, m, n
<1>3. DOMAIN c = 1..m+n
  BY <1>2, LenProperties
<1>4. \A i \in 1..m : i \in 1..m+n /\ c[i] = a[i]
  BY <1>1, <1>2
<1>5. \A j \in 1..n : m + j \in 1..m+n /\ c[m + j] = b[j]
  <2> SUFFICES ASSUME NEW j \in 1..n PROVE m + j \in 1..m+n /\ c[m + j] = b[j]
    OBVIOUS
  <2>1. m + j \in 1..m+n /\ ~(m + j <= m) /\ (m + j) - m = j
    BY <1>1
  <2> QED BY <1>2, <2>1
<1>6. \A i \in 1..m+n : i \in 1..m \/ \E j \in 1..n : i = m + j
  <2> SUFFICES ASSUME NEW i \in 1..m+n, i \notin 1..m PROVE \E j \in 1..n : i = m + j
    OBVIOUS
  <2>1. i - m \in 1..n /\ i = m + (i - m)
    BY <1>1
  <2> QED BY <2>1
<1>7. ToSet(c) = ToSet(a) \cup ToSet(b)
  <2>1. ToSet(c) \subseteq ToSet(a) \cup ToSet(b)
    BY <1>1, <1>3, <1>4, <1>5, <1>6 DEF ToSet
  <2>2. ToSet(a) \subseteq ToSet(c)
    BY <1>1, <1>3, <1>4 DEF ToSet
  <2>3. ToSet(b) \subseteq ToSet(c)
    BY <1>1, <1>3, <1>5 DEF ToSet
  <2> QED BY <2>1, <2>2, <2>3
<1>8. ASSUME NEW i \in 1..m+n, NEW j \in 1..m+n, i < j PROVE c[i] > c[j]
  <2>1. CASE i \in 1..m /\ j \in 1..m
    BY <1>1, <1>4, <1>8, <2>1 DEF Descending
  <2>2. CASE i \in 1..m /\ j \notin 1..m
    <3>1. PICK l \in 1..n : j = m + l
      BY <1>6, <2>2
    <3> QED BY <1>1, <1>4, <1>5, <2>2, <3>1
  <2>3. CASE i \notin 1..m
    <3>1. PICK k \in 1..n : i = m + k
      BY <1>6, <2>3
    <3>2. j \notin 1..m
      BY <1>1, <1>8, <2>3
    <3>3. PICK l \in 1..n : j = m + l
      BY <1>6, <3>2
    <3>4. k < l
      BY <1>1, <1>8, <3>1, <3>3
    <3> QED BY <1>1, <1>5, <3>1, <3>3, <3>4 DEF Descending
  <2> QED BY <2>1, <2>2, <2>3
<1> QED BY <1>2, <1>3, <1>7, <1>8 DEF Descending, c

\* The rows of a frame that the page puts on top: those that match, newest first.
LEMMA FrameRows ==
    ASSUME NEW events \in Seq(Events), NEW new, new = Reverse(Filter(events, Matching)),
           \A j, k \in DOMAIN events : j < k => events[j] < events[k]
    PROVE  /\ new \in Seq(Events) /\ Descending(new)
           /\ ToSet(new) = ToSet(events) \cap Matching
<1> DEFINE f == Filter(events, Matching)
           n == Len(f)
<1>1. f \in Seq(Events) /\ \E p : IsPlacing(p, f, events, Matching)
  BY FilterProperties
<1>2. PICK p : IsPlacing(p, f, events, Matching)
  BY <1>1
<1>3. new = [i \in 1..n |-> f[(n - i) + 1]]
  BY DEF Reverse
<1> HIDE DEF f
<1>4. n \in Nat /\ DOMAIN f = 1..n /\ \A k \in 1..n : f[k] \in Events
  BY <1>1, LenProperties, ElementOfSeq
<1>5. /\ p \in Seq(DOMAIN events) /\ Len(p) = n
      /\ \A j, k \in DOMAIN p : j < k => p[j] < p[k]
      /\ \A k \in 1..n : f[k] = events[p[k]] /\ f[k] \in Matching
      /\ \A i \in DOMAIN events : events[i] \in Matching => \E k \in 1..n : p[k] = i
  BY <1>2, <1>4 DEF IsPlacing, IsAscending
<1> HIDE DEF n
<1>6. DOMAIN p = 1..n /\ \A k \in 1..n : p[k] \in DOMAIN events
  BY <1>5, LenProperties, ElementOfSeq
<1>7. \A j, k \in 1..n : j < k => f[j] < f[k]
  BY <1>5, <1>6
<1>8. \A i \in 1..n : (n - i) + 1 \in 1..n /\ n - ((n - i) + 1) + 1 = i
  BY <1>4
<1>9. new \in [1..n -> Events] /\ \A i \in 1..n : new[i] = f[(n - i) + 1]
  BY <1>3, <1>4, <1>8
<1>10. new \in Seq(Events) /\ DOMAIN new = 1..n
  BY <1>4, <1>9
<1>11. Descending(new)
  <2> SUFFICES ASSUME NEW i \in 1..n, NEW j \in 1..n, i < j PROVE new[i] > new[j]
    BY <1>10 DEF Descending
  <2>1. (n - j) + 1 < (n - i) + 1
    BY <1>4
  <2>2. f[(n - j) + 1] < f[(n - i) + 1]
    BY <1>7, <1>8, <2>1
  <2>3. new[j] < new[i]
    BY <1>9, <2>2
  <2>4. new[i] \in Int /\ new[j] \in Int
    BY <1>9, EventTableAssumption DEF Events
  <2> QED BY <2>3, <2>4
<1>12. \A k \in 1..n : f[k] = new[(n - k) + 1]
  BY <1>8, <1>9
<1>13. ToSet(new) \subseteq ToSet(events) \cap Matching
  BY <1>5, <1>6, <1>8, <1>9, <1>10 DEF ToSet
<1>14. ASSUME NEW i \in DOMAIN events, events[i] \in Matching PROVE events[i] \in ToSet(new)
  <2>1. PICK k \in 1..n : p[k] = i
    BY <1>5, <1>14
  <2>2. events[i] = new[(n - k) + 1]
    BY <1>5, <1>12, <2>1
  <2> QED BY <1>8, <1>10, <2>2 DEF ToSet
<1> QED BY <1>10, <1>11, <1>13, <1>14 DEF ToSet

\* The rows of a list, newest first.
LEMMA ListedRows ==
    ASSUME IdsOK, NEW rows \in SUBSET Rows, NEW list, list = NewestFirst(rows, ListLimit)
    PROVE  /\ list \in Seq(Events) /\ Descending(list)
           /\ \A k \in DOMAIN list : list[k] \in rows
<1> DEFINE ids == IdsOf(rows)
           n == Len(ids)
           m == Min({ListLimit, n})
           row(k) == RowWith(ids[k])
<1>0. rows \subseteq Events /\ Events \subseteq Int
  BY EventTableAssumption DEF Rows, Events
<1>1. /\ n \in Nat
      /\ \A k \in 1..n : row(k) \in rows
      /\ \A j, k \in 1..n : j < k => row(j) < row(k)
  BY IdsInOrder
<1>2. Reverse(ids) = [k \in 1..n |-> ids[(n - k) + 1]]
  BY DEF Reverse
<1>3. list = [k \in 1..m |-> RowWith(Reverse(ids)[k])]
  BY DEF NewestFirst
<1> HIDE DEF ids, n
<1>4. m \in Nat /\ m <= n
  BY <1>1, LiveLogsAssumption, MinOfTwo
<1> HIDE DEF m
<1>5. \A k \in 1..m : k \in 1..n /\ (n - k) + 1 \in 1..n
  BY <1>1, <1>4
<1>6. \A k \in 1..m : list[k] = row((n - k) + 1)
  BY <1>2, <1>3, <1>5
<1> HIDE DEF row
<1>7. DOMAIN list = 1..m /\ \A k \in 1..m : list[k] \in rows
  BY <1>1, <1>3, <1>5, <1>6
<1>8. list \in Seq(Events)
  <2>1. list \in [1..m -> Events]
    BY <1>0, <1>3, <1>7
  <2> QED BY <1>4, <2>1
<1>9. ASSUME NEW i \in 1..m, NEW j \in 1..m, i < j PROVE list[i] > list[j]
  <2>1. (n - j) + 1 < (n - i) + 1
    BY <1>1, <1>9
  <2>2. list[j] < list[i]
    BY <1>1, <1>5, <1>6, <2>1
  <2>3. list[i] \in Int /\ list[j] \in Int
    BY <1>0, <1>7
  <2> QED BY <2>2, <2>3
<1> QED BY <1>7, <1>8, <1>9 DEF Descending

-----------------------------------------------------------------------------
(* What a step may do to the table, as a page sees it: rows go, and rows    *)
(* come that are later than all before; one that comes with an id that was  *)
(* already given is counted in reused.                                      *)
TableGrows ==
    /\ arrived' \in Nat /\ arrived <= arrived'
    /\ highest' \in Nat /\ highest <= highest'
    /\ reused \subseteq reused'
    /\ \A e \in Rows' :
        \/ e \in Rows /\ idOf'[e] = idOf[e]
        \/ e > arrived /\ (idOf'[e] <= highest => e \in reused')

LEMMA InsertGrows ==
    ASSUME IdsOK, NEW n \in Nat, InsertEvents(n)
    PROVE  IdsOK' /\ TableGrows
<1> DEFINE last == LatestID(idOf)
           NewId(e) == last + (e - arrived)
<1>0. arrived \in Nat /\ highest \in Nat /\ idOf \in [Events -> Nat] /\ Events \subseteq Nat
  BY EventTableAssumption DEF IdsOK, Events
<1>1. last \in Nat /\ (\A e \in Events : idOf[e] <= last)
  BY <1>0, LatestIsLargest
<1>2. /\ arrived' = arrived + n
      /\ idOf' = [e \in Events |-> IF e \in NextBatch(n) THEN NewId(e) ELSE idOf[e]]
      /\ reused' = reused \cup {e \in NextBatch(n) : idOf'[e] <= highest}
      /\ highest' = Max({highest, LatestID(idOf')})
  BY DEF InsertEvents, LatestEventID
<1>3. NextBatch(n) = {e \in Events : arrived < e /\ e <= arrived + n}
  BY DEF NextBatch
<1> HIDE DEF last
<1>4. \A e \in NextBatch(n) : NewId(e) \in Nat /\ last < NewId(e) /\ e \in Events /\ arrived < e /\ e <= arrived + n
  <2> SUFFICES ASSUME NEW e \in NextBatch(n)
               PROVE  /\ NewId(e) \in Nat /\ last < NewId(e)
                      /\ e \in Events /\ arrived < e /\ e <= arrived + n
    OBVIOUS
  <2>1. e \in Events /\ e \in Nat /\ arrived < e /\ e <= arrived + n
    BY <1>0, <1>3
  <2> QED BY <1>0, <1>1, <2>1
<1>5. \A d, e \in NextBatch(n) : d < e => NewId(d) < NewId(e)
  <2> SUFFICES ASSUME NEW d \in NextBatch(n), NEW e \in NextBatch(n), d < e
               PROVE  NewId(d) < NewId(e)
    OBVIOUS
  <2>1. d \in Nat /\ e \in Nat
    BY <1>0, <1>4
  <2> QED BY <1>0, <1>1, <2>1
<1> HIDE DEF NewId
<1>6. /\ idOf' \in [Events -> Nat]
      /\ \A e \in NextBatch(n) : idOf'[e] = NewId(e)
      /\ \A e \in Events : e \notin NextBatch(n) => idOf'[e] = idOf[e]
  BY <1>0, <1>2, <1>4
<1>7. \A e \in Rows' : e \in NextBatch(n) \/ (e \in Rows /\ idOf'[e] = idOf[e])
  <2> SUFFICES ASSUME NEW e \in Rows'
               PROVE  e \in NextBatch(n) \/ (e \in Rows /\ idOf'[e] = idOf[e])
    OBVIOUS
  <2>1. e \in Events /\ idOf'[e] # 0
    BY DEF Rows
  <2> QED BY <1>6, <2>1 DEF Rows
<1>8. LatestID(idOf') \in Nat /\ (\A e \in Events : idOf'[e] <= LatestID(idOf'))
  BY <1>6, LatestIsLargest
<1>9. highest' \in Nat /\ highest <= highest' /\ LatestID(idOf') <= highest'
  <2>1. {highest, LatestID(idOf')} \in SUBSET Int
    BY <1>0, <1>8
  <2>2. IsFiniteSet({highest})
    BY FS_Singleton
  <2>3. IsFiniteSet({highest} \cup {LatestID(idOf')})
    BY <2>2, FS_AddElement
  <2>4. {highest} \cup {LatestID(idOf')} = {highest, LatestID(idOf')}
    OBVIOUS
  <2> QED BY <1>0, <1>2, <1>8, <2>1, <2>3, <2>4, MaxOfFinite
<1>10. arrived' \in Nat /\ arrived <= arrived'
  BY <1>0, <1>2
<1>11. ASSUME NEW e \in Rows' PROVE e <= arrived' /\ idOf'[e] <= highest'
  <2>1. e \in Events /\ idOf'[e] \in Nat /\ e \in Nat
    BY <1>0, <1>6 DEF Rows
  <2>2. idOf'[e] <= highest'
    BY <1>8, <1>9, <2>1
  <2>3. CASE e \in NextBatch(n)
    BY <1>2, <1>4, <2>2, <2>3
  <2>4. CASE e \in Rows
    <3>1. e <= arrived
      BY <2>4 DEF IdsOK
    <3> QED BY <1>0, <1>10, <2>1, <2>2, <3>1
  <2> QED BY <1>7, <2>3, <2>4
<1>12. ASSUME NEW d \in Rows', NEW e \in Rows', d < e PROVE idOf'[d] < idOf'[e]
  <2>1. d \in Events /\ e \in Events /\ d \in Nat /\ e \in Nat
    BY <1>0 DEF Rows
  <2>2. CASE d \in NextBatch(n) /\ e \in NextBatch(n)
    BY <1>5, <1>6, <1>12, <2>2
  <2>3. CASE d \notin NextBatch(n) /\ e \in NextBatch(n)
    <3>1. idOf'[d] = idOf[d] /\ idOf[d] <= last /\ last < idOf'[e]
      BY <1>1, <1>4, <1>6, <2>1, <2>3
    <3>2. idOf[d] \in Nat /\ idOf'[e] \in Nat
      BY <1>0, <1>6, <2>1
    <3> QED BY <1>1, <3>1, <3>2
  <2>4. CASE e \notin NextBatch(n)
    <3>1. e \in Rows /\ idOf'[e] = idOf[e] /\ e <= arrived
      BY <1>7, <2>4 DEF IdsOK
    <3>2. d \notin NextBatch(n)
      BY <1>0, <1>3, <1>12, <2>1, <3>1
    <3>3. d \in Rows /\ idOf'[d] = idOf[d]
      BY <1>7, <3>2
    <3> QED BY <1>12, <3>1, <3>3 DEF IdsOK
  <2> QED BY <2>2, <2>3, <2>4
<1>13. IdsOK'
  BY <1>6, <1>9, <1>10, <1>11, <1>12 DEF IdsOK
<1>14. \A e \in Rows' :
        \/ e \in Rows /\ idOf'[e] = idOf[e]
        \/ e > arrived /\ (idOf'[e] <= highest => e \in reused')
  <2> SUFFICES ASSUME NEW e \in Rows', e \in NextBatch(n)
               PROVE  e > arrived /\ (idOf'[e] <= highest => e \in reused')
    BY <1>7
  <2> QED BY <1>0, <1>2, <1>4
<1> QED BY <1>2, <1>9, <1>10, <1>13, <1>14 DEF TableGrows

LEMMA TableStep == IdsOK /\ [Next]_vars => IdsOK' /\ TableGrows
<1> SUFFICES ASSUME IdsOK, [Next]_vars PROVE IdsOK' /\ TableGrows
  OBVIOUS
<1>0. arrived \in Nat /\ highest \in Nat /\ NEvents \in Nat
  BY EventTableAssumption DEF IdsOK
<1>1. CASE UNCHANGED <<arrived, idOf, highest, reused>>
  BY <1>0, <1>1 DEF IdsOK, TableGrows, Rows
<1>2. CASE Ingest
  <2>1. ASSUME NEW n \in 1..MaxBatch, InsertEvents(n) PROVE IdsOK' /\ TableGrows
    <3>1. n \in Nat
      BY EventTableAssumption
    <3> QED BY <2>1, <3>1, InsertGrows
  <2>2. ASSUME NEW n \in 1..MaxBatch, InsertEventsFails(n) PROVE IdsOK' /\ TableGrows
    <3>1. n \in Nat /\ arrived' = arrived + n /\ UNCHANGED <<idOf, highest, reused>>
      BY <2>2, EventTableAssumption DEF InsertEventsFails
    <3>2. arrived' \in Nat /\ arrived <= arrived'
      BY <1>0, <3>1
    <3>3. Rows' = Rows
      BY <3>1 DEF Rows
    <3>4. \A e \in Rows : e <= arrived'
      <4> SUFFICES ASSUME NEW e \in Rows PROVE e <= arrived'
        OBVIOUS
      <4>1. e <= arrived /\ e \in Int
        BY <1>0 DEF IdsOK, Rows, Events
      <4> QED BY <1>0, <3>2, <4>1
    <3> QED BY <1>0, <3>1, <3>2, <3>3, <3>4 DEF IdsOK, TableGrows
  <2>3. UpsertRollups \/ UpsertRollupsFails => UNCHANGED <<arrived, idOf, highest, reused>>
    BY DEF UpsertRollups, UpsertRollupsFails
  <2> QED BY <1>1, <1>2, <2>1, <2>2, <2>3 DEF Ingest
<1>3. CASE PruneEvents
  <2>1. /\ UNCHANGED <<arrived, highest, reused>>
        /\ idOf' \in [Events -> Nat]
        /\ \A e \in Events : idOf'[e] = 0 \/ idOf'[e] = idOf[e]
    BY <1>3 DEF PruneEvents, DeleteEventsOlderThan, IdsOK
  <2>2. \A e \in Rows' : e \in Rows /\ idOf'[e] = idOf[e]
    BY <2>1 DEF Rows
  <2> QED BY <1>0, <2>1, <2>2 DEF IdsOK, TableGrows
<1>4. PassTime \/ SweepFails \/ Restart \/ UNCHANGED vars \/ UNCHANGED tableVars
        => UNCHANGED <<arrived, idOf, highest, reused>>
  BY DEF PassTime, SweepFails, Restart, vars, tableVars
<1>5. Browse => UNCHANGED <<arrived, idOf, highest, reused>>
  BY DEF Browse, HandleLogsList, Connect, ConnectFails, Poll, Disconnect, Pause, Resume, tableVars
<1>6. Visit => UNCHANGED <<arrived, idOf, highest, reused>>
  BY DEF Visit, HandleOverview, HandleStatsSummary, ReadSummary, ReadSample, ReadChart,
         ReadRecent, VisitFails, tableVars
<1>7. UNCHANGED <<tableVars, tabVars, visitVars>> => UNCHANGED tableVars
  OBVIOUS
<1> QED BY <1>1, <1>2, <1>3, <1>4, <1>5, <1>6, <1>7 DEF Next, SweepStep

-----------------------------------------------------------------------------
(* The page of a tab.  The last two conjuncts are about a live stream: what  *)
(* is past its cursor is later than all the page has, so a poll may put it   *)
(* on top; and what the cursor passed since it connected is on the page.     *)
PageOK(t) ==
    /\ Descending(OnPage(t))
    /\ \A i \in DOMAIN OnPage(t) : OnPage(t)[i] <= arrived
    /\ ~paused[t] => buffered[t] = <<>>
    /\ tpc[t] = "closed" => ~paused[t]
    /\ cursor[t] <= highest
    /\ tpc[t] = "live" =>
        /\ \A e \in Rows : cursor[t] < idOf[e] =>
              \A i \in DOMAIN OnPage(t) : OnPage(t)[i] < e
        /\ \A e \in (Rows \cap Matching) \ known[t] : idOf[e] <= cursor[t] =>
              e \in ToSet(OnPage(t)) \cup reused

TabTypes ==
    /\ tpc \in [Tabs -> {"away", "closed", "listed", "live", "retrying", "dead"}]
    /\ cursor \in [Tabs -> Nat]
    /\ shown \in [Tabs -> Seq(Events)]
    /\ buffered \in [Tabs -> Seq(Events)]
    /\ paused \in [Tabs -> BOOLEAN]
    /\ known \in [Tabs -> SUBSET Events]

PagesInv == IdsOK /\ TabTypes /\ \A t \in Tabs : PageOK(t)

LEMMA PagesInvInit == Init => PagesInv
<1> SUFFICES ASSUME Init PROVE PagesInv
  OBVIOUS
<1> USE DEF Init, LiveLogsInit, EventTableInit
<1>1. IdsOK
  BY DEF IdsOK, Rows
<1>2. <<>> \in Seq(Events)
  BY EmptySeq
<1>3. TabTypes
  BY <1>2 DEF TabTypes
<1>4. ASSUME NEW t \in Tabs PROVE PageOK(t)
  <2>1. OnPage(t) = <<>> /\ DOMAIN OnPage(t) = {}
    BY EmptySeq, ConcatEmptySeq DEF OnPage
  <2> QED BY <2>1 DEF PageOK, Descending
<1> QED BY <1>1, <1>3, <1>4 DEF PagesInv

LEMMA OnPageIsSeq ==
    ASSUME TabTypes, NEW t \in Tabs
    PROVE  OnPage(t) \in Seq(Events) /\ DOMAIN OnPage(t) \subseteq Nat
           /\ \A i \in DOMAIN OnPage(t) : OnPage(t)[i] \in Events /\ OnPage(t)[i] \in Int
<1>1. OnPage(t) \in Seq(Events)
  BY ConcatProperties DEF TabTypes, OnPage
<1>2. Events \subseteq Int
  BY EventTableAssumption DEF Events
<1> DEFINE page == OnPage(t)
<1> HIDE DEF page
<1>3. page \in Seq(Events)
  BY <1>1 DEF page
<1>4. DOMAIN page \subseteq Nat /\ \A i \in DOMAIN page : page[i] \in Events
  BY <1>3, ElementOfSeq, LenProperties
<1> QED BY <1>1, <1>2, <1>4 DEF page

\* A tab that the step is not about.
SameTab(t) ==
    /\ shown'[t] = shown[t] /\ buffered'[t] = buffered[t] /\ paused'[t] = paused[t]
    /\ cursor'[t] = cursor[t] /\ known'[t] = known[t]
    /\ tpc'[t] = tpc[t] \/ tpc'[t] \notin {"closed", "live"}

LEMMA OtherTab ==
    ASSUME IdsOK, IdsOK', TabTypes, TableGrows, NEW t \in Tabs, PageOK(t), SameTab(t)
    PROVE  PageOK(t)'
<1>1. OnPage(t)' = OnPage(t)
  BY DEF OnPage, SameTab
<1>2. OnPage(t) \in Seq(Events) /\ \A i \in DOMAIN OnPage(t) : OnPage(t)[i] \in Int
  BY OnPageIsSeq
<1> DEFINE page == OnPage(t)
<1> HIDE DEF page
<1>3. page = OnPage(t) /\ page = OnPage(t)'
  BY <1>1 DEF page
<1>4. arrived \in Nat /\ arrived' \in Nat /\ arrived <= arrived' /\ highest \in Nat
      /\ highest' \in Nat /\ highest <= highest' /\ cursor[t] \in Nat /\ cursor'[t] = cursor[t]
  BY DEF IdsOK, TableGrows, TabTypes, SameTab
<1>5. \A i \in DOMAIN page : page[i] <= arrived /\ page[i] \in Int
  BY <1>2, <1>3 DEF PageOK
<1>6. \A i \in DOMAIN page : page[i] <= arrived'
  BY <1>4, <1>5
<1>7. cursor'[t] <= highest'
  BY <1>4 DEF PageOK
<1>8. Descending(page) /\ (~paused'[t] => buffered'[t] = <<>>) /\ (tpc'[t] = "closed" => ~paused'[t])
  BY <1>3 DEF PageOK, SameTab
<1>9. ASSUME tpc'[t] = "live", NEW e \in Rows', NEW i \in DOMAIN page, cursor'[t] < idOf'[e]
      PROVE  page[i] < e
  <2>0. tpc[t] = "live" /\ e \in Int
    BY <1>9, EventTableAssumption DEF SameTab, Rows, Events
  <2>1. CASE e \in Rows /\ idOf'[e] = idOf[e]
    BY <1>3, <1>4, <1>9, <2>0, <2>1 DEF PageOK
  <2>2. CASE e > arrived
    BY <1>4, <1>5, <1>9, <2>0, <2>2
  <2> QED BY <2>1, <2>2 DEF TableGrows
<1>10. ASSUME tpc'[t] = "live", NEW e \in (Rows' \cap Matching) \ known'[t], idOf'[e] <= cursor'[t]
       PROVE  e \in ToSet(page) \cup reused'
  <2>0. tpc[t] = "live" /\ known'[t] = known[t]
    BY <1>10 DEF SameTab
  <2>1. CASE e \in Rows /\ idOf'[e] = idOf[e]
    <3>1. e \in ToSet(page) \cup reused
      BY <1>3, <1>4, <1>10, <2>0, <2>1 DEF PageOK
    <3> QED BY <3>1 DEF TableGrows
  <2>2. CASE idOf'[e] <= highest => e \in reused'
    <3>1. idOf'[e] \in Int
      BY <1>10 DEF Rows, IdsOK
    <3> QED BY <1>4, <1>10, <2>2, <3>1 DEF PageOK
  <2> QED BY <1>10, <2>1, <2>2 DEF TableGrows
<1> QED BY <1>3, <1>6, <1>7, <1>8, <1>9, <1>10 DEF PageOK

\* A poll puts the rows past the cursor on top of the page.
LEMMA PollKeepsPage ==
    ASSUME IdsOK, TabTypes, NEW t \in Tabs, PageOK(t), Poll(t)
    PROVE  TabTypes' /\ PageOK(t)'
<1> DEFINE events == EventsSince(cursor[t])
           last == idOf[Last(events)]
           new == Reverse(Filter(events, Matching))
           page == OnPage(t)
<1>1. /\ tpc[t] = "live" /\ events # <<>> /\ Receive(t, events)
      /\ cursor' = [cursor EXCEPT ![t] = last]
      /\ UNCHANGED <<tpc, paused, known>> /\ UNCHANGED <<arrived, idOf, highest, reused>>
  BY DEF Poll, tableVars
<1>2. /\ events \in Seq(Events) /\ last \in Nat /\ last <= highest
      /\ \A k \in DOMAIN events :
            events[k] \in Rows /\ cursor[t] < idOf[events[k]] /\ idOf[events[k]] <= last
      /\ \A j, k \in DOMAIN events : j < k => events[j] < events[k]
      /\ \A e \in Rows : cursor[t] < idOf[e] /\ idOf[e] <= last =>
            \E k \in DOMAIN events : events[k] = e
  <2>1. cursor[t] \in Nat
    BY DEF TabTypes
  <2> QED BY <1>1, <2>1, PolledRows
<1>3. /\ new \in Seq(Events) /\ Descending(new)
      /\ ToSet(new) = ToSet(events) \cap Matching
  BY <1>2, FrameRows
<1>4. /\ shown' = [shown EXCEPT ![t] = IF paused[t] THEN shown[t] ELSE new \o shown[t]]
      /\ buffered' = [buffered EXCEPT ![t] = IF paused[t] THEN new \o buffered[t] ELSE buffered[t]]
  BY <1>1 DEF Receive, TabTypes
<1> HIDE DEF events, last, new, page
<1>5. buffered[t] \in Seq(Events) /\ shown[t] \in Seq(Events)
  BY DEF TabTypes
<1>6. OnPage(t)' = new \o page
  <2>1. CASE paused[t]
    <3>1. OnPage(t)' = (new \o buffered[t]) \o shown[t]
      BY <1>4, <2>1 DEF TabTypes, OnPage
    <3>2. page = buffered[t] \o shown[t]
      BY DEF OnPage, page
    <3>3. \A a, b, c \in Seq(Events) : (a \o b) \o c = a \o (b \o c)
      BY ConcatAssociative
    <3> QED BY <1>3, <1>5, <3>1, <3>2, <3>3
  <2>2. CASE ~paused[t]
    <3>1. buffered[t] = <<>> /\ OnPage(t)' = buffered[t] \o (new \o shown[t])
      BY <1>4, <2>2 DEF TabTypes, OnPage, PageOK
    <3>2. page = buffered[t] \o shown[t]
      BY DEF OnPage, page
    <3>3. new \o shown[t] \in Seq(Events)
      BY <1>3, <1>5, ConcatProperties
    <3>4. page = shown[t] /\ OnPage(t)' = new \o shown[t]
      BY <1>5, <3>1, <3>2, <3>3, ConcatEmptySeq
    <3> QED BY <3>4
  <2> QED BY <2>1, <2>2
<1>7. TabTypes'
  <2>1. new \o shown[t] \in Seq(Events) /\ new \o buffered[t] \in Seq(Events)
    BY <1>3, <1>5, ConcatProperties
  <2> QED BY <1>1, <1>2, <1>4, <2>1 DEF TabTypes
<1>8. page \in Seq(Events) /\ Descending(page) /\ \A i \in DOMAIN page : page[i] \in Int
  BY OnPageIsSeq DEF PageOK, page
<1>n. \A i \in DOMAIN new : \E k \in DOMAIN events : new[i] = events[k]
  <2> SUFFICES ASSUME NEW i \in DOMAIN new PROVE new[i] \in ToSet(events)
    BY DEF ToSet
  <2>1. new[i] \in ToSet(new)
    BY DEF ToSet
  <2> QED BY <1>3, <2>1
<1>i. \A e \in Rows : e \in Events /\ e \in Int /\ idOf[e] \in Int
  BY EventTableAssumption DEF IdsOK, Rows, Events
<1>9. \A i \in DOMAIN new, j \in DOMAIN page : new[i] > page[j]
  <2> SUFFICES ASSUME NEW i \in DOMAIN new, NEW j \in DOMAIN page PROVE new[i] > page[j]
    OBVIOUS
  <2>1. PICK k \in DOMAIN events : new[i] = events[k]
    BY <1>n
  <2>2. page[j] < events[k]
    BY <1>1, <1>2 DEF PageOK, page
  <2> QED BY <1>2, <1>8, <1>i, <2>1, <2>2
<1>10. /\ new \o page \in Seq(Events) /\ Descending(new \o page)
       /\ ToSet(new \o page) = ToSet(new) \cup ToSet(page)
  BY <1>3, <1>8, <1>9, OnTop
<1>11. \A i \in DOMAIN (new \o page) :
         (\E k \in DOMAIN events : (new \o page)[i] = events[k]) \/ \E j \in DOMAIN page : (new \o page)[i] = page[j]
  <2> SUFFICES ASSUME NEW i \in DOMAIN (new \o page)
               PROVE  (new \o page)[i] \in ToSet(events) \/ (new \o page)[i] \in ToSet(page)
    BY DEF ToSet
  <2>1. (new \o page)[i] \in ToSet(new \o page)
    BY DEF ToSet
  <2> QED BY <1>3, <1>10, <2>1
<1>c. cursor'[t] = last /\ cursor[t] \in Nat /\ arrived \in Nat /\ highest \in Nat
  BY <1>1 DEF TabTypes, IdsOK
<1>12. \A i \in DOMAIN (new \o page) : (new \o page)[i] <= arrived
  <2> SUFFICES ASSUME NEW i \in DOMAIN (new \o page) PROVE (new \o page)[i] <= arrived
    OBVIOUS
  <2>1. CASE \E k \in DOMAIN events : (new \o page)[i] = events[k]
    BY <1>2, <2>1 DEF IdsOK
  <2>2. CASE \E j \in DOMAIN page : (new \o page)[i] = page[j]
    BY <2>2 DEF PageOK, page
  <2> QED BY <1>11, <2>1, <2>2
<1>13. ASSUME NEW e \in Rows, last < idOf[e], NEW i \in DOMAIN (new \o page)
       PROVE  (new \o page)[i] < e
  <2>1. CASE \E k \in DOMAIN events : (new \o page)[i] = events[k]
    <3>1. PICK k \in DOMAIN events : (new \o page)[i] = events[k]
      BY <2>1
    <3>2. events[k] \in Rows /\ idOf[events[k]] < idOf[e]
      BY <1>2, <1>13, <1>i
    <3>3. ~(e < events[k]) /\ e # events[k]
      BY <1>i, <3>2 DEF IdsOK
    <3> QED BY <1>i, <3>1, <3>2, <3>3
  <2>2. CASE \E j \in DOMAIN page : (new \o page)[i] = page[j]
    <3>1. PICK k \in DOMAIN events : cursor[t] < idOf[events[k]] /\ idOf[events[k]] <= last /\ events[k] \in Rows
      <4>1. 1 \in DOMAIN events
        BY <1>1, <1>2, EmptySeq, LenProperties
      <4> QED BY <1>2, <4>1
    <3>2. cursor[t] < idOf[e]
      BY <1>2, <1>13, <1>i, <1>c, <3>1
    <3> QED BY <1>1, <2>2, <3>2 DEF PageOK, page
  <2> QED BY <1>11, <2>1, <2>2
<1>14. ASSUME NEW e \in (Rows \cap Matching) \ known[t], idOf[e] <= last
       PROVE  e \in ToSet(new \o page) \cup reused
  <2>1. CASE idOf[e] <= cursor[t]
    BY <1>1, <1>10, <1>14, <2>1 DEF PageOK, page
  <2>2. CASE cursor[t] < idOf[e]
    <3>1. e \in ToSet(events)
      BY <1>2, <1>14, <2>2 DEF ToSet
    <3> QED BY <1>3, <1>10, <1>14, <3>1
  <2> QED BY <1>c, <1>i, <1>14, <2>1, <2>2
<1>15. Rows' = Rows
  BY <1>1 DEF Rows
<1>16. (~paused'[t] => buffered'[t] = <<>>) /\ (tpc'[t] = "closed" => ~paused'[t])
  BY <1>1, <1>4 DEF PageOK, TabTypes
<1> HIDE DEF PageOK
<1>17. /\ Descending(OnPage(t)')
       /\ \A i \in DOMAIN OnPage(t)' : OnPage(t)'[i] <= arrived'
       /\ cursor'[t] <= highest'
       /\ tpc'[t] = "live" =>
           /\ \A e \in Rows' : cursor'[t] < idOf'[e] =>
                 \A i \in DOMAIN OnPage(t)' : OnPage(t)'[i] < e
           /\ \A e \in (Rows' \cap Matching) \ known'[t] : idOf'[e] <= cursor'[t] =>
                 e \in ToSet(OnPage(t)') \cup reused'
  BY <1>1, <1>2, <1>6, <1>10, <1>12, <1>13, <1>14, <1>15, <1>c
<1> QED BY <1>7, <1>16, <1>17 DEF PageOK

LEMMA ResumeKeepsPage ==
    ASSUME IdsOK, TabTypes, NEW t \in Tabs, PageOK(t), Resume(t)
    PROVE  TabTypes' /\ PageOK(t)'
<1>1. /\ paused' = [paused EXCEPT ![t] = FALSE]
      /\ shown' = [shown EXCEPT ![t] = buffered[t] \o shown[t]]
      /\ buffered' = [buffered EXCEPT ![t] = <<>>]
      /\ UNCHANGED <<tpc, cursor, known>> /\ UNCHANGED <<arrived, idOf, highest, reused>>
  BY DEF Resume, tableVars, TabTypes
<1>2. buffered[t] \o shown[t] \in Seq(Events) /\ <<>> \in Seq(Events)
  BY EmptySeq, ConcatProperties DEF TabTypes
<1>3. TabTypes'
  BY <1>1, <1>2 DEF TabTypes
<1>4. OnPage(t)' = <<>> \o (buffered[t] \o shown[t])
  BY <1>1 DEF OnPage, TabTypes
<1>5. OnPage(t)' = OnPage(t)
  BY <1>2, <1>4, ConcatEmptySeq DEF OnPage
<1>6. ~paused'[t] /\ buffered'[t] = <<>>
  BY <1>1 DEF TabTypes
<1>7. Rows' = Rows
  BY <1>1 DEF Rows
<1> QED BY <1>1, <1>3, <1>5, <1>6, <1>7 DEF PageOK

LEMMA ListKeepsPage ==
    ASSUME IdsOK, TabTypes, NEW t \in Tabs, PageOK(t), HandleLogsList(t)
    PROVE  TabTypes' /\ PageOK(t)'
<1> DEFINE rows == Rows \cap Matching
           list == NewestFirst(rows, ListLimit)
<1>1. /\ tpc[t] = "closed" /\ tpc' = [tpc EXCEPT ![t] = "listed"]
      /\ shown' = [shown EXCEPT ![t] = list]
      /\ UNCHANGED <<cursor, buffered, paused, known>> /\ UNCHANGED <<arrived, idOf, highest, reused>>
  BY DEF HandleLogsList, tableVars
<1>2. rows \subseteq Rows
  OBVIOUS
<1>3. list \in Seq(Events) /\ Descending(list) /\ \A k \in DOMAIN list : list[k] \in rows
  BY <1>2, ListedRows
<1> HIDE DEF list
<1>4. TabTypes'
  BY <1>1, <1>3 DEF TabTypes
<1>5. buffered[t] = <<>> /\ ~paused[t]
  BY <1>1 DEF PageOK
<1>6. OnPage(t)' = buffered[t] \o list
  BY <1>1 DEF OnPage, TabTypes
<1>7. OnPage(t)' = list
  BY <1>3, <1>5, <1>6, ConcatEmptySeq
<1>8. \A i \in DOMAIN list : list[i] <= arrived
  BY <1>2, <1>3 DEF IdsOK
<1>9. tpc'[t] = "listed"
  BY <1>1 DEF TabTypes
<1>10. cursor'[t] <= highest' /\ ~paused'[t] /\ buffered'[t] = <<>>
  BY <1>1, <1>5 DEF PageOK
<1> QED BY <1>1, <1>3, <1>4, <1>7, <1>8, <1>9, <1>10 DEF PageOK

LEMMA ConnectKeepsPage ==
    ASSUME IdsOK, TabTypes, NEW t \in Tabs, PageOK(t), Connect(t)
    PROVE  TabTypes' /\ PageOK(t)'
<1>1. /\ tpc' = [tpc EXCEPT ![t] = "live"]
      /\ cursor' = [cursor EXCEPT ![t] = LatestID(idOf)]
      /\ known' = [known EXCEPT ![t] = Rows]
      /\ UNCHANGED <<shown, buffered, paused>> /\ UNCHANGED <<arrived, idOf, highest, reused>>
  BY DEF Connect, tableVars, LatestEventID
<1>2. /\ LatestID(idOf) \in Nat /\ \A e \in Events : idOf[e] <= LatestID(idOf)
      /\ LatestID(idOf) = 0 \/ \E e \in Events : LatestID(idOf) = idOf[e]
  BY LatestIsLargest DEF IdsOK
<1>3. highest \in Nat /\ Rows \subseteq Events /\ \A e \in Events : idOf[e] \in Nat
  BY DEF IdsOK, Rows
<1>4. LatestID(idOf) <= highest
  <2>1. CASE LatestID(idOf) = 0
    BY <1>3, <2>1
  <2>2. CASE LatestID(idOf) # 0
    <3>1. PICK e \in Events : LatestID(idOf) = idOf[e]
      BY <1>2, <2>2
    <3> QED BY <2>2, <3>1 DEF IdsOK, Rows
  <2> QED BY <2>1, <2>2
<1>5. TabTypes'
  BY <1>1, <1>2, <1>3 DEF TabTypes
<1>6. OnPage(t)' = OnPage(t) /\ cursor'[t] = LatestID(idOf) /\ known'[t] = Rows /\ Rows' = Rows
      /\ tpc'[t] = "live"
  BY <1>1 DEF OnPage, TabTypes, Rows
<1>7. \A e \in Rows : ~(LatestID(idOf) < idOf[e])
  BY <1>2, <1>3
<1> QED BY <1>1, <1>4, <1>5, <1>6, <1>7 DEF PageOK

\* Of the steps of a tab: those that leave what the page shows and holds.
LEMMA QuietTabStep ==
    ASSUME IdsOK, IdsOK', TableGrows, TabTypes, NEW t \in Tabs, PageOK(t),
           ConnectFails(t) \/ Disconnect(t) \/ Pause(t)
    PROVE  TabTypes' /\ PageOK(t)'
<1>1. CASE ConnectFails(t)
  BY <1>1, OtherTab DEF ConnectFails, TabTypes, SameTab
<1>2. CASE Disconnect(t)
  BY <1>2, OtherTab DEF Disconnect, TabTypes, SameTab
<1>3. CASE Pause(t)
  <2>1. /\ tpc[t] # "closed" /\ paused' = [paused EXCEPT ![t] = TRUE]
        /\ UNCHANGED <<tpc, cursor, shown, buffered, known>>
        /\ UNCHANGED <<arrived, idOf, highest, reused>>
    BY <1>3 DEF Pause, tableVars
  <2>2. TabTypes'
    BY <2>1 DEF TabTypes
  <2>3. OnPage(t)' = OnPage(t) /\ paused'[t] /\ Rows' = Rows
    BY <2>1 DEF OnPage, Rows, TabTypes
  <2> QED BY <2>1, <2>2, <2>3 DEF PageOK
<1> QED BY <1>1, <1>2, <1>3

LEMMA PagesStep == PagesInv /\ [Next]_vars => PagesInv'
<1> SUFFICES ASSUME PagesInv, [Next]_vars PROVE PagesInv'
  OBVIOUS
<1>1. IdsOK /\ IdsOK' /\ TableGrows /\ TabTypes /\ \A t \in Tabs : PageOK(t)
  BY TableStep DEF PagesInv
<1>2. ASSUME NEW t \in Tabs,
             HandleLogsList(t) \/ Connect(t) \/ ConnectFails(t)
               \/ Poll(t) \/ Disconnect(t) \/ Pause(t) \/ Resume(t)
      PROVE  TabTypes' /\ \A u \in Tabs : PageOK(u)'
  <2>1. TabTypes' /\ PageOK(t)'
    BY <1>1, <1>2, PollKeepsPage, ResumeKeepsPage, ListKeepsPage, ConnectKeepsPage, QuietTabStep
  <2>2. ASSUME NEW u \in Tabs, u # t PROVE PageOK(u)'
    <3>1. SameTab(u)
      BY <1>1, <1>2, <2>2
      DEF HandleLogsList, Connect, ConnectFails, Poll, Disconnect, Pause, Resume, Receive,
          SameTab, TabTypes
    <3> QED BY <1>1, <3>1, OtherTab
  <2> QED BY <2>1, <2>2
<1>3. CASE UNCHANGED tabVars
  <2>1. TabTypes' /\ \A t \in Tabs : SameTab(t)
    BY <1>1, <1>3 DEF tabVars, TabTypes, SameTab
  <2> QED BY <1>1, <2>1, OtherTab DEF PagesInv
<1>4. CASE Restart
  <2>1. TabTypes' /\ \A t \in Tabs : SameTab(t)
    BY <1>1, <1>4 DEF Restart, TabTypes, SameTab
  <2> QED BY <1>1, <2>1, OtherTab DEF PagesInv
<1>5. CASE Browse
  BY <1>1, <1>2, <1>5 DEF Browse, PagesInv
<1>6. UNCHANGED vars => UNCHANGED tabVars
  BY DEF vars
<1> QED BY <1>3, <1>4, <1>5, <1>6 DEF Next

LEMMA PagesInvHolds == Spec => []PagesInv
BY PagesInvInit, PagesStep, PTL DEF Spec

(* However batches, sweeps, faults and restarts interleave with the polls,  *)
(* reconnects and pauses of a page, it shows no event twice and a later one *)
(* above an earlier one (handlers_logs.go:231-284, logs.js:113-129).        *)
THEOREM PageIsInOrderHolds == Spec => []PageIsInOrder
<1>1. PagesInv => PageIsInOrder
  BY DEF PagesInv, PageOK, Descending, PageIsInOrder
<1> QED BY <1>1, PagesInvHolds, PTL

(* The cursor of a live stream passes no row that came since it connected   *)
(* without showing it, but one that was given the id of a deleted row       *)
(* (handlers_logs.go:269-281, store/events.go:414-418).                     *)
THEOREM OnlyReusedIdsAreSkippedHolds == Spec => []OnlyReusedIdsAreSkipped
<1>1. PagesInv => OnlyReusedIdsAreSkipped
  BY DEF PagesInv, PageOK, OnlyReusedIdsAreSkipped
<1> QED BY <1>1, PagesInvHolds, PTL

-----------------------------------------------------------------------------
(* The Overview.  Counted is what a sum of event_rollups counts, of any set  *)
(* of events in place of rolled.                                             *)
Counted(events, hours, verdict) ==
    {e \in events : ReceivedAt[e] \in hours /\ VerdictOf(e) = verdict}

LEMMA EventsAreFinite ==
    ASSUME NEW S \in SUBSET Events
    PROVE  IsFiniteSet(S) /\ Cardinality(S) \in Nat /\ Cardinality(S) <= NEvents
<1>1. IsFiniteSet(Events) /\ Cardinality(Events) = NEvents
  BY EventTableAssumption, FS_Interval DEF Events
<1> QED BY <1>1, FS_Subset, FS_CardinalityType

\* More events counted, a larger sum.
LEMMA CountsGrow ==
    ASSUME NEW S \in SUBSET Events, NEW T \in SUBSET S
    PROVE  Cardinality(T) <= Cardinality(S) /\ Cardinality(T) \in Nat
BY EventsAreFinite, FS_Subset

\* An event's place among those of its hour.
Rank(S, e) == Cardinality({d \in S : ReceivedAt[d] = ReceivedAt[e] /\ d <= e})

LEMMA RanksDiffer ==
    ASSUME NEW S \in SUBSET Events, NEW d \in S, NEW e \in S,
           ReceivedAt[d] = ReceivedAt[e], d < e
    PROVE  Rank(S, d) < Rank(S, e)
<1> DEFINE A == {x \in S : ReceivedAt[x] = ReceivedAt[d] /\ x <= d}
           B == {x \in S : ReceivedAt[x] = ReceivedAt[e] /\ x <= e}
<1>0. S \subseteq Int
  BY EventTableAssumption DEF Events
<1>1. A \subseteq B /\ e \in B /\ e \notin A
  <2>1. \A x \in S : x <= d => x <= e
    BY <1>0
  <2>2. e <= e /\ ~(e <= d)
    BY <1>0
  <2> QED BY <2>1, <2>2
<1>2. B \subseteq Events
  OBVIOUS
<1>3. Rank(S, d) = Cardinality(A) /\ Rank(S, e) = Cardinality(B)
  BY DEF Rank
<1> HIDE DEF A, B
<1>4. Cardinality(A) <= Cardinality(B) /\ (Cardinality(B) = Cardinality(A) => B = A)
  BY <1>1, <1>2, EventsAreFinite, FS_Subset
<1>5. Cardinality(A) \in Nat /\ Cardinality(B) \in Nat
  BY <1>1, <1>2, EventsAreFinite
<1> QED BY <1>1, <1>3, <1>4, <1>5

\* The events of some hours, each by its rank within its hour, are blocks of
\* the bars of those hours.
LEMMA BlocksCover ==
    ASSUME NEW hours, IsFiniteSet(hours), NEW S \in SUBSET Events,
           \A e \in S : ReceivedAt[e] \in hours
    PROVE  Cardinality(S) <=
               Cardinality({block \in hours \X (1..NEvents) :
                   block[2] <= Cardinality({e \in S : ReceivedAt[e] = block[1]})})
<1> DEFINE Hour(h) == {e \in S : ReceivedAt[e] = h}
           blocks == {block \in hours \X (1..NEvents) : block[2] <= Cardinality(Hour(block[1]))}
           f == [e \in S |-> <<ReceivedAt[e], Rank(S, e)>>]
<1>0. S \subseteq Int /\ NEvents \in Nat
  BY EventTableAssumption DEF Events
<1>1. ASSUME NEW e \in S
      PROVE  Rank(S, e) \in 1..NEvents /\ Rank(S, e) <= Cardinality(Hour(ReceivedAt[e]))
  <2> DEFINE R == {d \in S : ReceivedAt[d] = ReceivedAt[e] /\ d <= e}
             H == Hour(ReceivedAt[e])
  <2>1. R \subseteq H /\ H \subseteq Events /\ R \subseteq Events /\ e \in R
    <3>1. e <= e
      BY <1>0
    <3> QED BY <3>1
  <2>2. Rank(S, e) = Cardinality(R)
    BY DEF Rank
  <2> HIDE DEF R, H
  <2>3. Cardinality(R) \in Nat /\ Cardinality(R) <= NEvents /\ IsFiniteSet(R)
    BY <2>1, EventsAreFinite
  <2>4. Cardinality(R) <= Cardinality(H)
    BY <2>1, CountsGrow
  <2>5. Cardinality(R) # 0
    BY <2>1, <2>3, FS_EmptySet
  <2> QED BY <1>0, <2>2, <2>3, <2>4, <2>5 DEF H
<1> HIDE DEF Hour
<1>2. \A e \in S : f[e] \in blocks
  BY <1>1
<1>3. ASSUME NEW d \in S, NEW e \in S, f[d] = f[e] PROVE d = e
  <2>1. ReceivedAt[d] = ReceivedAt[e] /\ Rank(S, d) = Rank(S, e)
    BY <1>3
  <2>2. Rank(S, d) \in Int /\ d \in Int /\ e \in Int
    BY <1>0, <1>1
  <2>3. ~(d < e) /\ ~(e < d)
    BY <2>1, <2>2, RanksDiffer
  <2> QED BY <2>2, <2>3
<1>4. f \in Injection(S, blocks)
  <2>1. f \in [S -> blocks]
    BY <1>2
  <2> QED BY <1>3, <2>1 DEF Injection, IsInjective
<1>5. IsFiniteSet(blocks)
  <2>1. IsFiniteSet(1..NEvents)
    BY <1>0, FS_Interval
  <2>2. IsFiniteSet(hours \X (1..NEvents))
    BY <2>1, FS_Product
  <2> QED BY <2>2, FS_Subset
<1> HIDE DEF f, blocks
<1>6. Cardinality(S) <= Cardinality(blocks)
  BY <1>4, <1>5, FS_Injection
<1> QED BY <1>6 DEF blocks, Hour

\* What is counted has or had a row.
CountsOK ==
    /\ clock \in Int
    /\ rolled \subseteq Events /\ deleted \subseteq Events /\ batch \subseteq Events
    /\ rolled \cup batch \subseteq Rows \cup deleted

\* What a step may do to the table, as a visit sees it.
HistoryGrows == rolled \subseteq rolled' /\ deleted \subseteq deleted'

LEMMA CountsStep ==
    ASSUME IdsOK, CountsOK, [Next]_vars PROVE CountsOK' /\ HistoryGrows
<1> USE DEF CountsOK, HistoryGrows
<1>1. CASE UNCHANGED <<idOf, rolled, deleted>> /\ clock' \in Int /\ batch' \in {batch, {}}
  BY <1>1 DEF Rows
<1>2. ASSUME NEW n \in 1..MaxBatch, InsertEvents(n) PROVE CountsOK' /\ HistoryGrows
  <2>1. /\ batch' = NextBatch(n) /\ UNCHANGED <<clock, rolled, deleted>>
        /\ idOf' = [e \in Events |-> IF e \in NextBatch(n)
                                     THEN LatestID(idOf) + (e - arrived) ELSE idOf[e]]
    BY <1>2 DEF InsertEvents, LatestEventID
  <2>2. LatestID(idOf) \in Nat /\ arrived \in Nat /\ Events \subseteq Int
    BY LatestIsLargest, EventTableAssumption DEF IdsOK, Events
  <2>3. NextBatch(n) \subseteq Events /\ \A e \in NextBatch(n) : arrived < e
    BY DEF NextBatch
  <2>4. \A e \in NextBatch(n) : idOf'[e] # 0
    <3> SUFFICES ASSUME NEW e \in NextBatch(n) PROVE idOf'[e] # 0
      OBVIOUS
    <3>1. idOf'[e] = LatestID(idOf) + (e - arrived) /\ e \in Int /\ arrived < e
      BY <2>1, <2>2, <2>3
    <3> QED BY <2>2, <3>1
  <2>5. \A e \in Events : e \notin NextBatch(n) => idOf'[e] = idOf[e]
    BY <2>1
  <2>6. NextBatch(n) \subseteq Rows' /\ Rows \subseteq Rows'
    BY <2>3, <2>4, <2>5 DEF Rows
  <2> QED BY <2>1, <2>3, <2>6
<1>3. CASE UpsertRollups
  BY <1>3 DEF UpsertRollups, Rows
<1>4. CASE PruneEvents
  <2>1. /\ UNCHANGED <<clock, batch, rolled>> /\ deleted \subseteq deleted'
        /\ deleted' \subseteq Events /\ Rows \subseteq Rows' \cup deleted'
    BY <1>4 DEF PruneEvents, DeleteEventsOlderThan, Rows, IdsOK
  <2> QED BY <2>1
<1>5. UpsertRollupsFails \/ PassTime \/ SweepFails \/ Restart
        \/ UNCHANGED vars \/ UNCHANGED tableVars
        => UNCHANGED <<idOf, rolled, deleted>> /\ clock' \in Int /\ batch' \in {batch, {}}
  BY DEF UpsertRollupsFails, PassTime, SweepFails, Restart, vars, tableVars
<1>6. ASSUME NEW n \in 1..MaxBatch, InsertEventsFails(n)
      PROVE  UNCHANGED <<idOf, rolled, deleted>> /\ clock' \in Int /\ batch' \in {batch, {}}
  BY <1>6 DEF InsertEventsFails
<1>7. CASE Ingest
  BY <1>1, <1>2, <1>3, <1>5, <1>6, <1>7 DEF Ingest
<1>8. Browse => UNCHANGED <<idOf, rolled, deleted, clock, batch>>
  BY DEF Browse, HandleLogsList, Connect, ConnectFails, Poll, Disconnect, Pause, Resume, tableVars
<1>9. Visit => UNCHANGED <<idOf, rolled, deleted, clock, batch>>
  BY DEF Visit, HandleOverview, HandleStatsSummary, ReadSummary, ReadSample, ReadChart,
         ReadRecent, VisitFails, tableVars
<1>10. UNCHANGED <<tableVars, tabVars, visitVars>> => UNCHANGED tableVars
  OBVIOUS
<1> QED BY <1>1, <1>4, <1>5, <1>7, <1>8, <1>9, <1>10 DEF Next, SweepStep

-----------------------------------------------------------------------------
VisitTypes ==
    /\ vpc \in [Visits -> {"away", "idle", "empty", "cards", "sample", "chart", "recent",
                           "shown", "failed"}]
    /\ kind \in [Visits -> {"page", "cards"}]
    /\ window \in [Visits -> Int] /\ visitNow \in [Visits -> Int]
    /\ counted \in [Visits -> SUBSET Events]
    /\ DOMAIN cards = Visits /\ DOMAIN sampled = Visits
    /\ DOMAIN chart = Visits /\ DOMAIN recent = Visits

VisitHours(v) == Hours(visitNow[v], window[v])

\* The chart covers the rejections that were counted when it was read.
RejectionsCharted(v) ==
    /\ Bars(v, "rejected") \in Nat
    /\ Cardinality(Counted(counted[v], VisitHours(v), "rejected")) <= Bars(v, "rejected")

\* What a visit has read so far, query by query.
VisitOK(v) ==
    /\ vpc[v] \in {"sample", "chart", "recent", "shown"} =>
          \A verdict \in Verdicts : cards[v][verdict] \in Nat
    /\ vpc[v] \in {"sample", "chart"} =>
          \A verdict \in Verdicts : cards[v][verdict] <= RollupSum(VisitHours(v), verdict)
    /\ vpc[v] \in {"chart", "recent", "shown"} => CountsHaveSamples(v)
    /\ vpc[v] \in {"recent", "shown"} /\ kind[v] = "page" =>
          ChartCoversCards(v) /\ RejectionsCharted(v)
    /\ vpc[v] = "shown" /\ kind[v] = "page" => recent[v] \subseteq Rejected

VisitsInv == IdsOK /\ CountsOK /\ VisitTypes /\ \A v \in Visits : VisitOK(v)

LEMMA VisitsInvInit == Init => VisitsInv
<1> SUFFICES ASSUME Init PROVE VisitsInv
  OBVIOUS
<1> USE DEF Init, EventTableInit, OverviewInit
<1>1. IdsOK /\ CountsOK
  BY DEF IdsOK, CountsOK, Rows
<1>2. VisitTypes /\ \A v \in Visits : VisitOK(v)
  BY DEF VisitTypes, VisitOK
<1> QED BY <1>1, <1>2 DEF VisitsInv

LEMMA SumIsCount ==
    ASSUME NEW hours, NEW verdict
    PROVE  RollupSum(hours, verdict) = Cardinality(Counted(rolled, hours, verdict))
BY DEF RollupSum, Counted

\* A visit that the step is not about.
SameVisit(v) ==
    /\ kind'[v] = kind[v] /\ window'[v] = window[v] /\ visitNow'[v] = visitNow[v]
    /\ cards'[v] = cards[v] /\ sampled'[v] = sampled[v] /\ chart'[v] = chart[v]
    /\ recent'[v] = recent[v] /\ counted'[v] = counted[v]
    /\ vpc'[v] = vpc[v] \/ vpc'[v] = "failed"

LEMMA OtherVisit ==
    ASSUME CountsOK, CountsOK', HistoryGrows, NEW v \in Visits, VisitOK(v), SameVisit(v)
    PROVE  VisitOK(v)'
<1>1. VisitHours(v)' = VisitHours(v) /\ InWindow(v)' = InWindow(v)
      /\ \A verdict : Bars(v, verdict)' = Bars(v, verdict)
  BY DEF VisitHours, Hours, InWindow, Bars, SameVisit
<1>2. \A verdict : RollupSum(VisitHours(v), verdict) \in Nat
                   /\ RollupSum(VisitHours(v), verdict)' \in Nat
                   /\ RollupSum(VisitHours(v), verdict) <= RollupSum(VisitHours(v), verdict)'
  <2> SUFFICES ASSUME NEW verdict
               PROVE  /\ RollupSum(VisitHours(v), verdict) \in Nat
                      /\ RollupSum(VisitHours(v), verdict)' \in Nat
                      /\ RollupSum(VisitHours(v), verdict) <= RollupSum(VisitHours(v), verdict)'
    OBVIOUS
  <2> DEFINE now == Counted(rolled, VisitHours(v), verdict)
             later == Counted(rolled', VisitHours(v), verdict)
  <2>1. now \subseteq later /\ later \subseteq Events
    BY DEF CountsOK, HistoryGrows, Counted
  <2>2. RollupSum(VisitHours(v), verdict) = Cardinality(now)
        /\ RollupSum(VisitHours(v), verdict)' = Cardinality(later)
    BY <1>1, SumIsCount DEF RollupSum, Counted
  <2> HIDE DEF now, later
  <2> QED BY <2>1, <2>2, CountsGrow, EventsAreFinite
<1>3. CountsHaveSamples(v) => CountsHaveSamples(v)'
  BY <1>1 DEF CountsHaveSamples, SameVisit, HistoryGrows
<1>4. ChartCoversCards(v)' = ChartCoversCards(v) /\ RejectionsCharted(v)' = RejectionsCharted(v)
  BY <1>1 DEF ChartCoversCards, RejectionsCharted, Counted, SameVisit
<1>5. CASE vpc'[v] = "failed"
  BY <1>5 DEF VisitOK
<1>6. CASE vpc'[v] = vpc[v]
  <2>1. ASSUME vpc[v] \in {"sample", "chart"}, NEW verdict \in Verdicts
        PROVE  cards'[v][verdict] <= RollupSum(VisitHours(v), verdict)'
    <3>1. cards[v][verdict] \in Nat /\ cards[v][verdict] <= RollupSum(VisitHours(v), verdict)
      BY <2>1 DEF VisitOK
    <3> HIDE DEF VisitOK
    <3>2. cards'[v] = cards[v]
      BY DEF SameVisit
    <3> QED BY <1>2, <3>1, <3>2
  <2> QED BY <1>3, <1>4, <1>6, <2>1 DEF VisitOK, SameVisit
<1> QED BY <1>5, <1>6 DEF SameVisit

\* The cards are the sums of the moment.
LEMMA SummaryKeepsVisit ==
    ASSUME CountsOK, VisitTypes, NEW v \in Visits, VisitOK(v), ReadSummary(v)
    PROVE  VisitTypes' /\ VisitOK(v)'
<1>1. /\ vpc' = [vpc EXCEPT ![v] = "sample"]
      /\ cards' = [cards EXCEPT ![v] = [verdict \in Verdicts |-> RollupSum(VisitHours(v), verdict)]]
      /\ UNCHANGED <<kind, window, visitNow, sampled, chart, recent, counted, rolled>>
  BY DEF ReadSummary, Go, VisitHours, tableVars
<1>2. VisitTypes' /\ vpc'[v] = "sample"
  BY <1>1 DEF VisitTypes
<1>3. VisitHours(v)' = VisitHours(v)
  BY <1>1 DEF VisitHours, Hours
<1>4. ASSUME NEW verdict \in Verdicts
      PROVE  /\ cards'[v][verdict] = RollupSum(VisitHours(v), verdict)
             /\ RollupSum(VisitHours(v), verdict)' = RollupSum(VisitHours(v), verdict)
             /\ RollupSum(VisitHours(v), verdict) \in Nat
  <2>1. cards'[v] = [x \in Verdicts |-> RollupSum(VisitHours(v), x)]
    BY <1>1 DEF VisitTypes
  <2>2. RollupSum(VisitHours(v), verdict)' = RollupSum(VisitHours(v), verdict)
    BY <1>1, <1>3 DEF RollupSum
  <2>3. Counted(rolled, VisitHours(v), verdict) \subseteq Events
    BY DEF Counted, CountsOK
  <2> QED BY <2>1, <2>2, <2>3, SumIsCount, EventsAreFinite
<1> QED BY <1>2, <1>3, <1>4 DEF VisitOK

\* A sum that is not 0 has an event, and where it has no row it was deleted.
LEMMA SampleKeepsVisit ==
    ASSUME CountsOK, VisitTypes, NEW v \in Visits, VisitOK(v), ReadSample(v)
    PROVE  VisitTypes' /\ VisitOK(v)'
<1>1. /\ vpc[v] = "sample"
      /\ vpc' = [vpc EXCEPT ![v] = IF kind[v] = "page" THEN "chart" ELSE "shown"]
      /\ sampled' = [sampled EXCEPT ![v] =
            \E e \in Rows : ReceivedAt[e] > visitNow[v] - window[v]]
      /\ UNCHANGED <<kind, window, visitNow, cards, chart, recent, counted, rolled, deleted>>
  BY DEF ReadSample, Go, tableVars
<1>2. VisitTypes'
  BY <1>1 DEF VisitTypes
<1>3. VisitHours(v)' = VisitHours(v) /\ InWindow(v)' = InWindow(v) /\ cards'[v] = cards[v]
  BY <1>1 DEF VisitHours, Hours, InWindow
<1>4. sampled'[v] <=> \E e \in Rows : ReceivedAt[e] > visitNow[v] - window[v]
  <2>1. sampled'[v] = \E e \in Rows : ReceivedAt[e] > visitNow[v] - window[v]
    BY <1>1 DEF VisitTypes
  <2> QED BY <2>1
<1>5. ASSUME NEW verdict \in Verdicts, cards[v][verdict] > 0, ~sampled'[v]
      PROVE  deleted \cap InWindow(v) # {}
  <2> DEFINE summed == Counted(rolled, VisitHours(v), verdict)
  <2>1. summed # {}
    <3>1. cards[v][verdict] \in Nat /\ cards[v][verdict] <= RollupSum(VisitHours(v), verdict)
      BY <1>1 DEF VisitOK
    <3>2. RollupSum(VisitHours(v), verdict) = Cardinality(summed)
      BY SumIsCount
    <3>3. summed = {} => Cardinality(summed) = 0
      BY FS_EmptySet
    <3> HIDE DEF summed
    <3> QED BY <1>5, <3>1, <3>2, <3>3
  <2>2. PICK e \in rolled : ReceivedAt[e] \in VisitHours(v)
    BY <2>1 DEF Counted
  <2>3. e \in Events /\ e \in InWindow(v)
    BY <2>2 DEF CountsOK, InWindow, VisitHours
  <2>4. ReceivedAt[e] > visitNow[v] - window[v]
    <3>1. visitNow[v] \in Int /\ window[v] \in Int /\ ReceivedAt[e] \in Int
      BY <2>3, EventTableAssumption DEF VisitTypes
    <3>2. visitNow[v] - window[v] + 1 <= ReceivedAt[e]
      BY <2>2, <3>1 DEF VisitHours, Hours
    <3> QED BY <3>1, <3>2
  <2>5. e \in deleted
    BY <1>4, <1>5, <2>2, <2>4 DEF CountsOK
  <2> QED BY <2>3, <2>5
<1>6. CountsHaveSamples(v)'
  BY <1>1, <1>3, <1>5 DEF CountsHaveSamples
<1>7. vpc'[v] = (IF kind[v] = "page" THEN "chart" ELSE "shown") /\ kind'[v] = kind[v]
  BY <1>1 DEF VisitTypes
<1>8. \A verdict \in Verdicts :
         /\ cards'[v][verdict] \in Nat
         /\ cards'[v][verdict] <= RollupSum(VisitHours(v), verdict)'
  BY <1>1, <1>3 DEF VisitOK, RollupSum
<1> QED BY <1>2, <1>6, <1>7, <1>8 DEF VisitOK

\* The bars are the sums of the moment, hour by hour, and together at least
\* the sum over the window.
LEMMA ChartKeepsVisit ==
    ASSUME CountsOK, VisitTypes, NEW v \in Visits, VisitOK(v), ReadChart(v)
    PROVE  VisitTypes' /\ VisitOK(v)'
<1> DEFINE hours == VisitHours(v)
           bars == [h \in hours |-> [verdict \in Verdicts |-> RollupSum({h}, verdict)]]
<1>1. /\ vpc[v] = "chart" /\ vpc' = [vpc EXCEPT ![v] = "recent"]
      /\ chart' = [chart EXCEPT ![v] = bars]
      /\ counted' = [counted EXCEPT ![v] = rolled]
      /\ UNCHANGED <<kind, window, visitNow, cards, sampled, recent, rolled, deleted>>
  BY DEF ReadChart, Go, tableVars, VisitHours
<1>2. VisitTypes' /\ vpc'[v] = "recent" /\ chart'[v] = bars /\ counted'[v] = rolled
  BY <1>1 DEF VisitTypes, CountsOK
<1>3. /\ VisitHours(v)' = hours /\ InWindow(v)' = InWindow(v)
      /\ cards'[v] = cards[v] /\ sampled'[v] = sampled[v]
  BY <1>1 DEF VisitHours, Hours, InWindow
<1>4. IsFiniteSet(hours)
  <2>1. visitNow[v] \in Int /\ visitNow[v] - window[v] + 1 \in Int
    BY DEF VisitTypes
  <2> QED BY <2>1, FS_Interval DEF VisitHours, Hours
<1>5. ASSUME NEW verdict \in Verdicts
      PROVE  /\ RollupSum(hours, verdict) <= Bars(v, verdict)'
             /\ RollupSum(hours, verdict) = Cardinality(Counted(rolled, hours, verdict))
             /\ RollupSum(hours, verdict) \in Nat /\ Bars(v, verdict)' \in Nat
  <2> DEFINE S == Counted(rolled, hours, verdict)
             blocks == {block \in hours \X (1..NEvents) :
                           block[2] <= Cardinality({e \in S : ReceivedAt[e] = block[1]})}
  <2>1. S \subseteq Events /\ \A e \in S : ReceivedAt[e] \in hours
    BY DEF Counted, CountsOK
  <2>2. ASSUME NEW h \in hours
        PROVE  bars[h][verdict] = Cardinality({e \in S : ReceivedAt[e] = h})
    <3>1. {e \in rolled : ReceivedAt[e] \in {h} /\ VerdictOf(e) = verdict}
            = {e \in S : ReceivedAt[e] = h}
      BY DEF Counted
    <3> QED BY <3>1 DEF RollupSum
  <2>3. Bars(v, verdict)' = Cardinality(blocks)
    <3>1. DOMAIN chart'[v] = hours
      BY <1>2
    <3>2. \A block \in hours \X (1..NEvents) :
              chart'[v][block[1]][verdict] = Cardinality({e \in S : ReceivedAt[e] = block[1]})
      BY <1>2, <2>2
    <3> HIDE DEF S, hours
    <3> QED BY <3>1, <3>2 DEF Bars
  <2>4. Cardinality(S) <= Cardinality(blocks)
    BY <1>4, <2>1, BlocksCover
  <2>5. RollupSum(hours, verdict) = Cardinality(S)
    BY SumIsCount
  <2>6. Cardinality(blocks) \in Nat
    <3>1. IsFiniteSet(1..NEvents)
      BY EventTableAssumption, FS_Interval
    <3>2. IsFiniteSet(hours \X (1..NEvents))
      BY <1>4, <3>1, FS_Product
    <3>3. blocks \subseteq hours \X (1..NEvents)
      OBVIOUS
    <3> HIDE DEF blocks, hours
    <3> QED BY <3>2, <3>3, FS_Subset, FS_CardinalityType
  <2>7. Cardinality(S) \in Nat
    BY <2>1, EventsAreFinite
  <2> HIDE DEF S, blocks, hours
  <2>8. S = Counted(rolled, hours, verdict)
    BY DEF S
  <2> QED BY <2>3, <2>4, <2>5, <2>6, <2>7, <2>8
<1> HIDE DEF hours
<1>6. ChartCoversCards(v)'
  <2> SUFFICES ASSUME NEW verdict \in Verdicts PROVE cards'[v][verdict] <= Bars(v, verdict)'
    BY DEF ChartCoversCards
  <2>1. cards[v][verdict] \in Nat /\ cards[v][verdict] <= RollupSum(hours, verdict)
    BY <1>1 DEF VisitOK, hours
  <2>2. cards'[v] = cards[v]
    BY <1>3
  <2> HIDE DEF VisitOK
  <2> QED BY <1>5, <2>1, <2>2
<1>7. RejectionsCharted(v)'
  <2>1. "rejected" \in Verdicts
    BY DEF Verdicts
  <2>2. Counted(counted[v], VisitHours(v), "rejected")' = Counted(rolled, hours, "rejected")
    BY <1>2, <1>3 DEF Counted
  <2>3. /\ Bars(v, "rejected")' \in Nat
        /\ Cardinality(Counted(counted[v], VisitHours(v), "rejected"))' <= Bars(v, "rejected")'
    BY <1>5, <2>1, <2>2
  <2> QED BY <2>3 DEF RejectionsCharted
<1>8. CountsHaveSamples(v)' /\ \A verdict \in Verdicts : cards'[v][verdict] \in Nat
  BY <1>1, <1>3 DEF VisitOK, CountsHaveSamples
<1> QED BY <1>2, <1>6, <1>7, <1>8 DEF VisitOK

LEMMA RecentKeepsVisit ==
    ASSUME CountsOK, VisitTypes, NEW v \in Visits, VisitOK(v), ReadRecent(v)
    PROVE  VisitTypes' /\ VisitOK(v)'
<1>1. PICK newest \in SUBSET (Rows \cap Rejected) :
         recent' = [recent EXCEPT ![v] = newest]
  BY DEF ReadRecent
<1>2. /\ vpc[v] = "recent" /\ vpc' = [vpc EXCEPT ![v] = "shown"]
      /\ UNCHANGED <<kind, window, visitNow, cards, sampled, chart, counted, rolled, deleted>>
  BY DEF ReadRecent, Go, tableVars
<1>3. VisitTypes' /\ vpc'[v] = "shown" /\ recent'[v] \subseteq Rejected
  BY <1>1, <1>2 DEF VisitTypes
<1>4. CountsHaveSamples(v)' = CountsHaveSamples(v) /\ ChartCoversCards(v)' = ChartCoversCards(v)
      /\ RejectionsCharted(v)' = RejectionsCharted(v)
  BY <1>2 DEF CountsHaveSamples, ChartCoversCards, RejectionsCharted, InWindow, VisitHours,
              Hours, Bars, Counted
<1> QED BY <1>2, <1>3, <1>4 DEF VisitOK

\* The steps of a visit that read nothing.
LEMMA QuietVisitStep ==
    ASSUME CountsOK, VisitTypes, NEW v \in Visits,
           \/ \E w \in WindowHours : HandleOverview(v, w) \/ HandleStatsSummary(v, w)
           \/ VisitFails(v)
    PROVE  VisitTypes' /\ VisitOK(v)'
<1>1. CASE \E w \in WindowHours : HandleOverview(v, w) \/ HandleStatsSummary(v, w)
  <2>1. PICK w \in WindowHours : HandleOverview(v, w) \/ HandleStatsSummary(v, w)
    BY <1>1
  <2>2. w \in Int /\ clock \in Int
    BY OverviewAssumption DEF CountsOK
  <2>3. VisitTypes' /\ vpc'[v] \in {"empty", "cards"}
    BY <2>1, <2>2 DEF HandleOverview, HandleStatsSummary, Go, VisitTypes
  <2> QED BY <2>3 DEF VisitOK
<1>2. CASE VisitFails(v)
  <2>1. VisitTypes' /\ vpc'[v] = "failed"
    BY <1>2 DEF VisitFails, VisitTypes
  <2> QED BY <2>1 DEF VisitOK
<1> QED BY <1>1, <1>2

LEMMA VisitsStep == VisitsInv /\ [Next]_vars => VisitsInv'
<1> SUFFICES ASSUME VisitsInv, [Next]_vars PROVE VisitsInv'
  OBVIOUS
<1>1. IdsOK /\ IdsOK' /\ CountsOK /\ CountsOK' /\ HistoryGrows /\ VisitTypes
      /\ \A v \in Visits : VisitOK(v)
  BY TableStep, CountsStep DEF VisitsInv
<1>2. ASSUME NEW v \in Visits,
             \/ \E w \in WindowHours : HandleOverview(v, w) \/ HandleStatsSummary(v, w)
             \/ ReadSummary(v) \/ ReadSample(v) \/ ReadChart(v) \/ ReadRecent(v)
             \/ VisitFails(v)
      PROVE  VisitTypes' /\ \A u \in Visits : VisitOK(u)'
  <2>1. VisitTypes' /\ VisitOK(v)'
    BY <1>1, <1>2, SummaryKeepsVisit, SampleKeepsVisit, ChartKeepsVisit, RecentKeepsVisit,
       QuietVisitStep
  <2>2. ASSUME NEW u \in Visits, u # v PROVE VisitOK(u)'
    <3>1. SameVisit(u)
      BY <1>1, <1>2, <2>2
      DEF HandleOverview, HandleStatsSummary, ReadSummary, ReadSample, ReadChart, ReadRecent,
          VisitFails, Go, SameVisit, VisitTypes
    <3> QED BY <1>1, <3>1, OtherVisit
  <2> QED BY <2>1, <2>2
<1>3. CASE UNCHANGED visitVars
  <2>1. VisitTypes' /\ \A v \in Visits : SameVisit(v)
    BY <1>1, <1>3 DEF visitVars, VisitTypes, SameVisit
  <2> QED BY <1>1, <2>1, OtherVisit DEF VisitsInv
<1>4. CASE Restart
  <2>1. VisitTypes' /\ \A v \in Visits : SameVisit(v)
    BY <1>1, <1>4 DEF Restart, VisitTypes, SameVisit
  <2> QED BY <1>1, <2>1, OtherVisit DEF VisitsInv
<1>5. CASE Visit
  BY <1>1, <1>2, <1>5 DEF Visit, VisitsInv
<1>6. UNCHANGED vars => UNCHANGED visitVars
  BY DEF vars
<1> QED BY <1>3, <1>4, <1>5, <1>6 DEF Next

\* What a recent rejection of the window adds to the bars.
LEMMA RecentAreCharted ==
    ASSUME VisitTypes, NEW v \in Visits, RejectionsCharted(v), recent[v] \subseteq Rejected
    PROVE  RecentAreCounted(v)
<1> DEFINE some == recent[v] \cap InWindow(v) \cap counted[v]
           all == Counted(counted[v], VisitHours(v), "rejected")
<1>1. some \subseteq all
  BY DEF Counted, VerdictOf, InWindow, VisitHours
<1>2. all \subseteq Events
  BY DEF Counted, VisitTypes
<1>3. Cardinality(all) <= Bars(v, "rejected") /\ Bars(v, "rejected") \in Nat
  BY DEF RejectionsCharted
<1> HIDE DEF some, all
<1>4. Cardinality(some) <= Cardinality(all)
      /\ Cardinality(some) \in Nat /\ Cardinality(all) \in Nat
  BY <1>1, <1>2, CountsGrow, EventsAreFinite
<1>5. Cardinality(some) <= Bars(v, "rejected")
  BY <1>3, <1>4
<1> QED BY <1>5 DEF some, RecentAreCounted

(* The queries of one Overview page agree, although batches, rollups and    *)
(* sweeps commit between them, some fail and the process restarts: the      *)
(* chart shows at least what the cards and the recent rejections show, and  *)
(* a count without a latency means that rows were deleted                   *)
(* (handlers_dashboard.go:98-146, store/events.go:153-327).                 *)
THEOREM OverviewAgreesHolds == Spec => []OverviewAgrees
<1>1. VisitsInv => OverviewAgrees
  BY RecentAreCharted DEF VisitsInv, VisitOK, OverviewAgrees
<1> QED BY <1>1, VisitsInvInit, VisitsStep, PTL DEF Spec
=============================================================================
