------------------------ MODULE IngestBatcherProofs ------------------------
(***************************************************************************)
(* Proofs about IngestBatcher for any requests, capacity, callers, fates   *)
(* of the transactions and restarts.  QueueOK follows each event from its  *)
(* handler to the table, CallsOK each caller of Flush and Close, and DbOK  *)
(* relates the three tables to the batch being persisted.  StoredInOrder   *)
(* is inductive beside QueueOK, by what a filter does with one more item   *)
(* and with a batch it is to leave out.                                    *)
(***************************************************************************)
EXTENDS IngestBatcher, QueueLemmas

Fates == {"none", "evicted", "refused", "dropped", "stored", "discarded", "crashed"}
Places == {"idle", "send", "evict", "resend", "done", "gone"}
CallStates == {"idle", "calling", "waiting", "done", "gone"}
Storing == {"rollup", "setting"}

BatcherTypeOK ==
    /\ pc \in [Events -> Places]
    /\ status \in [Events -> {0, 202, 400, 401}]
    /\ ch \in Seq(Events)
    /\ rpc \in {"select", "drainChannel", "insert", "returned"} \cup Storing
    /\ pending \in Seq(Events)
    /\ caller \in Callers \cup {None}
    /\ call \in [Callers -> CallStates]
    /\ closed \in BOOLEAN
    /\ rows \in Seq(Events)
    /\ rollups \in [Buckets -> Nat]
    /\ lastIngest \in Nat
    /\ crashes \in Nat
    /\ taken \in Seq(Events)
    /\ fate \in [Events -> Fates]
    /\ before \in [Callers -> SUBSET Events]
    /\ missed \subseteq Events
    /\ stale \in BOOLEAN

-----------------------------------------------------------------------------
LEMMA TypeInit == Init => BatcherTypeOK
<1>1. <<>> \in Seq(Events)
  BY EmptySeq
<1> SUFFICES ASSUME Init PROVE BatcherTypeOK
  OBVIOUS
<1>2. /\ pc \in [Events -> Places] /\ status \in [Events -> {0, 202, 400, 401}]
      /\ fate \in [Events -> Fates]
  BY DEF Init, Places, Fates
<1>3. call \in [Callers -> CallStates] /\ before \in [Callers -> SUBSET Events]
  BY DEF Init, CallStates
<1>4. rollups \in [Buckets -> Nat]
  BY DEF Init
<1> QED BY <1>1, <1>2, <1>3, <1>4 DEF Init, BatcherTypeOK, Storing

\* Where the last event of the batch is, and what the clock said of it.
LEMMA LastElement ==
    ASSUME NEW s \in Seq(Events), s # <<>>
    PROVE  s[Len(s)] \in Events /\ Request[s[Len(s)]].at \in Nat \ {0}
<1>1. Len(s) \in 1..Len(s)
  BY EmptySeq
<1>2. s[Len(s)] \in Events
  BY <1>1, ElementOfSeq
<1> QED BY <1>2, BatcherAssumption DEF Requests

LEMMA OccursIsNat ==
    ASSUME NEW s \in Seq(Events), NEW b PROVE Occurs(s, b) \in Nat
<1>1. DOMAIN s = 1..Len(s) /\ Len(s) \in Nat
  BY LenProperties
<1>2. IsFiniteSet(1..Len(s))
  BY <1>1, FS_Interval
<1>3. IsFiniteSet({i \in DOMAIN s : Request[s[i]].bucket = b})
  BY <1>1, <1>2, FS_Subset
<1> QED BY <1>3, FS_CardinalityType DEF Occurs

LEMMA TypeOfAfterDrain ==
    ASSUME BatcherTypeOK, AfterDrain
    PROVE  /\ pending' = <<>> /\ pending' \in Seq(Events)
           /\ caller' \in Callers \cup {None}
           /\ rpc' \in {"returned", "select"}
           /\ call' \in [Callers -> CallStates]
           /\ \A c \in Callers : call'[c] = call[c] \/ (c = caller /\ call'[c] = "done")
<1>1. <<>> \in Seq(Events)
  BY EmptySeq
<1> QED BY <1>1 DEF AfterDrain, BatcherTypeOK, CallStates

LEMMA TypeStep ==
    ASSUME BatcherTypeOK, [Next]_vars,
           rpc = "setting" => pending # <<>>
    PROVE  BatcherTypeOK'
<1> USE BatcherAssumption DEF Storing, handlerVars, callVars, dbVars
<1>0. /\ pc \in [Events -> Places] /\ status \in [Events -> {0, 202, 400, 401}]
      /\ fate \in [Events -> Fates] /\ ch \in Seq(Events)
  BY DEF BatcherTypeOK
<1>a. ch # <<>> => /\ Head(ch) \in Events /\ Tail(ch) \in Seq(Events)
                   /\ Append(pending, Head(ch)) \in Seq(Events)
                   /\ Append(taken, Head(ch)) \in Seq(Events)
  BY HeadTailProperties, AppendProperties DEF BatcherTypeOK
<1>b. \A e \in Events : Append(ch, e) \in Seq(Events)
  BY AppendProperties DEF BatcherTypeOK
<1>c. <<>> \in Seq(Events) /\ Range(pending) \subseteq Events
  BY EmptySeq, RangeOfSeq DEF BatcherTypeOK
<1>1. ASSUME NEW e \in Events, HandleIngest(e) PROVE BatcherTypeOK'
  <2>1. pc' \in [Events -> Places] /\ status' \in [Events -> {0, 202, 400, 401}]
    BY <1>0, <1>1 DEF HandleIngest, CheckStatus, Places
  <2> QED BY <1>1, <2>1 DEF HandleIngest, BatcherTypeOK
<1>2. ASSUME NEW e \in Events, Enqueue(e) PROVE BatcherTypeOK'
  <2>1. CASE TrySend(e)
    <3>1. pc' \in [Events -> Places] /\ status' \in [Events -> {0, 202, 400, 401}]
      <4>1. CASE Len(ch) < QueueCap
        BY <1>0, <2>1, <4>1 DEF TrySend, Enqueued, Places
      <4>2. CASE ~(Len(ch) < QueueCap)
        BY <1>0, <2>1, <4>2 DEF TrySend, Places
      <4> QED BY <4>1, <4>2
    <3>2. ch' \in Seq(Events)
      BY <1>0, <1>b, <2>1 DEF TrySend
    <3> QED BY <2>1, <3>1, <3>2 DEF TrySend, BatcherTypeOK
  <2>2. CASE EvictOldest(e)
    <3>1. pc' \in [Events -> Places]
      BY <1>0, <2>2 DEF EvictOldest, Places
    <3>0. fate' \in [Events -> Fates]
      BY <1>0, <1>a, <2>2 DEF EvictOldest, Fates
    <3>2. ch' \in Seq(Events)
      BY <1>0, <1>a, <2>2 DEF EvictOldest
    <3> QED BY <2>2, <3>0, <3>1, <3>2 DEF EvictOldest, BatcherTypeOK
  <2>3. CASE Resend(e)
    <3>1. /\ pc' \in [Events -> Places] /\ status' \in [Events -> {0, 202, 400, 401}]
          /\ fate' \in [Events -> Fates]
      BY <1>0, <2>3 DEF Resend, Enqueued, Places, Fates
    <3>2. ch' \in Seq(Events)
      BY <1>0, <1>b, <2>3 DEF Resend
    <3> QED BY <2>3, <3>1, <3>2 DEF Resend, BatcherTypeOK
  <2> QED BY <1>2, <2>1, <2>2, <2>3 DEF Enqueue
<1>3. ASSUME NEW f \in Flushers, CallFlush(f) PROVE BatcherTypeOK'
  BY <1>3 DEF CallFlush, BatcherTypeOK, Callers, CallStates
<1>4. CASE CallClose
  BY <1>4 DEF CallClose, BatcherTypeOK, Callers, CallStates
<1>5. CASE TakeEvent
  BY <1>5, <1>a DEF TakeEvent, BatcherTypeOK
<1>6. CASE Tick
  BY <1>6 DEF Tick, BatcherTypeOK
<1>7. CASE TakeCall
  <2>1. CASE TakeDone
    BY <2>1 DEF TakeDone, BatcherTypeOK, Callers
  <2>2. ASSUME NEW f \in Flushers, TakeFlush(f) PROVE BatcherTypeOK'
    <3>1. call' \in [Callers -> CallStates] /\ caller' \in Callers
      BY <2>2 DEF TakeFlush, BatcherTypeOK, CallStates, Callers
    <3> QED BY <2>2, <3>1 DEF TakeFlush, BatcherTypeOK
  <2> QED BY <1>7, <2>1, <2>2 DEF TakeCall
<1>8. CASE Drain
  <2>1. CASE EndDrainChannel
    BY <2>1, TypeOfAfterDrain DEF EndDrainChannel, BatcherTypeOK
  <2>2. CASE Insert
    <3>1. rows \o pending \in Seq(Events)
      BY ConcatProperties DEF BatcherTypeOK
    <3> QED BY <2>2, <3>1 DEF Insert, BatcherTypeOK, Fates
  <2>3. CASE InsertFails
    BY <2>3, TypeOfAfterDrain DEF InsertFails, BatcherTypeOK, Fates
  <2>4. CASE Rollup
    <3>1. \A b \in Buckets : Occurs(pending, b) \in Nat
      BY OccursIsNat DEF BatcherTypeOK
    <3> QED BY <2>4, <3>1 DEF Rollup, BatcherTypeOK
  <2>5. CASE RollupFails
    BY <2>5, <1>c DEF RollupFails, BatcherTypeOK
  <2>6. CASE SetLastIngest
    <3>1. Request[pending[Len(pending)]].at \in Nat
      BY <2>6, LastElement DEF SetLastIngest, BatcherTypeOK
    <3> QED BY <2>6, <3>1, TypeOfAfterDrain DEF SetLastIngest, BatcherTypeOK
  <2>7. CASE SetLastIngestFails
    BY <2>7, TypeOfAfterDrain DEF SetLastIngestFails, BatcherTypeOK
  <2> QED BY <1>8, <2>1, <2>2, <2>3, <2>4, <2>5, <2>6, <2>7 DEF Drain
<1>9. CASE Restart
  <2>1. pc' \in [Events -> Places] /\ fate' \in [Events -> Fates]
    BY <1>9 DEF Restart, BatcherTypeOK, Places, Fates
  <2>2. call' \in [Callers -> CallStates]
    BY <1>9 DEF Restart, BatcherTypeOK, CallStates
  <2>3. missed' \subseteq Events /\ stale' \in BOOLEAN
    BY <1>9, <1>c DEF Restart, BatcherTypeOK
  <2>4. UNCHANGED <<status, rows, rollups, lastIngest, taken, before>>
    BY <1>9 DEF Restart
  <2>5. /\ ch' = <<>> /\ pending' = <<>> /\ rpc' = "select" /\ caller' = None
        /\ closed' = FALSE /\ crashes' = crashes + 1
    BY <1>9 DEF Restart
  <2>6. crashes' \in Nat /\ ch' \in Seq(Events) /\ pending' \in Seq(Events)
    BY <1>c, <2>5 DEF BatcherTypeOK
  <2>7. /\ status' \in [Events -> {0, 202, 400, 401}] /\ rows' \in Seq(Events)
        /\ rollups' \in [Buckets -> Nat] /\ lastIngest' \in Nat
        /\ taken' \in Seq(Events) /\ before' \in [Callers -> SUBSET Events]
    BY <2>4 DEF BatcherTypeOK
  <2> QED BY <2>1, <2>2, <2>3, <2>5, <2>6, <2>7 DEF BatcherTypeOK
<1>10. CASE UNCHANGED vars
  BY <1>10 DEF vars, BatcherTypeOK
<1> QED
  BY <1>1, <1>2, <1>3, <1>4, <1>5, <1>6, <1>7, <1>8, <1>9, <1>10 DEF Next, Quiet

-----------------------------------------------------------------------------
\* Where an event is, as its handler, the two queues, fate and the table show.
EventOK(e) ==
    /\ status[e] = 202 => pc[e] = "done" /\ CheckStatus(Request[e]) = 202
    /\ pc[e] \in {"send", "evict", "resend"} => CheckStatus(Request[e]) = 202
    /\ status[e] # 202 => e \notin Range(ch) \cup Range(taken) /\ fate[e] = "none"
    /\ e \in Range(ch) => e \notin Range(taken) /\ fate[e] = "none"
    /\ fate[e] \in {"evicted", "refused", "dropped"} => e \notin Range(taken)
    /\ e \in Range(pending) =>
          e \in Range(taken) /\ fate[e] = IF rpc \in Storing THEN "stored" ELSE "none"
    /\ status[e] = 202 /\ fate[e] = "none" => e \in Range(ch) \cup Range(pending)
    /\ e \in Range(rows) <=> fate[e] = "stored"

QueueOK ==
    /\ Len(ch) <= QueueCap
    /\ IsInjective(ch) /\ IsInjective(pending)
    /\ rpc \in {"insert"} \cup Storing => pending # <<>>
    /\ rpc \in {"select", "returned"} => caller = None
    /\ \A e \in Events : EventOK(e)

LEMMA EmptyQueue == Range(<<>>) = {} /\ IsInjective(<<>>) /\ Len(<<>>) = 0
BY DEF Range, IsInjective

LEMMA QueueOKInit == Init => QueueOK
BY EmptyQueue, BatcherAssumption DEF Init, QueueOK, EventOK, Storing

\* The handlers, up to the answer.
LEMMA HandlerKeepsQueueOK ==
    ASSUME BatcherTypeOK, QueueOK, NEW e \in Events, HandleIngest(e) \/ Enqueue(e)
    PROVE  QueueOK'
<1> USE BatcherAssumption DEF handlerVars, callVars, dbVars
<1>0. /\ pc \in [Events -> Places] /\ status \in [Events -> {0, 202, 400, 401}]
      /\ fate \in [Events -> Fates] /\ ch \in Seq(Events) /\ Len(ch) \in Nat
  BY LenProperties DEF BatcherTypeOK
<1>1. EventOK(e) /\ IsInjective(ch) /\ Len(ch) <= QueueCap
  BY DEF QueueOK
<1>a. UNCHANGED <<rpc, pending, caller, taken, rows>>
  BY DEF HandleIngest, Enqueue, TrySend, EvictOldest, Resend
<1>2. ASSUME pc[e] \in {"send", "resend"}, Len(ch) < QueueCap,
             ch' = Append(ch, e), Enqueued(e), fate' = fate
      PROVE  QueueOK'
  <2>1. status[e] # 202 /\ e \notin Range(ch)
    BY <1>1, <1>2 DEF EventOK
  <2>2. Range(ch') = Range(ch) \cup {e} /\ IsInjective(ch') /\ Len(ch') = Len(ch) + 1
    BY <1>0, <1>1, <1>2, <2>1, AppendQueue, AppendProperties
  <2>3. \A x \in Events : EventOK(x)'
    BY <1>0, <1>1, <1>2, <1>a, <2>1, <2>2 DEF Enqueued, QueueOK, EventOK
  <2> QED BY <1>0, <1>2, <1>a, <2>2, <2>3 DEF QueueOK
<1>3. CASE HandleIngest(e)
  <2>1. \A x \in Events : EventOK(x)'
    BY <1>0, <1>1, <1>3, <1>a DEF HandleIngest, QueueOK, EventOK
  <2> QED BY <1>3, <1>a, <2>1 DEF HandleIngest, QueueOK
<1>4. CASE TrySend(e) /\ ~(Len(ch) < QueueCap)
  <2>1. \A x \in Events : EventOK(x)'
    BY <1>0, <1>1, <1>4, <1>a DEF TrySend, QueueOK, EventOK
  <2> QED BY <1>4, <1>a, <2>1 DEF TrySend, QueueOK
<1>5. CASE EvictOldest(e)
  <2>1. pc[e] = "evict" /\ pc' = [pc EXCEPT ![e] = "resend"] /\ UNCHANGED status
    BY <1>5 DEF EvictOldest
  <2>2. CASE ch = <<>>
    <3>1. UNCHANGED <<ch, fate>>
      BY <1>5, <2>2 DEF EvictOldest
    <3>2. \A x \in Events : EventOK(x)'
      BY <1>0, <1>1, <1>a, <2>1, <3>1 DEF QueueOK, EventOK
    <3> QED BY <1>a, <3>1, <3>2 DEF QueueOK
  <2>3. CASE ch # <<>>
    <3>1. ch' = Tail(ch) /\ fate' = [fate EXCEPT ![Head(ch)] = "evicted"]
      BY <1>5, <2>3 DEF EvictOldest
    <3>2. /\ Head(ch) \in Events /\ Head(ch) \in Range(ch)
          /\ Range(ch') = Range(ch) \ {Head(ch)}
          /\ IsInjective(ch') /\ Len(ch') = Len(ch) - 1
      BY <1>0, <1>1, <2>3, <3>1, TailQueue
    <3>3. \A x \in Events : EventOK(x)'
      BY <1>0, <1>1, <1>a, <2>1, <3>1, <3>2 DEF QueueOK, EventOK
    <3> QED BY <1>0, <1>1, <1>a, <3>2, <3>3 DEF QueueOK
  <2> QED BY <2>2, <2>3
<1>6. CASE Resend(e) /\ ~(Len(ch) < QueueCap)
  <2>1. \A x \in Events : EventOK(x)'
    BY <1>0, <1>1, <1>6, <1>a DEF Resend, Enqueued, QueueOK, EventOK
  <2> QED BY <1>6, <1>a, <2>1 DEF Resend, QueueOK
<1> QED BY <1>2, <1>3, <1>4, <1>5, <1>6 DEF Enqueue, TrySend, Resend

\* AfterDrain forgets a batch whose events have met their fate.
LEMMA AfterDrainKeepsQueueOK ==
    ASSUME BatcherTypeOK, QueueOK, AfterDrain,
           UNCHANGED <<pc, status, ch, rows, taken>>, fate' \in [Events -> Fates],
           \A e \in Events :
              IF e \in Range(pending)
              THEN /\ fate'[e] \in {"stored", "discarded"}
                   /\ fate'[e] = "stored" <=> fate[e] = "stored"
              ELSE fate'[e] = fate[e]
    PROVE  QueueOK'
<1>1. /\ pending' = <<>> /\ Range(pending') = {} /\ IsInjective(pending')
      /\ rpc' \in {"select", "returned"} /\ caller' = None
  BY EmptyQueue DEF AfterDrain
<1>2. \A e \in Events : EventOK(e)'
  <2> TAKE e \in Events
  <2>1. EventOK(e)
    BY DEF QueueOK
  <2>2. UNCHANGED <<pc, status, ch, rows, taken>>
    OBVIOUS
  <2>3. CASE e \in Range(pending)
    BY <1>1, <2>1, <2>2, <2>3 DEF EventOK
  <2>4. CASE e \notin Range(pending)
    BY <1>1, <2>1, <2>2, <2>4 DEF EventOK
  <2> QED BY <2>3, <2>4
<1> QED BY <1>1, <1>2 DEF QueueOK, Storing

\* run: receiving, and persisting a batch.
LEMMA RunKeepsQueueOK ==
    ASSUME BatcherTypeOK, QueueOK, TakeEvent \/ Tick \/ TakeCall \/ Drain
    PROVE  QueueOK'
<1> USE BatcherAssumption DEF handlerVars, callVars, dbVars
<1>0. /\ fate \in [Events -> Fates] /\ ch \in Seq(Events) /\ Len(ch) \in Nat
      /\ pending \in Seq(Events) /\ taken \in Seq(Events) /\ rows \in Seq(Events)
      /\ Range(pending) \subseteq Events
  BY LenProperties, RangeOfSeq DEF BatcherTypeOK
<1>1. /\ IsInjective(ch) /\ IsInjective(pending) /\ Len(ch) <= QueueCap
      /\ \A e \in Events : EventOK(e)
  BY DEF QueueOK
<1>2. CASE TakeEvent
  <2>1. /\ rpc \in {"select", "drainChannel"} /\ ch # <<>> /\ ch' = Tail(ch)
        /\ pending' = Append(pending, Head(ch)) /\ taken' = Append(taken, Head(ch))
        /\ UNCHANGED <<pc, status, rpc, caller, rows, fate>>
    BY <1>2 DEF TakeEvent
  <2>2. /\ Head(ch) \in Events /\ Head(ch) \in Range(ch)
        /\ Range(ch') = Range(ch) \ {Head(ch)}
        /\ IsInjective(ch') /\ Len(ch') = Len(ch) - 1
    BY <1>0, <1>1, <2>1, TailQueue
  <2>3. Head(ch) \notin Range(pending)
    BY <1>1, <2>2 DEF EventOK
  <2>4. /\ Range(pending') = Range(pending) \cup {Head(ch)} /\ IsInjective(pending')
        /\ Range(taken') = Range(taken) \cup {Head(ch)} /\ pending' # <<>>
    BY <1>0, <1>1, <2>1, <2>2, <2>3, AppendQueue, AppendProperties
  <2>5. \A e \in Events : EventOK(e)'
    BY <1>1, <2>1, <2>2, <2>4 DEF EventOK, Storing
  <2> QED BY <1>0, <1>1, <2>1, <2>2, <2>4, <2>5 DEF QueueOK
<1>3. CASE Tick
  <2>1. \A e \in Events : EventOK(e)'
    BY <1>1, <1>3 DEF Tick, EventOK, Storing
  <2> QED BY <1>1, <1>3, <2>1 DEF Tick, QueueOK, Storing
<1>4. CASE TakeCall
  <2>1. /\ rpc = "select" /\ rpc' = "drainChannel"
        /\ UNCHANGED <<pc, status, ch, pending, rows, taken, fate>>
    BY <1>4 DEF TakeCall, TakeDone, TakeFlush
  <2>2. \A e \in Events : EventOK(e)'
    BY <1>1, <2>1 DEF EventOK, Storing
  <2> QED BY <1>1, <2>1, <2>2 DEF QueueOK, Storing
<1>5. CASE EndDrainChannel
  <2>1. CASE pending = <<>>
    <3>1. AfterDrain /\ UNCHANGED <<pc, status, ch, rows, taken, fate>>
      BY <1>5, <2>1 DEF EndDrainChannel
    <3> QED BY <1>0, <2>1, <3>1, AfterDrainKeepsQueueOK, EmptyQueue
  <2>2. CASE pending # <<>>
    <3>1. /\ rpc = "drainChannel" /\ rpc' = "insert"
          /\ UNCHANGED <<pc, status, ch, pending, caller, rows, taken, fate>>
      BY <1>5, <2>2 DEF EndDrainChannel
    <3>2. \A e \in Events : EventOK(e)'
      BY <1>1, <3>1 DEF EventOK, Storing
    <3> QED BY <1>1, <2>2, <3>1, <3>2 DEF QueueOK, Storing
  <2> QED BY <2>1, <2>2
<1>6. CASE Insert
  <2>1. /\ rpc = "insert" /\ rpc' = "rollup" /\ rows' = rows \o pending
        /\ fate' = [e \in Events |-> IF e \in Range(pending) THEN "stored" ELSE fate[e]]
        /\ UNCHANGED <<pc, status, ch, pending, caller, taken>>
    BY <1>6 DEF Insert
  <2>2. Range(rows') = Range(rows) \cup Range(pending)
    BY <1>0, <2>1, RangeConcatenation
  <2>3. \A e \in Events : EventOK(e)'
    BY <1>1, <2>1, <2>2 DEF EventOK, Storing
  <2>4. pending # <<>>
    BY <2>1 DEF QueueOK
  <2> QED BY <1>1, <2>1, <2>3, <2>4 DEF QueueOK, Storing
<1>7. CASE InsertFails
  <2>1. /\ rpc = "insert" /\ AfterDrain /\ UNCHANGED <<pc, status, ch, rows, taken>>
        /\ fate' = [e \in Events |-> IF e \in Range(pending) THEN "discarded" ELSE fate[e]]
    BY <1>7 DEF InsertFails
  <2>2. \A e \in Range(pending) : fate[e] = "none"
    BY <1>0, <1>1, <2>1 DEF EventOK, Storing
  <2>3. fate' \in [Events -> Fates]
    BY <1>0, <2>1 DEF Fates
  <2> QED BY <2>1, <2>2, <2>3, AfterDrainKeepsQueueOK
<1>8. CASE Rollup \/ RollupFails
  <2>1. /\ rpc = "rollup" /\ rpc' = "setting"
        /\ UNCHANGED <<pc, status, ch, pending, caller, rows, taken, fate>>
    BY <1>8 DEF Rollup, RollupFails
  <2>2. \A e \in Events : EventOK(e)'
    BY <1>1, <2>1 DEF EventOK, Storing
  <2>3. pending # <<>>
    BY <2>1 DEF QueueOK, Storing
  <2> QED BY <1>1, <2>1, <2>2, <2>3 DEF QueueOK, Storing
<1>9. CASE SetLastIngest \/ SetLastIngestFails
  <2>1. /\ rpc = "setting" /\ AfterDrain
        /\ UNCHANGED <<pc, status, ch, rows, taken, fate>>
    BY <1>9 DEF SetLastIngest, SetLastIngestFails
  <2>2. \A e \in Range(pending) : fate[e] = "stored"
    BY <1>0, <1>1, <2>1 DEF EventOK, Storing
  <2> QED BY <1>0, <2>1, <2>2, AfterDrainKeepsQueueOK
<1> QED BY <1>2, <1>3, <1>4, <1>5, <1>6, <1>7, <1>8, <1>9 DEF Drain

\* A restart loses the channel and a batch not yet stored, and says so.
LEMMA RestartKeepsQueueOK ==
    ASSUME BatcherTypeOK, QueueOK, Restart PROVE QueueOK'
<1>1. /\ ch' = <<>> /\ pending' = <<>> /\ rpc' = "select" /\ caller' = None
      /\ UNCHANGED <<status, rows, taken>>
  BY DEF Restart
<1>2. ASSUME NEW e \in Events PROVE EventOK(e)'
  <2>1. EventOK(e)
    BY DEF QueueOK
  <2>2. pc'[e] = IF pc[e] \in {"idle", "done"} THEN pc[e] ELSE "gone"
    BY DEF Restart
  <2>3. fate'[e] = IF e \in Range(ch) THEN "dropped"
                   ELSE IF e \in Range(pending) /\ fate[e] = "none" THEN "crashed"
                   ELSE fate[e]
    BY DEF Restart
  <2> QED BY <1>1, <2>1, <2>2, <2>3, EmptyQueue DEF EventOK, Storing
<1> QED BY <1>1, <1>2, EmptyQueue, BatcherAssumption DEF QueueOK, Storing

LEMMA QueueOKStep == BatcherTypeOK /\ QueueOK /\ [Next]_vars => QueueOK'
<1> SUFFICES ASSUME BatcherTypeOK, QueueOK, [Next]_vars PROVE QueueOK'
  OBVIOUS
<1>1. ASSUME (\E f \in Flushers : CallFlush(f)) \/ CallClose \/ UNCHANGED vars
      PROVE  QueueOK'
  <2>1. UNCHANGED <<pc, status, ch, rpc, pending, caller, rows, taken, fate>>
    BY <1>1 DEF CallFlush, CallClose, vars, handlerVars, callVars, dbVars
  <2> QED BY <2>1 DEF QueueOK, EventOK
<1> QED
  BY <1>1, HandlerKeepsQueueOK, RunKeepsQueueOK, RestartKeepsQueueOK DEF Next, Quiet

-----------------------------------------------------------------------------
LEMMA InvStep ==
    BatcherTypeOK /\ QueueOK /\ [Next]_vars => BatcherTypeOK' /\ QueueOK'
BY TypeStep, QueueOKStep DEF QueueOK, Storing

LEMMA TypeAndQueue == Spec => [](BatcherTypeOK /\ QueueOK)
BY TypeInit, QueueOKInit, InvStep, PTL DEF Spec

(* A request that fails a check never reaches the channel or the database, *)
(* and one that was answered 202 is queued, pending, stored, or lost for a *)
(* known reason, for any interleaving of handlers, run and restarts        *)
(* (handlers_api.go:11-15; batcher.go:52-69).                              *)
THEOREM AcceptedIsAccountedForHolds == Spec => []AcceptedIsAccountedFor
<1>1. BatcherTypeOK /\ QueueOK => AcceptedIsAccountedFor
  <2> SUFFICES ASSUME BatcherTypeOK, QueueOK, NEW e \in Events
               PROVE  AcceptedIsAccountedFor!(e)
    BY DEF AcceptedIsAccountedFor
  <2>1. EventOK(e)
    BY DEF QueueOK
  <2>2. Range(Unstored) = IF rpc \in Storing THEN {} ELSE Range(pending)
    BY EmptyQueue DEF Unstored, Storing
  <2>3. status[e] = 202 =>
           (e \notin Range(ch) \cup Range(Unstored)) = (fate[e] # "none")
    BY <2>1, <2>2 DEF EventOK
  <2>4. ASSUME e \in Range(ch) \cup Range(taken)
        PROVE  LET q == Request[e]
               IN status[e] = 202 /\ q.readable /\ q.toConsole /\ q.signed /\ q.decodes
    <3>1. status[e] = 202 /\ CheckStatus(Request[e]) = 202
      BY <2>1, <2>4 DEF EventOK
    <3>2. Request[e] \in Requests
      BY BatcherAssumption
    <3> QED BY <3>1, <3>2 DEF CheckStatus, Requests
  <2> QED BY <2>3, <2>4
<1> QED BY <1>1, TypeAndQueue, PTL

-----------------------------------------------------------------------------
LEMMA FeedStep ==
    BatcherTypeOK /\ QueueOK /\ [Next]_vars => [Feed!Next]_(Feed!feedVars)
<1> SUFFICES ASSUME BatcherTypeOK, QueueOK, [Next]_vars
             PROVE  Feed!Next \/ UNCHANGED <<ch, taken, Lost>>
  BY DEF Feed!feedVars
<1> USE BatcherAssumption DEF handlerVars, callVars, dbVars
<1>0. /\ fate \in [Events -> Fates] /\ ch \in Seq(Events) /\ Len(ch) \in Nat
      /\ Len(ch) <= QueueCap /\ \A e \in Events : EventOK(e)
      /\ Range(ch) \subseteq Events /\ Range(pending) \subseteq Events
  BY LenProperties, RangeOfSeq DEF BatcherTypeOK, QueueOK
<1>1. ch # <<>> => Head(ch) \in Events
  BY <1>0, TailQueue
<1>a. ASSUME NEW e \in Events, pc[e] \in {"send", "evict", "resend"}
      PROVE  Feed!Fresh(e)
  <2>1. status[e] # 202 /\ fate[e] = "none" /\ e \notin Range(ch) \cup Range(taken)
    BY <1>0, <1>a DEF EventOK
  <2> QED BY <2>1 DEF Feed!Fresh, Feed!Range, Range, Lost
<1>2. ASSUME NEW e \in Events, HandleIngest(e)
      PROVE  UNCHANGED <<ch, taken, Lost>>
  BY <1>2 DEF HandleIngest, Lost
<1>3. ASSUME NEW e \in Events, TrySend(e)
      PROVE  Feed!Accept(e) \/ UNCHANGED <<ch, taken, Lost>>
  <2>1. UNCHANGED <<taken, Lost>> /\ Feed!Fresh(e)
    BY <1>3, <1>a DEF TrySend, Lost
  <2> QED BY <1>3, <2>1 DEF TrySend, Feed!Accept
<1>4. ASSUME NEW e \in Events, EvictOldest(e)
      PROVE  Feed!DropOldest \/ UNCHANGED <<ch, taken, Lost>>
  <2>1. CASE ch = <<>>
    BY <1>4, <2>1 DEF EvictOldest, Lost
  <2>2. CASE ch # <<>>
    <3>1. Lost' = Lost \cup {Head(ch)}
      BY <1>0, <1>1, <1>4, <2>2 DEF EvictOldest, Lost
    <3> QED BY <1>4, <2>2, <3>1 DEF EvictOldest, Feed!DropOldest
  <2> QED BY <2>1, <2>2
<1>5. ASSUME NEW e \in Events, Resend(e)
      PROVE  Feed!Accept(e) \/ Feed!Refuse(e)
  <2>1. UNCHANGED taken /\ Feed!Fresh(e)
    BY <1>5, <1>a DEF Resend
  <2>2. CASE Len(ch) < QueueCap
    BY <1>5, <2>1, <2>2 DEF Resend, Feed!Accept, Lost
  <2>3. CASE ~(Len(ch) < QueueCap)
    <3>1. Lost' = Lost \cup {e} /\ Len(ch) = QueueCap
      BY <1>0, <1>5, <2>3 DEF Resend, Lost
    <3> QED BY <1>5, <2>1, <2>3, <3>1 DEF Resend, Feed!Refuse
  <2> QED BY <2>2, <2>3
<1>6. ASSUME TakeEvent PROVE Feed!Take
  BY <1>6 DEF TakeEvent, Feed!Take, Lost
<1>7. ASSUME Insert \/ InsertFails PROVE UNCHANGED <<ch, taken, Lost>>
  <2>1. \A e \in Range(pending) : fate[e] = "none" /\ fate'[e] \in {"stored", "discarded"}
    BY <1>0, <1>7 DEF Insert, InsertFails, EventOK, Storing
  <2>2. \A e \in Events \ Range(pending) : fate'[e] = fate[e]
    BY <1>7 DEF Insert, InsertFails
  <2>3. Lost' = Lost
    BY <1>0, <2>1, <2>2 DEF Lost
  <2> QED BY <1>7, <2>3 DEF Insert, InsertFails
<1>8. ASSUME Tick \/ TakeCall \/ EndDrainChannel \/ Rollup \/ RollupFails
                \/ SetLastIngest \/ SetLastIngestFails
      PROVE  UNCHANGED <<ch, taken, Lost>>
  BY <1>8 DEF Tick, TakeCall, TakeDone, TakeFlush, EndDrainChannel, Rollup, RollupFails,
       SetLastIngest, SetLastIngestFails, Lost
<1>9. ASSUME Restart PROVE Feed!Restart \/ UNCHANGED <<ch, taken, Lost>>
  <2>1. MaxCrashes > 0 /\ ch' = <<>> /\ UNCHANGED taken
    BY <1>9 DEF Restart, BatcherTypeOK
  <2>2. \A e \in Events : fate'[e] = IF e \in Range(ch) THEN "dropped"
                                     ELSE IF e \in Range(pending) /\ fate[e] = "none"
                                          THEN "crashed" ELSE fate[e]
    BY <1>9 DEF Restart
  <2>3. Lost' = Lost \cup Range(ch)
    BY <1>0, <2>2 DEF Lost
  <2>4. CASE ch = <<>>
    BY <2>1, <2>3, <2>4, EmptyQueue
  <2>5. CASE ch # <<>>
    <3>1. Feed!Range(ch) = Range(ch)
      BY DEF Feed!Range, Range
    <3> QED BY <2>1, <2>3, <2>5, <3>1 DEF Feed!Restart
  <2> QED BY <2>4, <2>5
<1>10. ASSUME (\E f \in Flushers : CallFlush(f)) \/ CallClose \/ UNCHANGED vars
       PROVE  UNCHANGED <<ch, taken, Lost>>
  BY <1>10 DEF CallFlush, CallClose, vars, Lost
<1>11. ASSUME NEW e \in Events, HandleIngest(e) \/ Enqueue(e)
       PROVE  Feed!Next \/ UNCHANGED <<ch, taken, Lost>>
  BY <1>2, <1>3, <1>4, <1>5, <1>11 DEF Enqueue, Feed!Next
<1> QED
  BY <1>6, <1>7, <1>8, <1>9, <1>10, <1>11 DEF Next, Drain, Quiet, Feed!Next

(* The batcher implements the best-effort feed for every capacity, number  *)
(* of requests and restarts: events are received at most once and in the   *)
(* order they were queued, and only the oldest queued event, one refused   *)
(* by a full channel, or those queued at a restart are lost                *)
(* (batcher.go:52-69, 86-124).                                             *)
THEOREM BatcherImplementsFeed == Spec => ImplementsFeed
<1>1. Init => Feed!Init
  BY DEF Init, Feed!Init, Lost
<1> QED BY <1>1, FeedStep, TypeAndQueue, PTL DEF Spec, ImplementsFeed, Feed!Spec

-----------------------------------------------------------------------------
\* A call that run is serving, or has served, leaves none of the events
\* answered before it in the channel, nor, once served, in memory.
CallsOK ==
    /\ caller # None => call[caller] # "idle"
    /\ closed => call[Closer] # "idle"
    /\ \A c \in Callers : \A e \in before[c] : status[e] = 202
    /\ caller # None /\ rpc \in {"insert"} \cup Storing =>
          before[caller] \cap Range(ch) = {}
    /\ FlushLeavesNothingBehind

LEMMA CallsOKInit == Init => CallsOK
<1> SUFFICES ASSUME Init PROVE CallsOK
  OBVIOUS
<1> QED BY DEF Init, CallsOK, FlushLeavesNothingBehind, Callers

\* The end of a drain, with the channel empty of what its caller waits for.
LEMMA AfterDrainKeepsCallsOK ==
    ASSUME BatcherTypeOK, QueueOK, CallsOK, AfterDrain,
           UNCHANGED <<status, ch, closed, before>>,
           caller # None => before[caller] \cap Range(ch) = {}
    PROVE  CallsOK'
<1>1. /\ pending' = <<>> /\ Range(pending') = {} /\ caller' = None
      /\ rpc' \in {"returned", "select"}
      /\ \A c \in Callers : call'[c] = call[c] \/ (c = caller /\ call'[c] = "done")
  BY TypeOfAfterDrain, EmptyQueue DEF AfterDrain
<1>2. FlushLeavesNothingBehind'
  <2> SUFFICES ASSUME NEW c \in Callers, call'[c] = "done"
               PROVE  before[c] \cap Range(ch) = {}
    BY <1>1 DEF FlushLeavesNothingBehind
  <2>1. CASE call[c] = "done"
    BY <2>1 DEF CallsOK, FlushLeavesNothingBehind
  <2>2. CASE c = caller
    BY <2>2, BatcherAssumption DEF Callers
  <2> QED BY <1>1, <2>1, <2>2
<1>3. closed => call'[Closer] # "idle"
  BY <1>1 DEF CallsOK, Callers
<1> QED BY <1>1, <1>2, <1>3 DEF CallsOK, Storing

LEMMA CallsOKStep ==
    BatcherTypeOK /\ QueueOK /\ CallsOK /\ [Next]_vars => CallsOK'
<1> SUFFICES ASSUME BatcherTypeOK, QueueOK, CallsOK, [Next]_vars PROVE CallsOK'
  OBVIOUS
<1> USE BatcherAssumption DEF handlerVars, callVars, dbVars
<1>0. /\ status \in [Events -> {0, 202, 400, 401}] /\ ch \in Seq(Events)
      /\ pending \in Seq(Events) /\ before \in [Callers -> SUBSET Events]
      /\ call \in [Callers -> CallStates] /\ caller \in Callers \cup {None}
      /\ Closer \in Callers /\ None \notin Callers
  BY DEF BatcherTypeOK, Callers
<1>1. ASSUME NEW e \in Events, HandleIngest(e) \/ Enqueue(e) PROVE CallsOK'
  <2>1. UNCHANGED <<rpc, pending, callVars>>
    BY <1>1 DEF HandleIngest, Enqueue, TrySend, EvictOldest, Resend
  <2>2. status[e] # 202 /\ \A x \in Events \ {e} : status'[x] = status[x]
    <3>1. pc[e] # "done"
      BY <1>1 DEF HandleIngest, Enqueue, TrySend, EvictOldest, Resend
    <3> QED BY <1>0, <1>1, <3>1
      DEF QueueOK, EventOK, HandleIngest, Enqueue, TrySend, EvictOldest, Resend, Enqueued
  <2>3. \A c \in Callers : e \notin before[c] /\ before[c] \subseteq Events
    BY <1>0, <2>2 DEF CallsOK
  <2>4. Range(ch') \subseteq Range(ch) \cup {e}
    <3>1. ch' = Append(ch, e) => Range(ch') = Range(ch) \cup {e}
      BY <1>0, AppendQueue
    <3>2. ch # <<>> /\ ch' = Tail(ch) => Range(ch') \subseteq Range(ch)
      BY <1>0, TailQueue
    <3>3. ch' = ch \/ ch' = Append(ch, e) \/ (ch # <<>> /\ ch' = Tail(ch))
      BY <1>1 DEF HandleIngest, Enqueue, TrySend, EvictOldest, Resend
    <3> QED BY <3>1, <3>2, <3>3
  <2>5. FlushLeavesNothingBehind'
    BY <2>1, <2>3, <2>4 DEF CallsOK, FlushLeavesNothingBehind
  <2>6. \A c \in Callers : \A x \in before[c] : status'[x] = 202
    BY <2>2, <2>3 DEF CallsOK
  <2>7. caller # None /\ rpc \in {"insert"} \cup Storing =>
           before[caller] \cap Range(ch') = {}
    BY <1>0, <2>3, <2>4 DEF CallsOK
  <2> QED BY <2>1, <2>5, <2>6, <2>7 DEF CallsOK
<1>2. ASSUME NEW c \in Callers, CallFlush(c) \/ (CallClose /\ c = Closer)
      PROVE  CallsOK'
  <2>1. /\ call[c] = "idle" /\ before' = [before EXCEPT ![c] = {e \in Events : status[e] = 202}]
        /\ UNCHANGED <<status, ch, rpc, pending, caller>>
        /\ \E s \in {"calling", "waiting"} : call' = [call EXCEPT ![c] = s]
        /\ closed' => closed \/ c = Closer
    BY <1>2 DEF CallFlush, CallClose
  <2>2. c # caller
    BY <1>0, <2>1 DEF CallsOK
  <2>3. call'[c] \notin {"idle", "done"} /\ \A d \in Callers \ {c} : call'[d] = call[d]
    BY <1>0, <2>1
  <2>4. /\ \A d \in Callers \ {c} : before'[d] = before[d]
        /\ before'[c] = {e \in Events : status[e] = 202}
    BY <1>0, <2>1
  <2>5. FlushLeavesNothingBehind'
    BY <2>1, <2>3, <2>4 DEF CallsOK, FlushLeavesNothingBehind
  <2>6. \A d \in Callers : \A e \in before'[d] : status[e] = 202
    BY <2>4 DEF CallsOK
  <2> QED BY <1>0, <2>1, <2>2, <2>3, <2>4, <2>5, <2>6 DEF CallsOK
<1>3. CASE TakeEvent
  <2>1. /\ rpc \in {"select", "drainChannel"} /\ ch # <<>> /\ ch' = Tail(ch)
        /\ pending' = Append(pending, Head(ch)) /\ UNCHANGED <<status, rpc, callVars>>
    BY <1>3 DEF TakeEvent
  <2>2. Head(ch) \in Events /\ Head(ch) \in Range(ch) /\ Range(ch') \subseteq Range(ch)
    BY <1>0, <2>1, TailQueue
  <2>3. Range(pending') = Range(pending) \cup {Head(ch)}
    BY <1>0, <2>1, <2>2, AppendQueue
  <2>4. FlushLeavesNothingBehind'
    BY <2>1, <2>2, <2>3 DEF CallsOK, FlushLeavesNothingBehind
  <2> QED BY <2>1, <2>4 DEF CallsOK, Storing
<1>4. CASE Tick
  <2>1. /\ rpc = "select" /\ UNCHANGED <<status, ch, pending, callVars>>
    BY <1>4 DEF Tick
  <2>2. caller = None
    BY <2>1 DEF QueueOK
  <2> QED BY <2>1, <2>2 DEF CallsOK, FlushLeavesNothingBehind
<1>5. CASE TakeCall
  <2>1. /\ rpc' = "drainChannel" /\ UNCHANGED <<status, ch, pending, closed, before>>
        /\ \/ closed /\ caller' = Closer /\ call' = call
           \/ \E f \in Flushers : /\ caller' = f
                                   /\ call' = [call EXCEPT ![f] = "waiting"]
    BY <1>5 DEF TakeCall, TakeDone, TakeFlush
  <2>2. /\ caller' \in Callers /\ call'[caller'] # "idle"
        /\ \A d \in Callers : call'[d] \in {call[d], "waiting"}
    BY <1>0, <2>1 DEF CallsOK, Callers
  <2>3. FlushLeavesNothingBehind'
    BY <2>1, <2>2 DEF CallsOK, FlushLeavesNothingBehind
  <2>4. closed' => call'[Closer] # "idle"
    BY <1>0, <2>1, <2>2 DEF CallsOK
  <2> QED BY <2>1, <2>2, <2>3, <2>4 DEF CallsOK, Storing
<1>6. CASE EndDrainChannel
  <2>1. /\ ch = <<>> /\ Range(ch) = {} /\ UNCHANGED <<status, ch, closed, before>>
    BY <1>6, EmptyQueue DEF EndDrainChannel
  <2>2. CASE pending = <<>>
    BY <1>6, <2>1, <2>2, AfterDrainKeepsCallsOK DEF EndDrainChannel
  <2>3. CASE pending # <<>>
    <3>1. UNCHANGED <<pending, caller, call>>
      BY <1>6, <2>3 DEF EndDrainChannel
    <3> QED BY <2>1, <3>1 DEF CallsOK, FlushLeavesNothingBehind
  <2> QED BY <2>2, <2>3
<1>7. CASE Insert \/ Rollup \/ RollupFails
  <2>1. /\ rpc \in {"insert"} \cup Storing /\ UNCHANGED <<status, ch, pending, callVars>>
    BY <1>7 DEF Insert, Rollup, RollupFails, Storing
  <2> QED BY <2>1 DEF CallsOK, FlushLeavesNothingBehind
<1>8. CASE InsertFails \/ SetLastIngest \/ SetLastIngestFails
  <2>1. /\ rpc \in {"insert"} \cup Storing /\ AfterDrain
        /\ UNCHANGED <<status, ch, closed, before>>
    BY <1>8 DEF InsertFails, SetLastIngest, SetLastIngestFails, Storing
  <2> QED BY <2>1, AfterDrainKeepsCallsOK DEF CallsOK
<1>9. CASE Restart
  <2>1. /\ ch' = <<>> /\ pending' = <<>> /\ rpc' = "select" /\ caller' = None
        /\ closed' = FALSE /\ UNCHANGED <<status, before>>
    BY <1>9 DEF Restart
  <2> QED BY <2>1, EmptyQueue DEF CallsOK, FlushLeavesNothingBehind, Storing
<1>10. CASE UNCHANGED vars
  BY <1>10 DEF vars, CallsOK, FlushLeavesNothingBehind
<1>11. Flushers \subseteq Callers
  BY DEF Callers
<1> QED
  BY <1>0, <1>1, <1>2, <1>3, <1>4, <1>5, <1>6, <1>7, <1>8, <1>9, <1>10, <1>11
  DEF Next, Drain, Quiet

(* When Flush or Close returns, run has dealt with every event answered    *)
(* 202 before the call, whatever was enqueued, ticked or failed meanwhile  *)
(* (batcher.go:98-108).                                                    *)
THEOREM FlushLeavesNothingBehindHolds == Spec => []FlushLeavesNothingBehind
<1>1. CallsOK => FlushLeavesNothingBehind
  BY DEF CallsOK
<1> QED BY <1>1, CallsOKInit, CallsOKStep, TypeAndQueue, PTL DEF Spec

-----------------------------------------------------------------------------
\* The tables, and how far the batch being persisted has got.
Counted(b) == {e \in Range(rows) \ NotRolledUp : Request[e].bucket = b}

DbOK ==
    /\ missed \subseteq Range(rows)
    /\ rpc = "rollup" => Range(pending) \cap missed = {}
    /\ rpc \in Storing =>
          rows # <<>> /\ rows[Len(rows)] = pending[Len(pending)]
    /\ RollupsMatchEvents
    /\ LastIngestIsStored

LEMMA DbOKInit == Init => DbOK
<1> SUFFICES ASSUME Init PROVE DbOK
  OBVIOUS
<1>1. \A b \in Buckets : Cardinality(Counted(b)) = 0
  <2>1. Range(rows) = {}
    BY EmptyQueue DEF Init
  <2>2. \A b \in Buckets : Counted(b) = {}
    BY <2>1 DEF Counted
  <2> QED BY <2>2, FS_EmptySet
<1>2. RollupsMatchEvents
  BY <1>1 DEF RollupsMatchEvents, Counted, Init
<1> QED BY <1>2 DEF Init, DbOK, LastIngestIsStored, Storing

(* rollupDeltas counts the events of a batch, as no event is in it twice.  *)
LEMMA OccursCounts ==
    ASSUME NEW s \in Seq(Events), IsInjective(s), NEW b
    PROVE  Occurs(s, b) = Cardinality({e \in Range(s) : Request[e].bucket = b})
<1> DEFINE D == {i \in DOMAIN s : Request[s[i]].bucket = b}
           R == {e \in Range(s) : Request[e].bucket = b}
           f == [i \in D |-> s[i]]
<1>1. DOMAIN s = 1..Len(s) /\ Len(s) \in Nat
  BY LenProperties
<1>2. f \in Bijection(D, R)
  BY DEF Bijection, Injection, Surjection, IsInjective, Range
<1>3. IsFiniteSet(D)
  <2>1. IsFiniteSet(1..Len(s)) /\ D \subseteq 1..Len(s)
    BY <1>1, FS_Interval
  <2> QED BY <2>1, FS_Subset
<1>4. ExistsBijection(D, R)
  BY <1>2 DEF ExistsBijection
<1> QED BY <1>3, <1>4, FS_Bijection DEF Occurs

\* A step that leaves the tables and what is missing from them alone.
LEMMA SameTables ==
    ASSUME DbOK, UNCHANGED <<rows, rollups, missed>>,
           rpc # "rollup", rpc' # "rollup"
    PROVE  RollupsMatchEvents'
BY DEF DbOK, RollupsMatchEvents, NotRolledUp

LEMMA InsertKeepsDbOK ==
    ASSUME BatcherTypeOK, QueueOK, DbOK, Insert PROVE DbOK'
<1> USE BatcherAssumption DEF handlerVars, callVars, dbVars
<1>0. /\ rows \in Seq(Events) /\ pending \in Seq(Events) /\ pending # <<>>
      /\ Range(rows) \subseteq Events /\ Range(pending) \subseteq Events
      /\ \A e \in Events : EventOK(e)
  BY RangeOfSeq DEF BatcherTypeOK, QueueOK, Insert
<1>1. /\ rpc = "insert" /\ rpc' = "rollup" /\ rows' = rows \o pending
      /\ UNCHANGED <<pending, rollups, missed, lastIngest>>
  BY DEF Insert
<1>2. Range(rows') = Range(rows) \cup Range(pending)
  BY <1>0, <1>1, RangeConcatenation
<1>3. Range(pending) \cap Range(rows) = {}
  BY <1>0, <1>1 DEF EventOK, Storing
<1>4. RollupsMatchEvents'
  <2>1. \A b \in Buckets : Counted(b)' = Counted(b)
    BY <1>1, <1>2, <1>3 DEF Counted, NotRolledUp
  <2>2. \A b \in Buckets : rollups'[b] = Cardinality(Counted(b)')
    BY <1>1, <2>1 DEF DbOK, RollupsMatchEvents, Counted
  <2> QED BY <2>2 DEF RollupsMatchEvents, Counted
<1>5. rows' # <<>> /\ rows'[Len(rows')] = pending[Len(pending)]
  <2>1. /\ Len(rows) \in Nat /\ Len(pending) \in Nat \ {0}
        /\ rows' \in Seq(Events) /\ Len(rows') = Len(rows) + Len(pending)
        /\ \A i \in 1..Len(rows) + Len(pending) :
              rows'[i] = IF i <= Len(rows) THEN rows[i] ELSE pending[i - Len(rows)]
    BY <1>0, <1>1, LenProperties, EmptySeq, ConcatProperties
  <2>2. rows' # <<>>
    BY <2>1, EmptySeq
  <2>3. /\ Len(rows') \in 1..Len(rows) + Len(pending)
        /\ ~(Len(rows') <= Len(rows)) /\ Len(rows') - Len(rows) = Len(pending)
    BY <2>1
  <2> QED BY <2>1, <2>2, <2>3
<1>6. LastIngestIsStored'
  BY <1>1, <1>2 DEF DbOK, LastIngestIsStored
<1> QED BY <1>1, <1>2, <1>3, <1>4, <1>5, <1>6 DEF DbOK, Storing

LEMMA RollupKeepsDbOK ==
    ASSUME BatcherTypeOK, QueueOK, DbOK, Rollup \/ RollupFails PROVE DbOK'
<1> USE BatcherAssumption DEF handlerVars, callVars, dbVars
<1>0. /\ rows \in Seq(Events) /\ pending \in Seq(Events) /\ IsInjective(pending)
      /\ Range(rows) \subseteq Events /\ Range(pending) \subseteq Events
      /\ \A e \in Events : EventOK(e)
  BY RangeOfSeq DEF BatcherTypeOK, QueueOK
<1>1. /\ rpc = "rollup" /\ rpc' = "setting"
      /\ UNCHANGED <<pending, rows, lastIngest, stale>>
  BY DEF Rollup, RollupFails
<1>2. Range(pending) \subseteq Range(rows) /\ Range(pending) \cap missed = {}
  BY <1>0, <1>1 DEF EventOK, Storing, DbOK
<1>3. RollupsMatchEvents'
  <2>1. CASE RollupFails
    <3>1. missed' = missed \cup Range(pending) /\ rollups' = rollups
      BY <2>1 DEF RollupFails
    <3>2. NotRolledUp' = NotRolledUp
      BY <1>1, <3>1 DEF NotRolledUp
    <3> QED BY <1>1, <3>1, <3>2 DEF DbOK, RollupsMatchEvents
  <2>2. CASE Rollup
    <3> SUFFICES ASSUME NEW b \in Buckets
                 PROVE  rollups'[b] = Cardinality(Counted(b)')
      BY DEF RollupsMatchEvents, Counted
    <3> DEFINE P == {e \in Range(pending) : Request[e].bucket = b}
    <3>1. Counted(b)' = Counted(b) \cup P /\ Counted(b) \cap P = {}
      BY <1>1, <1>2, <2>2 DEF Rollup, Counted, NotRolledUp
    <3>2. IsFiniteSet(Counted(b)) /\ IsFiniteSet(P)
      <4>1. Counted(b) \subseteq Events /\ P \subseteq Events
        BY <1>0 DEF Counted
      <4> QED BY <4>1, FS_Subset
    <3>3. Cardinality(Counted(b)') = Cardinality(Counted(b)) + Cardinality(P)
      <4>1. /\ Cardinality(Counted(b) \cup P) =
                  Cardinality(Counted(b)) + Cardinality(P) - Cardinality(Counted(b) \cap P)
            /\ Cardinality(Counted(b) \cap P) = 0
        BY <3>1, <3>2, FS_Union, FS_EmptySet
      <4>2. Cardinality(Counted(b)) \in Nat /\ Cardinality(P) \in Nat
        BY <3>2, FS_CardinalityType
      <4> QED BY <3>1, <4>1, <4>2
    <3>4. rollups'[b] = rollups[b] + Cardinality(P)
      <4>1. rollups'[b] = rollups[b] + Occurs(pending, b)
        BY <2>2 DEF Rollup
      <4>2. Occurs(pending, b) = Cardinality(P)
        BY <1>0, OccursCounts
      <4> QED BY <4>1, <4>2
    <3>5. rollups[b] = Cardinality(Counted(b))
      BY DEF DbOK, RollupsMatchEvents, Counted
    <3> QED BY <3>3, <3>4, <3>5
  <2> QED BY <2>1, <2>2
<1>4. missed' \subseteq Range(rows')
  BY <1>1, <1>2 DEF Rollup, RollupFails, DbOK
<1>5. LastIngestIsStored'
  BY <1>1 DEF DbOK, LastIngestIsStored
<1> QED BY <1>1, <1>3, <1>4, <1>5 DEF DbOK, Storing

LEMMA SettingKeepsDbOK ==
    ASSUME BatcherTypeOK, QueueOK, DbOK, SetLastIngest \/ SetLastIngestFails PROVE DbOK'
<1> USE BatcherAssumption DEF handlerVars, callVars, dbVars
<1>0. /\ rows \in Seq(Events) /\ pending \in Seq(Events)
      /\ rpc = "setting" /\ rpc' \in {"returned", "select"}
      /\ UNCHANGED <<rows, rollups, missed>>
  BY TypeOfAfterDrain DEF BatcherTypeOK, SetLastIngest, SetLastIngestFails
<1>1. RollupsMatchEvents'
  BY <1>0, SameTables
<1>2. /\ rows # <<>> /\ rows[Len(rows)] = pending[Len(pending)]
      /\ rows[Len(rows)] \in Range(rows)
  <2>1. rows # <<>> /\ rows[Len(rows)] = pending[Len(pending)]
    BY <1>0 DEF DbOK, Storing
  <2>2. DOMAIN rows = 1..Len(rows) /\ Len(rows) \in 1..Len(rows)
    BY <1>0, <2>1, LenProperties, EmptySeq
  <2> QED BY <2>1, <2>2 DEF Range
<1>3. LastIngestIsStored'
  <2>1. CASE SetLastIngest
    <3>1. lastIngest' = Request[rows[Len(rows)]].at
      BY <1>2, <2>1 DEF SetLastIngest
    <3> QED BY <1>0, <1>2, <3>1 DEF LastIngestIsStored
  <2>2. CASE SetLastIngestFails
    BY <1>0, <2>2 DEF SetLastIngestFails, DbOK, LastIngestIsStored
  <2> QED BY <2>1, <2>2
<1> QED BY <1>0, <1>1, <1>3 DEF DbOK, Storing

LEMMA RestartKeepsDbOK ==
    ASSUME BatcherTypeOK, QueueOK, DbOK, Restart PROVE DbOK'
<1>0. /\ rpc' = "select" /\ UNCHANGED <<rows, rollups, lastIngest>>
      /\ missed' = NotRolledUp /\ stale' = (stale \/ rpc \in Storing)
  BY DEF Restart, NotRolledUp, Storing
<1>1. missed' \subseteq Range(rows)
  <2>1. rpc = "rollup" => Range(pending) \subseteq Range(rows)
    BY RangeOfSeq DEF BatcherTypeOK, QueueOK, EventOK, Storing
  <2> QED BY <1>0, <2>1 DEF NotRolledUp, DbOK
<1>2. NotRolledUp' = NotRolledUp
  BY <1>0 DEF NotRolledUp
<1>3. RollupsMatchEvents'
  BY <1>0, <1>2 DEF DbOK, RollupsMatchEvents
<1>4. LastIngestIsStored'
  BY <1>0 DEF DbOK, LastIngestIsStored, Storing
<1> QED BY <1>0, <1>1, <1>3, <1>4 DEF DbOK, Storing

LEMMA DbOKStep == BatcherTypeOK /\ QueueOK /\ DbOK /\ [Next]_vars => DbOK'
<1> SUFFICES ASSUME BatcherTypeOK, QueueOK, DbOK, [Next]_vars PROVE DbOK'
  OBVIOUS
<1>1. ASSUME UNCHANGED dbVars, rpc \notin Storing, rpc' \notin Storing PROVE DbOK'
  <2>1. RollupsMatchEvents'
    BY <1>1, SameTables DEF dbVars, Storing
  <2>2. LastIngestIsStored'
    BY <1>1 DEF DbOK, LastIngestIsStored, dbVars, Storing
  <2> QED BY <1>1, <2>1, <2>2 DEF DbOK, dbVars, Storing
<1>2. ASSUME UNCHANGED <<dbVars, rpc, pending>> PROVE DbOK'
  BY <1>2 DEF DbOK, RollupsMatchEvents, NotRolledUp, LastIngestIsStored, dbVars
<1>3. ASSUME NEW e \in Events, HandleIngest(e) \/ Enqueue(e) PROVE DbOK'
  BY <1>2, <1>3 DEF HandleIngest, Enqueue, TrySend, EvictOldest, Resend
<1>4. ASSUME (\E f \in Flushers : CallFlush(f)) \/ CallClose \/ UNCHANGED vars PROVE DbOK'
  BY <1>2, <1>4 DEF CallFlush, CallClose, vars
<1>5. CASE TakeEvent \/ Tick \/ TakeCall
  BY <1>1, <1>5 DEF TakeEvent, Tick, TakeCall, TakeDone, TakeFlush, Storing
<1>6. CASE EndDrainChannel \/ InsertFails
  <2>1. UNCHANGED dbVars /\ rpc \notin Storing
    BY <1>6 DEF EndDrainChannel, InsertFails, Storing
  <2>2. rpc' \notin Storing
    BY <1>6 DEF EndDrainChannel, InsertFails, AfterDrain, Storing
  <2> QED BY <1>1, <2>1, <2>2
<1> QED
  BY <1>3, <1>4, <1>5, <1>6, InsertKeepsDbOK, RollupKeepsDbOK, SettingKeepsDbOK,
     RestartKeepsDbOK DEF Next, Drain, Quiet

LEMMA DbOKAlways == Spec => []DbOK
BY DbOKInit, DbOKStep, TypeAndQueue, PTL DEF Spec

(* The rollups count the stored events bucket by bucket, whatever batches  *)
(* fail or are cut off by a restart (batcher.go:133-139,                   *)
(* store/events.go:71-96).                                                 *)
THEOREM RollupsMatchEventsHolds == Spec => []RollupsMatchEvents
<1>1. DbOK => RollupsMatchEvents
  BY DEF DbOK
<1> QED BY <1>1, DbOKAlways, PTL

(* last_ingest_at is always the timestamp of a stored event, and of the    *)
(* last one unless its own write failed or was cut off                     *)
(* (batcher.go:140-143).                                                   *)
THEOREM LastIngestIsStoredHolds == Spec => []LastIngestIsStored
<1>1. DbOK => LastIngestIsStored
  BY DEF DbOK
<1> QED BY <1>1, DbOKAlways, PTL

-----------------------------------------------------------------------------
(* The order of the table.  An event of taken changes its fate only as part  *)
(* of pending, and pending is the end of what the table and run hold.        *)
Kept == {e \in Events : fate[e] \notin {"discarded", "crashed"}}

LEMMA StoredInOrderInit == Init => StoredInOrder
<1> SUFFICES ASSUME Init PROVE StoredInOrder
  OBVIOUS
<1>1. taken = <<>> /\ rows \o Unstored = <<>>
  BY EmptySeq, ConcatEmptySeq DEF Init, Unstored
<1>2. /\ <<>> \in Seq(Events) /\ Len(<<>>) = 0 /\ DOMAIN <<>> = {}
  BY EmptySeq
<1>3. IsPlacing(<<>>, <<>>, <<>>, Kept)
  BY <1>2, EmptySeq DEF IsPlacing, IsAscending
<1> QED BY <1>1, <1>2, <1>3, FilterIsUnique DEF StoredInOrder, Kept

\* A step that moves nothing between run and the tables.
LEMMA SameOrder ==
    ASSUME BatcherTypeOK, StoredInOrder, UNCHANGED <<rows, taken>>, Unstored' = Unstored,
           \A e \in Range(taken) : e \in Kept' <=> e \in Kept
    PROVE  StoredInOrder'
<1>1. \A i \in DOMAIN taken : taken[i] \in Range(taken)
  BY DEF Range
<1>2. Filter(taken, Kept') = Filter(taken, Kept)
  BY <1>1, FilterAgrees
<1> QED BY <1>2 DEF StoredInOrder, Kept

\* A batch that is lost whole.
LEMMA BatchLost ==
    ASSUME BatcherTypeOK, QueueOK, StoredInOrder, rpc \notin Storing,
           UNCHANGED <<rows, taken>>, Unstored' = <<>>,
           \A e \in Range(taken) : e \in Kept' <=> e \in Kept /\ e \notin Range(pending)
    PROVE  StoredInOrder'
<1>1. rows \in Seq(Events) /\ pending \in Seq(Events) /\ taken \in Seq(Events)
      /\ Range(pending) \subseteq Events
  BY RangeOfSeq DEF BatcherTypeOK
<1>2. Filter(taken, Kept) = rows \o pending
  BY DEF StoredInOrder, Unstored, Storing, Kept
<1>3. Range(rows) \cap Range(pending) = {}
  BY <1>1 DEF QueueOK, EventOK
<1>4. \A i \in DOMAIN taken : taken[i] \in Kept' <=> taken[i] \in Kept /\ taken[i] \notin Range(pending)
  BY DEF Range
<1>5. Filter(taken, Kept \ Range(pending)) = rows
  <2>1. IsParted(taken, Kept, rows, pending)
    BY <1>2, <1>3 DEF IsParted
  <2> QED BY <1>1, <2>1, FilterCut
<1>a. Filter(taken, Kept') = Filter(taken, Kept \ Range(pending))
  BY <1>4, FilterAgrees
<1>6. rows' \o Unstored' = rows
  BY <1>1, ConcatEmptySeq
<1> QED BY <1>5, <1>6, <1>a DEF StoredInOrder, Kept

LEMMA StoredInOrderStep ==
    BatcherTypeOK /\ QueueOK /\ StoredInOrder /\ [Next]_vars => StoredInOrder'
<1> SUFFICES ASSUME BatcherTypeOK, QueueOK, StoredInOrder, [Next]_vars
             PROVE  StoredInOrder'
  OBVIOUS
<1> USE DEF handlerVars, callVars, dbVars
<1>0. /\ fate \in [Events -> Fates] /\ ch \in Seq(Events) /\ rows \in Seq(Events)
      /\ pending \in Seq(Events) /\ taken \in Seq(Events)
      /\ Range(pending) \subseteq Events /\ Range(taken) \subseteq Events
      /\ Range(ch) \subseteq Events
      /\ \A e \in Events : EventOK(e)
  BY RangeOfSeq DEF BatcherTypeOK, QueueOK
<1>1. ASSUME NEW e \in Events, HandleIngest(e) \/ Enqueue(e) PROVE StoredInOrder'
  <2>1. UNCHANGED <<rows, taken, rpc, pending>>
    BY <1>1 DEF HandleIngest, Enqueue, TrySend, EvictOldest, Resend
  <2>2. \/ UNCHANGED fate
        \/ ch # <<>> /\ fate' = [fate EXCEPT ![Head(ch)] = "evicted"]
        \/ fate' = [fate EXCEPT ![e] = "refused"] /\ pc[e] = "resend"
    <3>1. HandleIngest(e) \/ TrySend(e) => UNCHANGED fate
      BY DEF HandleIngest, TrySend
    <3>2. EvictOldest(e) => UNCHANGED fate \/ (ch # <<>> /\ fate' = [fate EXCEPT ![Head(ch)] = "evicted"])
      BY DEF EvictOldest
    <3>3. Resend(e) => UNCHANGED fate \/ (fate' = [fate EXCEPT ![e] = "refused"] /\ pc[e] = "resend")
      BY DEF Resend
    <3> QED BY <1>1, <3>1, <3>2, <3>3 DEF Enqueue
  <2>3. \A x \in Range(taken) : fate'[x] = fate[x]
    <3>1. CASE UNCHANGED fate
      BY <3>1
    <3>2. CASE ch # <<>> /\ fate' = [fate EXCEPT ![Head(ch)] = "evicted"]
      <4>1. Head(ch) \in Range(ch)
        BY <1>0, <3>2, TailQueue
      <4> QED BY <1>0, <3>2, <4>1 DEF EventOK
    <3>3. CASE fate' = [fate EXCEPT ![e] = "refused"] /\ pc[e] = "resend"
      <4>1. e \notin Range(taken)
        BY <1>0, <3>3 DEF EventOK
      <4> QED BY <1>0, <3>3, <4>1
    <3> QED BY <2>2, <3>1, <3>2, <3>3
  <2>4. Unstored' = Unstored
    BY <2>1 DEF Unstored
  <2> QED BY <1>0, <2>1, <2>3, <2>4, SameOrder DEF Kept
<1>2. ASSUME UNCHANGED <<rows, taken, fate>>, Unstored' = Unstored PROVE StoredInOrder'
  BY <1>2, SameOrder DEF Kept
<1>3. CASE (\E f \in Flushers : CallFlush(f)) \/ CallClose \/ UNCHANGED vars
  BY <1>2, <1>3 DEF CallFlush, CallClose, vars, Unstored
<1>4. CASE Tick \/ TakeCall
  BY <1>2, <1>4 DEF Tick, TakeCall, TakeDone, TakeFlush, Unstored
<1>5. CASE TakeEvent
  <2> DEFINE h == Head(ch)
  <2>1. /\ rpc \notin Storing /\ rpc' = rpc /\ ch # <<>>
        /\ pending' = Append(pending, h) /\ taken' = Append(taken, h)
        /\ UNCHANGED <<rows, fate>>
    BY <1>5 DEF TakeEvent, Storing
  <2>2. h \in Events /\ h \in Range(ch)
    BY <1>0, <2>1, TailQueue
  <2>3. h \in Kept
    BY <1>0, <2>2 DEF EventOK, Kept
  <2>4. Filter(taken', Kept) = Append(Filter(taken, Kept), h)
    BY <1>0, <2>1, <2>2, <2>3, FilterAppend
  <2>5. Filter(taken, Kept) = rows \o pending
    BY <2>1 DEF StoredInOrder, Unstored, Storing, Kept
  <2> HIDE DEF h
  <2>6. rows \o Append(pending, h) = Append(rows \o pending, h)
    <3>1. Append(pending, h) = pending \o <<h>> /\ Append(rows \o pending, h) = (rows \o pending) \o <<h>>
      BY <1>0, <2>2, AppendIsConcat, ConcatProperties
    <3>2. \A a, b, c \in Seq(Events) : (a \o b) \o c = a \o (b \o c)
      BY ConcatAssociative
    <3>3. <<h>> \in Seq(Events)
      BY <2>2
    <3> QED BY <1>0, <3>1, <3>2, <3>3
  <2>7. Unstored' = Append(pending, h)
    BY <2>1 DEF Unstored, Storing
  <2> QED BY <2>1, <2>4, <2>5, <2>6, <2>7 DEF StoredInOrder, Kept
<1>6. CASE EndDrainChannel
  <2>1. UNCHANGED <<rows, taken, fate>> /\ pending' = pending
        /\ rpc \notin Storing /\ rpc' \notin Storing
    BY <1>6 DEF EndDrainChannel, AfterDrain, Storing
  <2> QED BY <1>2, <2>1 DEF Unstored, Storing
<1>7. CASE Insert
  <2>1. /\ rpc = "insert" /\ rpc' = "rollup" /\ rows' = rows \o pending
        /\ UNCHANGED <<pending, taken>>
        /\ fate' = [e \in Events |-> IF e \in Range(pending) THEN "stored" ELSE fate[e]]
    BY <1>7 DEF Insert
  <2>2. \A e \in Range(taken) : e \in Kept' <=> e \in Kept
    BY <1>0, <2>1 DEF Kept, EventOK, Storing
  <2>3. \A i \in DOMAIN taken : taken[i] \in Kept' <=> taken[i] \in Kept
    BY <2>2 DEF Range
  <2>4. Filter(taken, Kept') = Filter(taken, Kept)
    BY <2>3, FilterAgrees
  <2>5. Filter(taken, Kept) = rows \o pending
    BY <2>1 DEF StoredInOrder, Unstored, Kept
  <2>6. rows \o pending \in Seq(Events)
    BY <1>0, ConcatProperties
  <2>7. rows' \o Unstored' = rows \o pending
    BY <2>1, <2>6, ConcatEmptySeq DEF Unstored
  <2> QED BY <2>1, <2>4, <2>5, <2>7 DEF StoredInOrder, Kept
<1>8. CASE InsertFails
  <2>1. /\ rpc = "insert" /\ rpc' \notin Storing /\ pending' = <<>>
        /\ UNCHANGED <<rows, taken>>
        /\ fate' = [e \in Events |-> IF e \in Range(pending) THEN "discarded" ELSE fate[e]]
    BY <1>8 DEF InsertFails, AfterDrain, Storing
  <2>2. Unstored' = <<>>
    BY <2>1 DEF Unstored
  <2>3. \A e \in Range(taken) : e \in Kept' <=> e \in Kept /\ e \notin Range(pending)
    BY <1>0, <2>1 DEF Kept
  <2> QED BY <2>1, <2>2, <2>3, BatchLost DEF Storing
<1>9. CASE Rollup \/ RollupFails \/ SetLastIngest \/ SetLastIngestFails
  <2>1. UNCHANGED <<rows, taken, fate>> /\ rpc \in Storing
    BY <1>9 DEF Rollup, RollupFails, SetLastIngest, SetLastIngestFails, Storing
  <2>2. rpc' \in Storing \/ pending' = <<>>
    BY <1>9 DEF Rollup, RollupFails, SetLastIngest, SetLastIngestFails, AfterDrain, Storing
  <2>3. Unstored' = Unstored
    BY <2>1, <2>2 DEF Unstored, Storing
  <2> QED BY <1>2, <2>1, <2>3
<1>10. CASE Restart
  <2>1. /\ rpc' = "select" /\ pending' = <<>> /\ UNCHANGED <<rows, taken>>
        /\ fate' = [e \in Events |->
                      IF e \in Range(ch) THEN "dropped"
                      ELSE IF e \in Range(pending) /\ fate[e] = "none" THEN "crashed"
                      ELSE fate[e]]
    BY <1>10 DEF Restart
  <2>2. Unstored' = <<>>
    BY <2>1 DEF Unstored
  <2>3. \A e \in Range(taken) : e \notin Range(ch)
    BY <1>0 DEF EventOK
  <2>4. CASE rpc \in Storing
    <3>1. \A e \in Range(taken) : fate'[e] = fate[e]
      BY <1>0, <2>1, <2>3, <2>4 DEF EventOK
    <3>2. Unstored = <<>>
      BY <2>4 DEF Unstored, Storing
    <3> QED BY <1>0, <2>1, <2>2, <3>1, <3>2, SameOrder DEF Kept
  <2>5. CASE rpc \notin Storing
    <3>1. \A e \in Range(taken) : e \in Kept' <=> e \in Kept /\ e \notin Range(pending)
      BY <1>0, <2>1, <2>3, <2>5 DEF EventOK, Kept
    <3> QED BY <2>1, <2>2, <2>5, <3>1, BatchLost
  <2> QED BY <2>4, <2>5
<1> QED
  BY <1>1, <1>3, <1>4, <1>5, <1>6, <1>7, <1>8, <1>9, <1>10 DEF Next, Drain, Quiet

(* What the table holds, followed by the batch being collected, is what run *)
(* received, in that order, less the batches that were lost whole           *)
(* (batcher.go:86-145): nothing is stored twice or out of order, whatever   *)
(* fails or restarts in between.                                            *)
THEOREM StoredInOrderHolds == Spec => []StoredInOrder
BY StoredInOrderInit, StoredInOrderStep, TypeAndQueue, PTL DEF Spec
=============================================================================
