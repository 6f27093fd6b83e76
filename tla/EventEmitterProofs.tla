------------------------- MODULE EventEmitterProofs -------------------------
(***************************************************************************)
(* Proofs about EventEmitter for any finite set of events, any channel     *)
(* capacity and any log interval.                                          *)
(***************************************************************************)
EXTENDS EventEmitter, QueueLemmas

-----------------------------------------------------------------------------
(* Every variable of the emitter keeps its type: in particular failCount   *)
(* never goes negative and a post always has an event (events.go:38-46).   *)
THEOREM TypeCorrect == Spec => []TypeOK
<1>1. Init => TypeOK
  BY EmitterAssumption DEF Init, TypeOK, Fates
<1>2. TypeOK /\ [Next]_vars => TypeOK'
  <2> SUFFICES ASSUME TypeOK, [Next]_vars PROVE TypeOK'
    OBVIOUS
  <2> USE EmitterAssumption DEF TypeOK, queueVars, logVars, Fates
  <2>1. ASSUME NEW e \in Events, Record(e) PROVE TypeOK'
    <3>1. /\ pc' \in [Events -> {"idle", "send", "evict", "resend", "done"}]
          /\ fate' \in [Events -> Fates]
      BY <2>1 DEF Record
    <3> QED BY <2>1, <3>1 DEF Record
  <2>a. \A e \in Events : Append(ch, e) \in Seq(Events)
    BY AppendProperties
  <2>b. ch # <<>> => Head(ch) \in Events /\ Tail(ch) \in Seq(Events)
    BY HeadTailProperties
  <2>2. ASSUME NEW e \in Events, TrySend(e) PROVE TypeOK'
    <3>1. pc' \in [Events -> {"idle", "send", "evict", "resend", "done"}]
      BY <2>2 DEF TrySend
    <3>2. ch' \in Seq(Events)
      BY <2>2, <2>a DEF TrySend
    <3> QED BY <2>2, <3>1, <3>2 DEF TrySend
  <2>3. ASSUME NEW e \in Events, EvictOldest(e) PROVE TypeOK'
    <3>1. pc' \in [Events -> {"idle", "send", "evict", "resend", "done"}]
      BY <2>3 DEF EvictOldest
    <3>2. ch' \in Seq(Events)
      BY <2>3, <2>b DEF EvictOldest
    <3>3. fate' \in [Events -> Fates]
      BY <2>3, <2>b DEF EvictOldest
    <3> QED BY <2>3, <3>1, <3>2, <3>3 DEF EvictOldest
  <2>4. ASSUME NEW e \in Events, Resend(e) PROVE TypeOK'
    <3>1. pc' \in [Events -> {"idle", "send", "evict", "resend", "done"}]
      BY <2>4 DEF Resend
    <3>2. ch' \in Seq(Events)
      BY <2>4, <2>a DEF Resend
    <3>3. fate' \in [Events -> Fates]
      BY <2>4 DEF Resend
    <3> QED BY <2>4, <3>1, <3>2, <3>3 DEF Resend
  <2>5. CASE Receive
    BY <2>5, HeadTailProperties, AppendProperties DEF Receive
  <2>6. CASE PostUnsent
    BY <2>6 DEF PostUnsent, FinishPost
  <2>7. CASE PostAcked
    BY <2>7 DEF PostAcked, FinishPost
  <2>8. CASE PostFailed
    <3>1. lastLog' \in Int /\ failCount' \in Nat /\ reported' \in Nat
      BY <2>8 DEF PostFailed, LogFailure
    <3>2. now \in Nat /\ Append(logTimes, now) \in Seq(Nat)
      BY AppendProperties
    <3>3. logTimes' \in Seq(Nat)
      BY <2>8, <3>2 DEF PostFailed, LogFailure
    <3> QED BY <2>8, <3>1, <3>3 DEF PostFailed, FinishPost
  <2>9. CASE Tick
    BY <2>9 DEF Tick
  <2>10. CASE UNCHANGED vars
    BY <2>10 DEF vars
  <2> QED
    BY <2>1, <2>2, <2>3, <2>4, <2>5, <2>6, <2>7, <2>8, <2>9, <2>10
    DEF Next, Emit, Post, Quiet
<1> QED BY <1>1, <1>2, PTL DEF Spec

-----------------------------------------------------------------------------
\* Conservation spelt out: e is in one of four places and in no two of them.
InOnePlace(e) ==
    LET handler == pc[e] # "done"
        queue   == e \in Range(ch)
        poster  == posting = e
        gone    == fate[e] # "none"
    IN  /\ handler \/ queue \/ poster \/ gone
        /\ handler => ~queue /\ ~poster /\ ~gone
        /\ queue => ~poster /\ ~gone
        /\ poster => ~gone

QueueOK ==
    /\ Len(ch) <= QueueCap
    /\ IsInjective(ch)
    /\ \A e \in Events : InOnePlace(e)

(* The four-way form used in the proofs is the invariant Conservation.     *)
LEMMA QueueOKIsConservation == QueueOK <=> Conservation
<1>1. \A e \in Events : InOnePlace(e) <=>
        \E p \in Places : At(e, p) /\ \A q \in Places : At(e, q) => q = p
  <2> TAKE e \in Events
  <2>1. /\ At(e, "handler") <=> pc[e] # "done"
        /\ At(e, "queue") <=> e \in Range(ch)
        /\ At(e, "poster") <=> posting = e
        /\ At(e, "gone") <=> fate[e] # "none"
    BY DEF At
  <2> HIDE DEF At
  <2>2. \A p : p \in Places <=> p \in {"handler", "queue", "poster", "gone"}
    BY DEF Places
  <2> QED BY <2>1, <2>2 DEF InOnePlace
<1> QED BY <1>1 DEF QueueOK, Conservation

LEMMA QueueOKInit == Init => QueueOK
<1>1. Init => /\ Range(ch) = {} /\ DOMAIN ch = {} /\ Len(ch) = 0
  BY DEF Init, Range
<1> QED BY <1>1, EmitterAssumption DEF Init, QueueOK, InOnePlace, IsInjective

(* No step of a handler, of run or of post breaks conservation, whatever   *)
(* step another of them took in between (events.go:96-142).                *)
LEMMA QueueOKStep == TypeOK /\ QueueOK /\ [Next]_vars => QueueOK'
<1> SUFFICES ASSUME TypeOK, QueueOK, [Next]_vars PROVE QueueOK'
  OBVIOUS
<1> USE EmitterAssumption DEF queueVars, logVars
<1>0. /\ ch \in Seq(Events) /\ Len(ch) \in Nat
      /\ pc \in [Events -> {"idle", "send", "evict", "resend", "done"}]
      /\ fate \in [Events -> Fates]
      /\ posting \in Events \cup {None}
  BY LenProperties DEF TypeOK
<1>a. ASSUME NEW e \in Events, pc[e] # "done", Len(ch) < QueueCap,
             ch' = Append(ch, e), pc' = [pc EXCEPT ![e] = "done"],
             UNCHANGED <<posting, fate>>
      PROVE  QueueOK'
  <2>1. e \notin Range(ch) /\ posting # e /\ fate[e] = "none"
    BY <1>a DEF QueueOK, InOnePlace
  <2>2. Range(ch') = Range(ch) \cup {e} /\ IsInjective(ch') /\ Len(ch') = Len(ch) + 1
    BY <1>0, <1>a, <2>1, AppendQueue, AppendProperties DEF QueueOK
  <2>3. \A x \in Events : InOnePlace(x)'
    BY <1>0, <1>a, <2>1, <2>2 DEF QueueOK, InOnePlace
  <2> QED BY <1>0, <1>a, <2>2, <2>3 DEF QueueOK
<1>b. ASSUME ch # <<>>
      PROVE  /\ Head(ch) \in Events /\ Head(ch) \in Range(ch)
             /\ Range(Tail(ch)) = Range(ch) \ {Head(ch)}
             /\ IsInjective(Tail(ch)) /\ Len(Tail(ch)) <= QueueCap
  BY <1>0, <1>b, TailQueue DEF QueueOK
<1>1. ASSUME NEW e \in Events, Record(e) PROVE QueueOK'
  BY <1>0, <1>1 DEF Record, QueueOK, InOnePlace
<1>2. ASSUME NEW e \in Events, TrySend(e) PROVE QueueOK'
  <2>1. CASE Len(ch) < QueueCap
    BY <1>2, <1>a, <2>1 DEF TrySend
  <2>2. CASE ~(Len(ch) < QueueCap)
    BY <1>0, <1>2, <2>2 DEF TrySend, QueueOK, InOnePlace
  <2> QED BY <2>1, <2>2
<1>3. ASSUME NEW e \in Events, EvictOldest(e) PROVE QueueOK'
  <2>1. CASE ch = <<>>
    BY <1>0, <1>3, <2>1 DEF EvictOldest, QueueOK, InOnePlace
  <2>2. CASE ch # <<>>
    BY <1>0, <1>b, <1>3, <2>2 DEF EvictOldest, QueueOK, InOnePlace
  <2> QED BY <2>1, <2>2
<1>4. ASSUME NEW e \in Events, Resend(e) PROVE QueueOK'
  <2>1. CASE Len(ch) < QueueCap
    BY <1>4, <1>a, <2>1 DEF Resend
  <2>2. CASE ~(Len(ch) < QueueCap)
    BY <1>0, <1>4, <2>2 DEF Resend, QueueOK, InOnePlace
  <2> QED BY <2>1, <2>2
<1>5. CASE Receive
  BY <1>0, <1>b, <1>5 DEF Receive, QueueOK, InOnePlace
<1>6. ASSUME NEW f \in {"unsent", "acked", "failed"}, posting # None, FinishPost(f)
      PROVE  QueueOK'
  BY <1>0, <1>6 DEF FinishPost, QueueOK, InOnePlace
<1>7. CASE Post
  BY <1>6, <1>7 DEF Post, PostUnsent, PostAcked, PostFailed
<1>8. CASE Tick
  BY <1>8 DEF Tick, QueueOK, InOnePlace
<1>9. CASE UNCHANGED vars
  BY <1>9 DEF vars, QueueOK, InOnePlace
<1> QED
  BY <1>1, <1>2, <1>3, <1>4, <1>5, <1>7, <1>8, <1>9 DEF Next, Emit, Quiet

(* No event is duplicated or silently dropped by any interleaving of the   *)
(* non-atomic emit with other handlers and with run, and the channel is    *)
(* bounded.                                                                *)
THEOREM ConservationHolds == Spec => []Conservation
<1>1. Init => QueueOK
  BY QueueOKInit
<1>2. TypeOK /\ QueueOK /\ [Next]_vars => QueueOK'
  BY QueueOKStep
<1>3. Spec => []QueueOK
  BY <1>1, <1>2, TypeCorrect, PTL DEF Spec
<1> QED BY <1>3, QueueOKIsConservation, PTL

-----------------------------------------------------------------------------
\* A handler that saw the channel full, and a loss, both mean that more
\* events were recorded than the channel holds.
OverflowOK ==
    Lost # {} \/ (\E e \in Events : pc[e] \in {"evict", "resend"})
        => Cardinality(Recorded) > QueueCap

(* A handler that finds the channel full saw QueueCap distinct recorded    *)
(* events besides its own.                                                 *)
LEMMA FullMeansOverflow ==
    ASSUME TypeOK, QueueOK, Len(ch) >= QueueCap,
           NEW e \in Events, pc[e] \notin {"idle", "done"}
    PROVE  Cardinality(Recorded) > QueueCap
<1> USE EmitterAssumption
<1>1. IsFiniteSet(Range(ch)) /\ Cardinality(Range(ch)) = Len(ch)
  BY QueueCardinality DEF TypeOK, QueueOK
<1>2. e \notin Range(ch) /\ Range(ch) \cup {e} \subseteq Recorded
  <2>1. Range(ch) \subseteq Events
    BY RangeOfSeq DEF TypeOK
  <2> QED BY <2>1 DEF QueueOK, InOnePlace, Recorded
<1>3. Cardinality(Range(ch) \cup {e}) = Len(ch) + 1
  BY <1>1, <1>2, FS_AddElement
<1>4. IsFiniteSet(Recorded)
  BY FS_Subset DEF Recorded
<1>5. Cardinality(Range(ch) \cup {e}) <= Cardinality(Recorded)
  BY <1>2, <1>4, FS_Subset
<1>6. Cardinality(Recorded) \in Nat /\ Len(ch) \in Nat
  BY <1>4, FS_CardinalityType, LenProperties DEF TypeOK
<1> QED BY <1>3, <1>5, <1>6

LEMMA OverflowOKStep == TypeOK /\ QueueOK /\ OverflowOK /\ [Next]_vars => OverflowOK'
<1> SUFFICES ASSUME TypeOK, QueueOK, OverflowOK, [Next]_vars,
                    Lost' # {} \/ \E e \in Events : pc'[e] \in {"evict", "resend"}
             PROVE  Cardinality(Recorded') > QueueCap
  BY DEF OverflowOK
<1> USE EmitterAssumption DEF queueVars, logVars
<1>0. /\ pc \in [Events -> {"idle", "send", "evict", "resend", "done"}]
      /\ fate \in [Events -> Fates]
  BY DEF TypeOK
<1>1. Recorded \subseteq Recorded' /\ IsFiniteSet(Recorded')
  <2>1. \A e \in Events : pc[e] # "idle" => pc'[e] # "idle"
    BY <1>0 DEF Next, Record, Emit, TrySend, EvictOldest, Resend, Receive, Post,
         PostUnsent, PostAcked, PostFailed, FinishPost, Tick, Quiet, vars
  <2> QED BY <2>1, FS_Subset DEF Recorded
<1>2. Cardinality(Recorded) > QueueCap => Cardinality(Recorded') > QueueCap
  <2>1. Cardinality(Recorded) <= Cardinality(Recorded')
    BY <1>1, FS_Subset
  <2>2. Cardinality(Recorded) \in Nat /\ Cardinality(Recorded') \in Nat
    BY <1>1, FS_Subset, FS_CardinalityType
  <2> QED BY <2>1, <2>2
<1>3. CASE Lost # {} \/ \E e \in Events : pc[e] \in {"evict", "resend"}
  BY <1>2, <1>3 DEF OverflowOK
<1>4. CASE ~(Lost # {} \/ \E e \in Events : pc[e] \in {"evict", "resend"})
  <2>1. \E e \in Events : pc[e] = "send" /\ ~(Len(ch) < QueueCap)
    <3>1. \A e \in Events : ~EvictOldest(e) /\ ~Resend(e)
      BY <1>4 DEF EvictOldest, Resend
    <3>2. ASSUME NEW e \in Events, TrySend(e)
          PROVE  pc[e] = "send" /\ ~(Len(ch) < QueueCap)
      BY <1>0, <1>4, <3>2 DEF TrySend, Lost
    <3>3. ASSUME NEW e \in Events, Record(e) PROVE FALSE
      BY <1>0, <1>4, <3>3 DEF Record, Lost
    <3>4. ASSUME Post PROVE FALSE
      <4>1. \E f \in {"unsent", "acked", "failed"} : FinishPost(f)
        BY <3>4 DEF Post, PostUnsent, PostAcked, PostFailed
      <4> QED BY <1>0, <1>4, <4>1 DEF FinishPost, Lost
    <3>5. ~Receive /\ ~Tick /\ ~UNCHANGED vars
      BY <1>0, <1>4 DEF Receive, Tick, vars, Lost
    <3> QED BY <3>1, <3>2, <3>3, <3>4, <3>5 DEF Next, Emit, Quiet
  <2>2. PICK e \in Events : pc[e] = "send" /\ ~(Len(ch) < QueueCap)
    BY <2>1
  <2>3. Len(ch) >= QueueCap
    BY <2>2, LenProperties DEF TypeOK
  <2> QED BY <1>2, <2>2, <2>3, FullMeansOverflow
<1> QED BY <1>3, <1>4

(* While no more events were recorded than the channel holds, none is      *)
(* lost, for every capacity and however long the Console is down.          *)
THEOREM NoLossBelowCapacityHolds == Spec => []NoLossBelowCapacity
<1>1. Init => OverflowOK
  BY DEF Init, OverflowOK, Lost
<1>2. Init => QueueOK
  BY QueueOKInit
<1>3. TypeOK /\ QueueOK /\ [Next]_vars => QueueOK'
  BY QueueOKStep
<1>4. TypeOK /\ QueueOK /\ OverflowOK /\ [Next]_vars => OverflowOK'
  BY OverflowOKStep
<1>5. TypeOK /\ OverflowOK => NoLossBelowCapacity
  <2>1. Cardinality(Recorded) \in Nat
    BY EmitterAssumption, FS_Subset, FS_CardinalityType DEF Recorded
  <2> QED BY <2>1, EmitterAssumption DEF OverflowOK, NoLossBelowCapacity
<1> QED BY <1>1, <1>2, <1>3, <1>4, <1>5, TypeCorrect, PTL DEF Spec

-----------------------------------------------------------------------------
Failed == {e \in Events : fate[e] = "failed"}

(* Only a failed post changes the failure count, and by exactly one.       *)
LEMMA FailedStep ==
    ASSUME TypeOK, QueueOK, [Next]_vars
    PROVE  \/ PostFailed /\ Cardinality(Failed') = Cardinality(Failed) + 1
           \/ UNCHANGED logVars /\ Failed' = Failed
<1> USE EmitterAssumption
<1>0. /\ pc \in [Events -> {"idle", "send", "evict", "resend", "done"}]
      /\ fate \in [Events -> Fates]
      /\ posting \in Events \cup {None}
  BY DEF TypeOK
<1>1. CASE PostFailed
  <2>1. posting \in Events /\ posting \notin Failed
    BY <1>0, <1>1 DEF PostFailed, QueueOK, InOnePlace, Failed
  <2>2. Failed' = Failed \cup {posting}
    BY <1>0, <1>1, <2>1 DEF PostFailed, FinishPost, Failed
  <2>3. IsFiniteSet(Failed)
    BY FS_Subset DEF Failed
  <2> QED BY <1>1, <2>1, <2>2, <2>3, FS_AddElement
<1>2. CASE ~PostFailed
  <2>1. ASSUME NEW e \in Events, Record(e) \/ Emit(e)
        PROVE  UNCHANGED logVars /\ Failed' = Failed
    <3>1. UNCHANGED logVars
      BY <2>1 DEF Record, Emit, TrySend, EvictOldest, Resend
    <3>2. \A x \in Events : fate'[x] = fate[x] \/ (fate[x] = "none" /\ fate'[x] # "failed")
      <4>1. ch # <<>> => Head(ch) \in Events /\ Head(ch) \in Range(ch)
        BY TailQueue DEF TypeOK
      <4> QED BY <1>0, <2>1, <4>1
            DEF Record, Emit, TrySend, EvictOldest, Resend, QueueOK, InOnePlace
    <3> QED BY <3>1, <3>2 DEF Failed
  <2>2. ASSUME PostUnsent \/ PostAcked
        PROVE  UNCHANGED logVars /\ Failed' = Failed
    BY <1>0, <2>2 DEF PostUnsent, PostAcked, FinishPost, Failed, QueueOK, InOnePlace
  <2>3. ASSUME Receive \/ Tick \/ UNCHANGED vars
        PROVE  UNCHANGED logVars /\ Failed' = Failed
    BY <2>3 DEF Receive, Tick, vars, Failed
  <2> QED BY <1>2, <2>1, <2>2, <2>3 DEF Next, Post, Quiet
<1> QED BY <1>1, <1>2

(* Every failed post is in the log lines or in the running count, once.    *)
THEOREM FailuresAccountedHolds == Spec => []FailuresAccounted
<1> USE EmitterAssumption
<1>1. Init => FailuresAccounted
  <2> SUFFICES ASSUME Init PROVE FailuresAccounted
    OBVIOUS
  <2>1. {e \in Events : fate[e] = "failed"} = {}
    BY DEF Init
  <2>2. Cardinality({e \in Events : fate[e] = "failed"}) = 0
    BY <2>1, FS_EmptySet
  <2> QED BY <2>2 DEF Init, FailuresAccounted
<1>2. TypeOK /\ QueueOK /\ FailuresAccounted /\ [Next]_vars => FailuresAccounted'
  <2> SUFFICES ASSUME TypeOK, QueueOK, FailuresAccounted, [Next]_vars
               PROVE  FailuresAccounted'
    OBVIOUS
  <2>1. reported + failCount = Cardinality(Failed)
    BY DEF FailuresAccounted, Failed
  <2>2. CASE PostFailed /\ Cardinality(Failed') = Cardinality(Failed) + 1
    <3>1. reported' + failCount' = reported + failCount + 1
      BY <2>2 DEF PostFailed, LogFailure, TypeOK
    <3> QED BY <2>1, <2>2, <3>1 DEF FailuresAccounted, Failed
  <2>3. CASE UNCHANGED logVars /\ Failed' = Failed
    BY <2>1, <2>3 DEF FailuresAccounted, Failed, logVars
  <2> QED BY <2>2, <2>3, FailedStep
<1>3. Init => QueueOK
  BY QueueOKInit
<1>4. TypeOK /\ QueueOK /\ [Next]_vars => QueueOK'
  BY QueueOKStep
<1> QED BY <1>1, <1>2, <1>3, <1>4, TypeCorrect, PTL DEF Spec

-----------------------------------------------------------------------------
\* No log line is younger than lastLog.
LogOK ==
    /\ LogRateLimited
    /\ \A i \in DOMAIN logTimes : logTimes[i] <= lastLog

(* Any two failure log lines are at least LogInterval apart.               *)
THEOREM LogRateLimitedHolds == Spec => []LogRateLimited
<1> USE EmitterAssumption
<1>1. Init => LogOK
  <2>1. Init => DOMAIN logTimes = {}
    BY DEF Init
  <2> QED BY <2>1 DEF LogOK, LogRateLimited
<1>2. TypeOK /\ QueueOK /\ LogOK /\ [Next]_vars => LogOK'
  <2> SUFFICES ASSUME TypeOK, QueueOK, LogOK, [Next]_vars PROVE LogOK'
    OBVIOUS
  <2>1. CASE UNCHANGED logVars
    BY <2>1 DEF LogOK, LogRateLimited, logVars
  <2>2. CASE PostFailed /\ now - lastLog < LogInterval
    BY <2>2 DEF PostFailed, LogFailure, LogOK, LogRateLimited
  <2>3. CASE PostFailed /\ ~(now - lastLog < LogInterval)
    <3>1. logTimes' = Append(logTimes, now) /\ lastLog' = now
      BY <2>3 DEF PostFailed, LogFailure
    <3>2. now \in Nat /\ lastLog \in Int /\ logTimes \in Seq(Nat) /\ Len(logTimes) \in Nat
      BY LenProperties DEF TypeOK
    <3>3. /\ DOMAIN logTimes = 1..Len(logTimes)
          /\ DOMAIN logTimes' = 1..(Len(logTimes) + 1)
          /\ \A i \in DOMAIN logTimes : logTimes'[i] = logTimes[i]
          /\ logTimes'[Len(logTimes) + 1] = now
      BY <3>1, <3>2, AppendProperties, LenProperties
    <3>4. \A i \in DOMAIN logTimes : logTimes[i] \in Nat /\ now - logTimes[i] >= LogInterval
      BY <2>3, <3>2, <3>3, ElementOfSeq DEF LogOK
    <3>5. \A i \in DOMAIN logTimes' : logTimes'[i] <= lastLog'
      BY <3>1, <3>2, <3>3, <3>4
    <3>6. ASSUME NEW i \in DOMAIN logTimes', NEW j \in DOMAIN logTimes', i < j
          PROVE  logTimes'[j] - logTimes'[i] >= LogInterval
      <4>1. i \in DOMAIN logTimes
        BY <3>2, <3>3, <3>6
      <4>2. CASE j \in DOMAIN logTimes
        BY <3>3, <3>6, <4>1, <4>2 DEF LogOK, LogRateLimited
      <4>3. CASE j = Len(logTimes) + 1
        BY <3>3, <3>4, <4>1, <4>3
      <4> QED BY <3>2, <3>3, <4>2, <4>3
    <3> QED BY <3>5, <3>6 DEF LogOK, LogRateLimited
  <2> QED BY <2>1, <2>2, <2>3, FailedStep
<1>3. Init => QueueOK
  BY QueueOKInit
<1>4. TypeOK /\ QueueOK /\ [Next]_vars => QueueOK'
  BY QueueOKStep
<1>5. LogOK => LogRateLimited
  BY DEF LogOK
<1> QED BY <1>1, <1>2, <1>3, <1>4, <1>5, TypeCorrect, PTL DEF Spec

-----------------------------------------------------------------------------
\* What run() took is being posted or was posted.
TakenOK ==
    \A e \in Range(taken) : posting = e \/ fate[e] \in {"acked", "failed", "unsent"}

LEMMA TakenOKStep == TypeOK /\ QueueOK /\ TakenOK /\ [Next]_vars => TakenOK'
<1> SUFFICES ASSUME TypeOK, QueueOK, TakenOK, [Next]_vars PROVE TakenOK'
  OBVIOUS
<1> USE EmitterAssumption DEF queueVars, logVars
<1>0. /\ fate \in [Events -> Fates] /\ posting \in Events \cup {None}
      /\ taken \in Seq(Events) /\ Range(taken) \subseteq Events
  BY RangeOfSeq DEF TypeOK
<1>1. ch # <<>> => Head(ch) \in Events /\ Head(ch) \in Range(ch)
  BY TailQueue DEF TypeOK
<1>2. ASSUME NEW e \in Events, Record(e) \/ Emit(e) PROVE TakenOK'
  <2>1. UNCHANGED <<taken, posting>>
    BY <1>2 DEF Record, Emit, TrySend, EvictOldest, Resend
  <2>2. \A x \in Events : \/ fate'[x] = fate[x]
                          \/ fate[x] = "none" /\ (x \in Range(ch) \/ pc[x] # "done")
    BY <1>0, <1>1, <1>2
    DEF Record, Emit, TrySend, EvictOldest, Resend, QueueOK, InOnePlace
  <2>3. \A x \in Range(taken) : posting = x => ~(x \in Range(ch) \/ pc[x] # "done")
    BY <1>0 DEF QueueOK, InOnePlace
  <2> QED BY <1>0, <2>1, <2>2, <2>3 DEF TakenOK
<1>3. CASE Receive
  <2>1. Range(taken') = Range(taken) \cup {Head(ch)}
    BY <1>0, <1>1, <1>3, AppendQueue DEF Receive
  <2> QED BY <1>0, <1>3, <2>1 DEF Receive, TakenOK
<1>4. CASE Post
  BY <1>0, <1>4 DEF Post, PostUnsent, PostAcked, PostFailed, FinishPost, TakenOK
<1>5. CASE Tick \/ UNCHANGED vars
  BY <1>5 DEF Tick, vars, TakenOK
<1> QED BY <1>2, <1>3, <1>4, <1>5 DEF Next, Quiet

\* An event still with its handler is one the feed has not seen.
LEMMA HandlerIsFresh ==
    ASSUME TypeOK, QueueOK, TakenOK, NEW e \in Events, pc[e] # "done"
    PROVE  Feed!Fresh(e)
<1>1. e \notin Range(ch) /\ posting # e /\ fate[e] = "none"
  BY DEF QueueOK, InOnePlace
<1>2. e \notin Range(taken) /\ e \notin Lost
  BY <1>1 DEF TakenOK, Lost
<1> QED BY <1>1, <1>2 DEF Feed!Fresh, Feed!Range, Range

LEMMA FeedStep ==
    TypeOK /\ QueueOK /\ TakenOK /\ [Next]_vars => [Feed!Next]_(Feed!feedVars)
<1> SUFFICES ASSUME TypeOK, QueueOK, TakenOK, [Next]_vars
             PROVE  Feed!Next \/ UNCHANGED <<ch, taken, Lost>>
  BY DEF Feed!feedVars
<1> USE EmitterAssumption DEF queueVars, logVars
<1>0. /\ fate \in [Events -> Fates] /\ posting \in Events \cup {None}
      /\ ch \in Seq(Events) /\ Len(ch) \in Nat /\ Len(ch) <= QueueCap
  BY LenProperties DEF TypeOK, QueueOK
<1>1. ch # <<>> => Head(ch) \in Events /\ Head(ch) \in Range(ch) /\ fate[Head(ch)] = "none"
  BY TailQueue DEF TypeOK, QueueOK, InOnePlace
<1>2. ASSUME NEW e \in Events, Record(e)
      PROVE  UNCHANGED <<ch, taken, Lost>>
  BY <1>0, <1>2 DEF Record, Lost, QueueOK, InOnePlace
<1>3. ASSUME NEW e \in Events, TrySend(e)
      PROVE  Feed!Accept(e) \/ UNCHANGED <<ch, taken, Lost>>
  <2>1. UNCHANGED <<taken, Lost>> /\ Feed!Fresh(e)
    BY <1>3, HandlerIsFresh DEF TrySend, Lost
  <2> QED BY <1>3, <2>1 DEF TrySend, Feed!Accept
<1>4. ASSUME NEW e \in Events, EvictOldest(e)
      PROVE  Feed!DropOldest \/ UNCHANGED <<ch, taken, Lost>>
  <2>1. CASE ch = <<>>
    BY <1>4, <2>1 DEF EvictOldest, Lost
  <2>2. CASE ch # <<>>
    <3>1. Lost' = Lost \cup {Head(ch)}
      BY <1>0, <1>1, <1>4, <2>2 DEF EvictOldest, Lost
    <3> QED BY <1>4, <2>2, <3>1 DEF EvictOldest, Feed!DropOldest
  <2> QED BY <2>1, <2>2
<1>5. ASSUME NEW e \in Events, Resend(e)
      PROVE  Feed!Accept(e) \/ Feed!Refuse(e)
  <2>1. UNCHANGED taken /\ Feed!Fresh(e)
    BY <1>5, HandlerIsFresh DEF Resend
  <2>2. CASE Len(ch) < QueueCap
    BY <1>5, <2>1, <2>2 DEF Resend, Feed!Accept, Lost
  <2>3. CASE ~(Len(ch) < QueueCap)
    <3>1. Lost' = Lost \cup {e} /\ Len(ch) = QueueCap
      BY <1>0, <1>5, <2>3 DEF Resend, Lost
    <3> QED BY <1>5, <2>1, <2>3, <3>1 DEF Resend, Feed!Refuse
  <2> QED BY <2>2, <2>3
<1>6. ASSUME Receive PROVE Feed!Take
  BY <1>6 DEF Receive, Feed!Take, Lost
<1>7. CASE Post
  <2>1. \E f \in {"unsent", "acked", "failed"} : FinishPost(f) /\ posting \in Events
    BY <1>0, <1>7 DEF Post, PostUnsent, PostAcked, PostFailed
  <2>2. fate[posting] = "none" /\ UNCHANGED <<ch, taken>>
    BY <2>1 DEF FinishPost, QueueOK, InOnePlace
  <2> QED BY <1>0, <2>1, <2>2 DEF FinishPost, Lost
<1>8. CASE Tick \/ UNCHANGED vars
  BY <1>8 DEF Tick, vars, Lost
<1>9. ASSUME NEW e \in Events, Record(e) \/ Emit(e)
      PROVE  Feed!Next \/ UNCHANGED <<ch, taken, Lost>>
  BY <1>2, <1>3, <1>4, <1>5, <1>9 DEF Emit, Feed!Next
<1> QED
  BY <1>6, <1>7, <1>8, <1>9 DEF Next, Quiet, Feed!Next

(* The emitter implements the best-effort feed for every capacity: events  *)
(* are posted at most once and in the order they were queued, and only the *)
(* oldest queued event or one refused by a full channel is lost.           *)
THEOREM EmitterImplementsFeed == Spec => ImplementsFeed
<1>1. Init => Feed!Init
  BY DEF Init, Feed!Init, Lost
<1>2. Init => QueueOK /\ TakenOK
  <2>1. Init => Range(taken) = {}
    BY DEF Init, Range
  <2> QED BY <2>1, QueueOKInit DEF TakenOK
<1>3. TypeOK /\ QueueOK /\ [Next]_vars => QueueOK'
  BY QueueOKStep
<1>4. TypeOK /\ QueueOK /\ TakenOK /\ [Next]_vars => TakenOK'
  BY TakenOKStep
<1>5. TypeOK /\ QueueOK /\ TakenOK /\ [Next]_vars => [Feed!Next]_(Feed!feedVars)
  BY FeedStep
<1>6. Spec => [](TypeOK /\ QueueOK /\ TakenOK)
  BY <1>2, <1>3, <1>4, TypeCorrect, PTL DEF Spec
<1> QED BY <1>1, <1>5, <1>6, PTL DEF Spec, ImplementsFeed, Feed!Spec
=============================================================================
