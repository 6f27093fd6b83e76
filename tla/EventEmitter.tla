---------------------------- MODULE EventEmitter ----------------------------
(***************************************************************************)
(* The gateway's telemetry emitter, src/events.go.                         *)
(*                                                                         *)
(* Every request handler records one event after its verify decision.      *)
(* record calls emit, which is three separate non-blocking channel         *)
(* operations: send; if the channel was full, receive (and discard) the    *)
(* oldest; send again, giving the new event up if the channel is full      *)
(* again.  Nothing makes the three atomic, so handlers and the single      *)
(* goroutine that drains the channel (run) interleave between them.        *)
(*                                                                         *)
(* An event stands for the handler that records it: pc[e] is where that    *)
(* handler is.  taken, fate, reported, logTimes are history variables.     *)
(***************************************************************************)
EXTENDS Integers, Sequences, FiniteSets, Functions

CONSTANTS
    Events,         \* the verify decisions of a run of the gateway
    QueueCap,       \* channel capacity (256 in the code)
    LogInterval,    \* time.Minute, in clock units
    MaxTime,        \* bound on the clock
    None            \* no event

ASSUME EmitterAssumption ==
    /\ IsFiniteSet(Events)
    /\ QueueCap \in Nat \ {0}
    /\ LogInterval \in Nat \ {0}
    /\ MaxTime \in Nat
    /\ None \notin Events

VARIABLES
    url,        \* EVENTS_URL: "unset", "unparsable" or "ok"
    pc,         \* pc[e]: "idle", "send", "evict", "resend", "done"
    ch,         \* e.ch
    posting,    \* the event run() is posting, or None
    failCount,  \* e.failCount
    lastLog,    \* e.lastLog
    now,        \* the clock
    taken,      \* events run() received from ch, in order
    fate,       \* fate[e]: what finally became of e
    reported,   \* total of the counts in the failure log lines
    logTimes    \* when each failure log line was written

queueVars == <<ch, posting, taken>>
logVars   == <<failCount, lastLog, reported, logTimes>>
vars == <<url, pc, queueVars, fate, logVars, now>>

Fates == {"none", "acked", "failed", "unsent", "evicted", "refused", "disabled"}

Lost == {e \in Events : fate[e] \in {"evicted", "refused"}}
Recorded == {e \in Events : pc[e] # "idle"}

-----------------------------------------------------------------------------
\* lastLog is the zero time.Time: any time.Since of it is over a minute.
Init ==
    /\ url \in {"unset", "unparsable", "ok"}
    /\ pc = [e \in Events |-> "idle"]
    /\ ch = <<>>
    /\ posting = None
    /\ failCount = 0
    /\ lastLog = -LogInterval
    /\ now = 0
    /\ taken = <<>>
    /\ fate = [e \in Events |-> "none"]
    /\ reported = 0
    /\ logTimes = <<>>

Enabled == url # "unset"

\* record: a disabled emitter returns at once, an enabled one builds the
\* event and calls emit.
Record(e) ==
    /\ pc[e] = "idle"
    /\ IF Enabled
       THEN pc' = [pc EXCEPT ![e] = "send"] /\ UNCHANGED fate
       ELSE pc' = [pc EXCEPT ![e] = "done"] /\ fate' = [fate EXCEPT ![e] = "disabled"]
    /\ UNCHANGED <<url, queueVars, logVars, now>>

\* Mutant: the capacity test is off by one.
TrySendEarlyFull(e) ==
    /\ pc[e] = "send"
    /\ IF Len(ch) < QueueCap - 1
       THEN ch' = Append(ch, e) /\ pc' = [pc EXCEPT ![e] = "done"]
       ELSE pc' = [pc EXCEPT ![e] = "evict"] /\ UNCHANGED ch
    /\ UNCHANGED <<url, posting, taken, fate, logVars, now>>

\* Mutant: the send has no default case and waits for room.
TrySendBlocking(e) ==
    /\ pc[e] = "send"
    /\ Len(ch) < QueueCap
    /\ ch' = Append(ch, e) /\ pc' = [pc EXCEPT ![e] = "done"]
    /\ UNCHANGED <<url, posting, taken, fate, logVars, now>>

\* The first select of emit.
TrySend(e) ==
    /\ pc[e] = "send"
    /\ IF Len(ch) < QueueCap
       THEN ch' = Append(ch, e) /\ pc' = [pc EXCEPT ![e] = "done"]
       ELSE pc' = [pc EXCEPT ![e] = "evict"] /\ UNCHANGED ch
    /\ UNCHANGED <<url, posting, taken, fate, logVars, now>>

\* Mutant: the newest queued event is discarded instead of the oldest.
EvictNewest(e) ==
    /\ pc[e] = "evict"
    /\ pc' = [pc EXCEPT ![e] = "resend"]
    /\ IF ch = <<>>
       THEN UNCHANGED <<ch, fate>>
       ELSE /\ ch' = SubSeq(ch, 1, Len(ch) - 1)
            /\ fate' = [fate EXCEPT ![ch[Len(ch)]] = "evicted"]
    /\ UNCHANGED <<url, posting, taken, logVars, now>>

\* The second select: discard whatever is oldest by now, if anything is left.
EvictOldest(e) ==
    /\ pc[e] = "evict"
    /\ pc' = [pc EXCEPT ![e] = "resend"]
    /\ IF ch = <<>>
       THEN UNCHANGED <<ch, fate>>
       ELSE ch' = Tail(ch) /\ fate' = [fate EXCEPT ![Head(ch)] = "evicted"]
    /\ UNCHANGED <<url, posting, taken, logVars, now>>

\* Mutant: after evicting, the slot is taken to be free.
ResendUnchecked(e) ==
    /\ pc[e] = "resend"
    /\ pc' = [pc EXCEPT ![e] = "done"]
    /\ ch' = Append(ch, e)
    /\ UNCHANGED <<url, posting, taken, fate, logVars, now>>

\* The third select: the freed slot may be gone again.
Resend(e) ==
    /\ pc[e] = "resend"
    /\ pc' = [pc EXCEPT ![e] = "done"]
    /\ IF Len(ch) < QueueCap
       THEN ch' = Append(ch, e) /\ UNCHANGED fate
       ELSE fate' = [fate EXCEPT ![e] = "refused"] /\ UNCHANGED ch
    /\ UNCHANGED <<url, posting, taken, logVars, now>>

-----------------------------------------------------------------------------
\* Mutant: run leaves the last event in the channel.
ReceiveAllButLast ==
    /\ Enabled
    /\ posting = None
    /\ Len(ch) > 1
    /\ posting' = Head(ch)
    /\ taken' = Append(taken, Head(ch))
    /\ ch' = Tail(ch)
    /\ UNCHANGED <<url, pc, fate, logVars, now>>

\* run: receive the next event.
Receive ==
    /\ Enabled
    /\ posting = None
    /\ ch # <<>>
    /\ posting' = Head(ch)
    /\ taken' = Append(taken, Head(ch))
    /\ ch' = Tail(ch)
    /\ UNCHANGED <<url, pc, fate, logVars, now>>

FinishPost(f) ==
    /\ fate' = [fate EXCEPT ![posting] = f]
    /\ posting' = None
    /\ UNCHANGED <<url, pc, ch, taken, now>>

\* post gives up without a trace when http.NewRequest cannot parse the URL.
PostUnsent ==
    /\ posting # None
    /\ url = "unparsable"
    /\ FinishPost("unsent")
    /\ UNCHANGED logVars

\* The Console answered with a status below 300.
PostAcked ==
    /\ posting # None
    /\ url = "ok"
    /\ FinishPost("acked")
    /\ UNCHANGED logVars

\* Mutant: the failure being reported is not counted first.
LogFailureUncounted ==
    IF now - lastLog < LogInterval
    THEN failCount' = failCount + 1 /\ UNCHANGED <<lastLog, reported, logTimes>>
    ELSE /\ reported' = reported + failCount
         /\ logTimes' = Append(logTimes, now)
         /\ failCount' = 0
         /\ lastLog' = now

\* Mutant: lastLog is not moved forward.
LogFailureNoStamp ==
    IF now - lastLog < LogInterval
    THEN failCount' = failCount + 1 /\ UNCHANGED <<lastLog, reported, logTimes>>
    ELSE /\ reported' = reported + failCount + 1
         /\ logTimes' = Append(logTimes, now)
         /\ failCount' = 0
         /\ UNCHANGED lastLog

\* logFailure: count, and log at most once per LogInterval.
LogFailure ==
    IF now - lastLog < LogInterval
    THEN failCount' = failCount + 1 /\ UNCHANGED <<lastLog, reported, logTimes>>
    ELSE /\ reported' = reported + failCount + 1
         /\ logTimes' = Append(logTimes, now)
         /\ failCount' = 0
         /\ lastLog' = now

\* client.Do failed or timed out, or the status was 300 or more.
PostFailed ==
    /\ posting # None
    /\ url = "ok"
    /\ FinishPost("failed")
    /\ LogFailure

Tick ==
    /\ now < MaxTime
    /\ now' = now + 1
    /\ UNCHANGED <<url, pc, queueVars, fate, logVars>>

\* Nothing more to record and nothing to post: the process idles.
Quiet ==
    /\ \A e \in Events : pc[e] = "done"
    /\ ch = <<>> /\ posting = None /\ now = MaxTime
    /\ UNCHANGED vars

Emit(e) == TrySend(e) \/ EvictOldest(e) \/ Resend(e)
Post == PostUnsent \/ PostAcked \/ PostFailed

Next ==
    \/ \E e \in Events : Record(e) \/ Emit(e)
    \/ Receive \/ Post
    \/ Tick \/ Quiet

\* A handler inside emit is a running goroutine.
HandlersRun == \A e \in Events : WF_vars(Emit(e))

\* run() is a running goroutine and the 2s client timeout ends every post.
PosterRuns == WF_vars(Receive) /\ WF_vars(Post)

Spec == Init /\ [][Next]_vars
FairSpec == Spec /\ HandlersRun /\ PosterRuns

-----------------------------------------------------------------------------
TypeOK ==
    /\ url \in {"unset", "unparsable", "ok"}
    /\ pc \in [Events -> {"idle", "send", "evict", "resend", "done"}]
    /\ ch \in Seq(Events)
    /\ posting \in Events \cup {None}
    /\ failCount \in Nat
    /\ lastLog \in Int
    /\ now \in 0..MaxTime
    /\ taken \in Seq(Events)
    /\ fate \in [Events -> Fates]
    /\ reported \in Nat
    /\ logTimes \in Seq(Nat)

\* Where an event can be.
Places == {"handler", "queue", "poster", "gone"}
At(e, place) ==
    \/ place = "handler" /\ pc[e] # "done"
    \/ place = "queue"   /\ e \in Range(ch)
    \/ place = "poster"  /\ posting = e
    \/ place = "gone"    /\ fate[e] # "none"

(* Every event is in exactly one place: still with its handler, in the     *)
(* channel, being posted, or finished with a known fate.  No interleaving  *)
(* of the three selects of emit (events.go:96-110) with other handlers and *)
(* with run duplicates an event or drops one without its being evicted or  *)
(* refused; the channel holds no event twice and never exceeds its         *)
(* capacity.                                                               *)
Conservation ==
    /\ Len(ch) <= QueueCap
    /\ IsInjective(ch)
    /\ \A e \in Events : \E p \in Places :
          At(e, p) /\ \A q \in Places : At(e, q) => q = p

(* Dropping is only a response to overflow: as long as no more events were *)
(* recorded than the channel holds, none is lost, however slow or dead the *)
(* Console is (events.go:48-52, drop-oldest-on-overflow).                  *)
NoLossBelowCapacity ==
    Cardinality(Recorded) <= QueueCap => Lost = {}

(* The failure counts in the log lines, plus the count waiting for the     *)
(* next line, add up to the posts that failed (events.go:146-158): a       *)
(* failure is neither dropped nor reported twice.                          *)
FailuresAccounted ==
    reported + failCount = Cardinality({e \in Events : fate[e] = "failed"})

(* Two failure log lines are never closer than LogInterval                 *)
(* (events.go:144-145, a downed Console does not spam the log).            *)
LogRateLimited ==
    \A i, j \in DOMAIN logTimes : i < j => logTimes[j] - logTimes[i] >= LogInterval

(* The emitter is a best-effort feed: bounded, first in first out, at most *)
(* once, lossy only at the oldest end or on a full queue.                  *)
Feed == INSTANCE BestEffortFeed
          WITH Items <- Events, Capacity <- QueueCap, CanRestart <- FALSE,
               waiting <- ch, lost <- Lost
ImplementsFeed == Feed!Spec

(* With run() alive, every queued event leaves the channel and every event *)
(* taken is finished: no event waits forever behind a Console that fails.  *)
QueueDrains == \A e \in Events : e \in Range(ch) ~> fate[e] # "none"
=============================================================================
