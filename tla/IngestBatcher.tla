---------------------------- MODULE IngestBatcher ----------------------------
(***************************************************************************)
(* The Console's ingest path: handleIngest                                 *)
(* (src/web/internal/server/handlers_api.go) and the Batcher               *)
(* (src/web/internal/ingest/batcher.go), with the three transactions of a  *)
(* batch (store.InsertEvents, store.UpsertRollups, store.SetSetting).      *)
(*                                                                         *)
(* Handlers enqueue with three separate non-blocking channel operations,   *)
(* one goroutine (run) collects events and persists them on a tick, on     *)
(* Flush and on Close, and the process may be restarted at any point: what *)
(* is in memory is lost, what was committed stays.                         *)
(*                                                                         *)
(* An event stands for the request that posts it; pc[e] is where its       *)
(* handler is.  taken, fate, before, missed and stale are history.         *)
(***************************************************************************)
EXTENDS OrderedSeqs, Functions

CONSTANTS
    Events,         \* the requests to POST /api/v1/ingest
    Request,        \* Request[e]: what the checks see of e, see Requests
    Buckets,        \* the (hour, provider, verdict) keys of event_rollups
    Times,          \* received_at values
    QueueCap,       \* channel capacity (1024 in the code)
    Flushers,       \* calls of Flush
    Closer,         \* the call of Close, which main never makes
    MayClose,       \* whether it is made
    MaxCrashes,     \* bound on restarts of the process
    None            \* no caller

\* bucket is <<hourBucket(ReceivedAt), Provider, Verdict>>, whatever it is.
Requests ==
    [readable : BOOLEAN, toConsole : BOOLEAN, signed : BOOLEAN,
     decodes : BOOLEAN, at : Times, bucket : Buckets]

ASSUME BatcherAssumption ==
    /\ IsFiniteSet(Events)
    /\ Request \in [Events -> Requests]
    /\ Times \subseteq Nat \ {0}
    /\ QueueCap \in Nat \ {0}
    /\ MaxCrashes \in Nat
    /\ MayClose \in BOOLEAN
    /\ Closer \notin Flushers
    /\ None \notin Flushers \cup {Closer}

VARIABLES
    pc,         \* pc[e]: "idle", "send", "evict", "resend", "done", "gone"
    status,     \* status[e]: the HTTP status answered, 0 before
    ch,         \* b.ch
    rpc,        \* where run is
    pending,    \* run's pending
    caller,     \* whom run replies to after this drain: a caller or None
    call,       \* call[c]: "idle", "calling", "waiting", "done", "gone"
    closed,     \* b.done is closed
    rows,       \* table events, in id order
    rollups,    \* table event_rollups
    lastIngest, \* settings.last_ingest_at, 0 if absent
    crashes,    \* restarts so far
    taken,      \* events run received from ch, in order
    fate,       \* fate[e]: what became of an enqueued event
    before,     \* before[c]: events whose Enqueue returned before call c
    missed,     \* rows whose batch has no rollups
    stale       \* last_ingest_at was not written for the last stored batch

handlerVars == <<pc, status>>
callVars    == <<caller, call, closed, before>>
dbVars      == <<rows, rollups, lastIngest, missed, stale>>
vars == <<handlerVars, ch, rpc, pending, callVars, dbVars, crashes, taken, fate>>

Callers == Flushers \cup {Closer}

\* Events the channel lost: by overflow, or by a restart.
Lost == {e \in Events : fate[e] \in {"evicted", "refused", "dropped"}}

Occurs(s, b) == Cardinality({i \in DOMAIN s : Request[s[i]].bucket = b})

-----------------------------------------------------------------------------
Init ==
    /\ pc = [e \in Events |-> "idle"]
    /\ status = [e \in Events |-> 0]
    /\ ch = <<>>
    /\ rpc = "select"
    /\ pending = <<>>
    /\ caller = None
    /\ call = [c \in Callers |-> "idle"]
    /\ closed = FALSE
    /\ rows = <<>>
    /\ rollups = [b \in Buckets |-> 0]
    /\ lastIngest = 0
    /\ crashes = 0
    /\ taken = <<>>
    /\ fate = [e \in Events |-> "none"]
    /\ before = [c \in Callers |-> {}]
    /\ missed = {}
    /\ stale = FALSE

-----------------------------------------------------------------------------
\* Mutant: the signature is not checked.
CheckStatusUnsigned(q) ==
    IF ~q.readable THEN 400
    ELSE IF ~q.toConsole THEN 401
    ELSE IF ~q.decodes THEN 400
    ELSE 202

\* handleIngest up to its call of Enqueue: the checks, in their order.
CheckStatus(q) ==
    IF ~q.readable THEN 400
    ELSE IF ~q.toConsole \/ ~q.signed THEN 401
    ELSE IF ~q.decodes THEN 400
    ELSE 202

HandleIngest(e) ==
    /\ pc[e] = "idle"
    /\ IF CheckStatus(Request[e]) = 202
       THEN pc' = [pc EXCEPT ![e] = "send"] /\ UNCHANGED status
       ELSE /\ pc' = [pc EXCEPT ![e] = "done"]
            /\ status' = [status EXCEPT ![e] = CheckStatus(Request[e])]
    /\ UNCHANGED <<ch, rpc, pending, callVars, dbVars, crashes, taken, fate>>

\* Enqueue returned: the handler answers 202.
Enqueued(e) ==
    /\ pc' = [pc EXCEPT ![e] = "done"]
    /\ status' = [status EXCEPT ![e] = 202]

\* The first select of Enqueue.
TrySend(e) ==
    /\ pc[e] = "send"
    /\ IF Len(ch) < QueueCap
       THEN ch' = Append(ch, e) /\ Enqueued(e)
       ELSE pc' = [pc EXCEPT ![e] = "evict"] /\ UNCHANGED <<ch, status>>
    /\ UNCHANGED <<rpc, pending, callVars, dbVars, crashes, taken, fate>>

\* Mutant: the newest queued event is discarded instead of the oldest.
EvictNewest(e) ==
    /\ pc[e] = "evict"
    /\ pc' = [pc EXCEPT ![e] = "resend"]
    /\ IF ch = <<>>
       THEN UNCHANGED <<ch, fate>>
       ELSE /\ ch' = SubSeq(ch, 1, Len(ch) - 1)
            /\ fate' = [fate EXCEPT ![ch[Len(ch)]] = "evicted"]
    /\ UNCHANGED <<status, rpc, pending, callVars, dbVars, crashes, taken>>

\* The second select.
EvictOldest(e) ==
    /\ pc[e] = "evict"
    /\ pc' = [pc EXCEPT ![e] = "resend"]
    /\ IF ch = <<>>
       THEN UNCHANGED <<ch, fate>>
       ELSE ch' = Tail(ch) /\ fate' = [fate EXCEPT ![Head(ch)] = "evicted"]
    /\ UNCHANGED <<status, rpc, pending, callVars, dbVars, crashes, taken>>

\* The third select.
Resend(e) ==
    /\ pc[e] = "resend"
    /\ Enqueued(e)
    /\ IF Len(ch) < QueueCap
       THEN ch' = Append(ch, e) /\ UNCHANGED fate
       ELSE fate' = [fate EXCEPT ![e] = "refused"] /\ UNCHANGED ch
    /\ UNCHANGED <<rpc, pending, callVars, dbVars, crashes, taken>>

-----------------------------------------------------------------------------
\* Flush: b.flush <- reply blocks until run takes it.
CallFlush(f) ==
    /\ call[f] = "idle"
    /\ call' = [call EXCEPT ![f] = "calling"]
    /\ before' = [before EXCEPT ![f] = {e \in Events : status[e] = 202}]
    /\ UNCHANGED <<handlerVars, ch, rpc, pending, caller, closed, dbVars,
                   crashes, taken, fate>>

\* Close: close(b.done), then wait for run.
CallClose ==
    /\ MayClose
    /\ call[Closer] = "idle"
    /\ call' = [call EXCEPT ![Closer] = "waiting"]
    /\ closed' = TRUE
    /\ before' = [before EXCEPT ![Closer] = {e \in Events : status[e] = 202}]
    /\ UNCHANGED <<handlerVars, ch, rpc, pending, caller, dbVars,
                   crashes, taken, fate>>

-----------------------------------------------------------------------------
\* run receives an event: in its select, or in drainChannel.
TakeEvent ==
    /\ rpc \in {"select", "drainChannel"}
    /\ ch # <<>>
    /\ ch' = Tail(ch)
    /\ pending' = Append(pending, Head(ch))
    /\ taken' = Append(taken, Head(ch))
    /\ UNCHANGED <<handlerVars, rpc, callVars, dbVars, crashes, fate>>

\* Mutant: a tick waits for a batch of two.
TickFullBatch ==
    /\ rpc = "select"
    /\ Len(pending) > 1
    /\ rpc' = "insert"
    /\ UNCHANGED <<handlerVars, ch, pending, callVars, dbVars, crashes, taken, fate>>

\* A tick; with nothing pending drain returns at once.
Tick ==
    /\ rpc = "select"
    /\ pending # <<>>
    /\ rpc' = "insert"
    /\ UNCHANGED <<handlerVars, ch, pending, callVars, dbVars, crashes, taken, fate>>

\* Mutant: Flush drains pending without drainChannel.
TakeFlushPendingOnly(f) ==
    /\ rpc = "select"
    /\ call[f] = "calling"
    /\ IF pending = <<>>
       THEN call' = [call EXCEPT ![f] = "done"] /\ UNCHANGED <<caller, rpc>>
       ELSE call' = [call EXCEPT ![f] = "waiting"] /\ caller' = f /\ rpc' = "insert"
    /\ UNCHANGED <<handlerVars, ch, pending, closed, before, dbVars, crashes, taken, fate>>

TakeFlush(f) ==
    /\ rpc = "select"
    /\ call[f] = "calling"
    /\ call' = [call EXCEPT ![f] = "waiting"]
    /\ caller' = f
    /\ rpc' = "drainChannel"
    /\ UNCHANGED <<handlerVars, ch, pending, closed, before, dbVars, crashes, taken, fate>>

TakeDone ==
    /\ rpc = "select"
    /\ closed
    /\ caller' = Closer
    /\ rpc' = "drainChannel"
    /\ UNCHANGED <<handlerVars, ch, pending, call, closed, before, dbVars, crashes, taken, fate>>

\* Mutant: drain returns the batch it has just persisted.
AfterDrainKeepsBatch ==
    /\ caller' = None
    /\ rpc' = IF caller = Closer THEN "returned" ELSE "select"
    /\ call' = IF caller = None THEN call ELSE [call EXCEPT ![caller] = "done"]
    /\ UNCHANGED pending

\* After drain: reply nil to Flush, return after Close, or loop.
AfterDrain ==
    /\ pending' = <<>>
    /\ caller' = None
    /\ rpc' = IF caller = Closer THEN "returned" ELSE "select"
    /\ call' = IF caller = None THEN call ELSE [call EXCEPT ![caller] = "done"]

\* drainChannel found the channel empty; drain of nothing returns at once.
EndDrainChannel ==
    /\ rpc = "drainChannel"
    /\ ch = <<>>
    /\ IF pending = <<>>
       THEN AfterDrain
       ELSE rpc' = "insert" /\ UNCHANGED <<pending, caller, call>>
    /\ UNCHANGED <<handlerVars, ch, closed, before, dbVars, crashes, taken, fate>>

\* InsertEvents commits the whole batch.
Insert ==
    /\ rpc = "insert"
    /\ rows' = rows \o pending
    /\ fate' = [e \in Events |-> IF e \in Range(pending) THEN "stored" ELSE fate[e]]
    /\ rpc' = "rollup"
    /\ UNCHANGED <<handlerVars, ch, pending, callVars, rollups, lastIngest,
                   missed, stale, crashes, taken>>

\* Mutant: drain logs the failure and goes on.
InsertFailsGoesOn ==
    /\ rpc = "insert"
    /\ fate' = [e \in Events |-> IF e \in Range(pending) THEN "discarded" ELSE fate[e]]
    /\ rpc' = "rollup"
    /\ UNCHANGED <<handlerVars, ch, pending, callVars, dbVars, crashes, taken>>

\* Mutant: the failure leaves the loop body without a reply.
InsertFailsNoReply ==
    /\ rpc = "insert"
    /\ fate' = [e \in Events |-> IF e \in Range(pending) THEN "discarded" ELSE fate[e]]
    /\ pending' = <<>> /\ caller' = None /\ rpc' = "select"
    /\ UNCHANGED <<handlerVars, ch, call, closed, before, dbVars, crashes, taken>>

\* InsertEvents fails and rolls back: drain logs and forgets the batch.
InsertFails ==
    /\ rpc = "insert"
    /\ fate' = [e \in Events |-> IF e \in Range(pending) THEN "discarded" ELSE fate[e]]
    /\ AfterDrain
    /\ UNCHANGED <<handlerVars, ch, closed, before, dbVars, crashes, taken>>

\* rollupDeltas and UpsertRollups.
Rollup ==
    /\ rpc = "rollup"
    /\ rollups' = [b \in Buckets |-> rollups[b] + Occurs(pending, b)]
    /\ rpc' = "setting"
    /\ UNCHANGED <<handlerVars, ch, pending, callVars, rows, lastIngest,
                   missed, stale, crashes, taken, fate>>

\* UpsertRollups fails: drain logs and goes on.
RollupFails ==
    /\ rpc = "rollup"
    /\ missed' = missed \cup Range(pending)
    /\ rpc' = "setting"
    /\ UNCHANGED <<handlerVars, ch, pending, callVars, rows, rollups, lastIngest,
                   stale, crashes, taken, fate>>

\* Mutant: the batch's first event, not its last.
SetFirstIngest ==
    /\ rpc = "setting"
    /\ lastIngest' = Request[pending[1]].at
    /\ stale' = FALSE
    /\ AfterDrain
    /\ UNCHANGED <<handlerVars, ch, closed, before, rows, rollups, missed,
                   crashes, taken, fate>>

\* SetSetting("last_ingest_at", ReceivedAt of the batch's last event).
SetLastIngest ==
    /\ rpc = "setting"
    /\ lastIngest' = Request[pending[Len(pending)]].at
    /\ stale' = FALSE
    /\ AfterDrain
    /\ UNCHANGED <<handlerVars, ch, closed, before, rows, rollups, missed,
                   crashes, taken, fate>>

SetLastIngestFails ==
    /\ rpc = "setting"
    /\ stale' = TRUE
    /\ AfterDrain
    /\ UNCHANGED <<handlerVars, ch, closed, before, rows, rollups, lastIngest,
                   missed, crashes, taken, fate>>

-----------------------------------------------------------------------------
\* The process dies and is started again on the same database.
Restart ==
    /\ crashes < MaxCrashes
    /\ crashes' = crashes + 1
    /\ pc' = [e \in Events |-> IF pc[e] \in {"idle", "done"} THEN pc[e] ELSE "gone"]
    /\ ch' = <<>>
    /\ pending' = <<>>
    /\ rpc' = "select"
    /\ caller' = None
    /\ call' = [c \in Callers |-> IF call[c] \in {"idle", "done"} THEN call[c] ELSE "gone"]
    /\ closed' = FALSE
    /\ fate' = [e \in Events |->
                  IF e \in Range(ch) THEN "dropped"
                  ELSE IF e \in Range(pending) /\ fate[e] = "none" THEN "crashed"
                  ELSE fate[e]]
    /\ missed' = IF rpc = "rollup" THEN missed \cup Range(pending) ELSE missed
    /\ stale' = (stale \/ rpc \in {"rollup", "setting"})
    /\ UNCHANGED <<status, rows, rollups, lastIngest, taken, before>>

\* Nothing is being handled and nothing queued: the process idles.
Quiet ==
    /\ \A e \in Events : pc[e] \in {"idle", "done", "gone"}
    /\ rpc = "returned" \/ (rpc = "select" /\ ch = <<>> /\ pending = <<>>)
    /\ UNCHANGED vars

Enqueue(e) == TrySend(e) \/ EvictOldest(e) \/ Resend(e)
Drain ==
    \/ EndDrainChannel
    \/ Insert \/ InsertFails
    \/ Rollup \/ RollupFails
    \/ SetLastIngest \/ SetLastIngestFails
TakeCall == TakeDone \/ \E f \in Flushers : TakeFlush(f)

Next ==
    \/ \E e \in Events : HandleIngest(e) \/ Enqueue(e)
    \/ \E f \in Flushers : CallFlush(f)
    \/ CallClose
    \/ TakeEvent \/ Tick \/ TakeCall \/ Drain
    \/ Restart \/ Quiet

\* run is one goroutine, its ticker keeps ticking, and SQLite answers every
\* transaction (busy_timeout).  A ready flush is not starved for ever: the
\* other cases of the select run out.
RunRuns == WF_vars(TakeEvent) /\ WF_vars(Tick) /\ WF_vars(Drain) /\ WF_vars(TakeCall)

Spec == Init /\ [][Next]_vars
FairSpec == Spec /\ RunRuns

-----------------------------------------------------------------------------
\* The part of pending that no transaction has stored yet.
Unstored == IF rpc \in {"rollup", "setting"} THEN <<>> ELSE pending

(* What the database holds, followed by the batch being collected, is what *)
(* run received, in that order, less the batches an InsertEvents failure   *)
(* or a restart lost whole: no interleaving stores an event twice or out   *)
(* of order (batcher.go:86-145).                                           *)
StoredInOrder ==
    rows \o Unstored =
        Filter(taken, {e \in Events : fate[e] \notin {"discarded", "crashed"}})

(* A request that fails a check never reaches the channel or the database, *)
(* and one that was answered 202 is queued, pending, stored, or lost for a *)
(* known reason (handlers_api.go:11-15; batcher.go:52-69).                 *)
AcceptedIsAccountedFor ==
    \A e \in Events :
        /\ status[e] = 202 =>
              (e \notin Range(ch) \cup Range(Unstored)) = (fate[e] # "none")
        /\ e \in Range(ch) \cup Range(taken) =>
              LET q == Request[e]
              IN status[e] = 202 /\ q.readable /\ q.toConsole /\ q.signed /\ q.decodes

\* Rows that are not in the rollups: their upsert failed, or is still to come.
NotRolledUp == missed \cup (IF rpc = "rollup" THEN Range(pending) ELSE {})

(* The rollups are the counts of the stored events, bucket by bucket, less *)
(* those of batches whose upsert failed or whose process died first: they  *)
(* never count an event that is not in the table, nor one twice            *)
(* (batcher.go:133-139, store/events.go:71-96).                            *)
RollupsMatchEvents ==
    \A b \in Buckets :
        rollups[b] = Cardinality({e \in Range(rows) \ NotRolledUp : Request[e].bucket = b})

(* last_ingest_at is the timestamp of the last stored event, unless its    *)
(* own write failed or was cut off, and then it is that of an earlier one  *)
(* (batcher.go:140-143): the status strip never shows an event that was    *)
(* not stored.                                                             *)
LastIngestIsStored ==
    /\ lastIngest # 0 => \E e \in Range(rows) : Request[e].at = lastIngest
    /\ rows # <<>> /\ ~stale /\ rpc \notin {"rollup", "setting"} =>
          lastIngest = Request[rows[Len(rows)]].at

(* When Flush or Close returns, run has dealt with every event enqueued    *)
(* before the call: none of them is still in the channel or in memory,     *)
(* whichever case the select chose first (batcher.go:98-108).              *)
FlushLeavesNothingBehind ==
    \A c \in Callers :
        call[c] = "done" => before[c] \cap (Range(ch) \cup Range(pending)) = {}

(* The batcher is a best-effort feed that a restart empties.               *)
Feed == INSTANCE BestEffortFeed
          WITH Items <- Events, Capacity <- QueueCap, CanRestart <- MaxCrashes > 0,
               waiting <- ch, lost <- Lost
ImplementsFeed == Feed!Spec

(* Every event the Console answered 202 for is stored or lost within       *)
(* finitely many steps, unless Close comes first: nothing waits for        *)
(* another request to push it out (batcher.go:96-97, the 100ms tick).      *)
AcceptedIsSettled ==
    \A e \in Events : status[e] = 202 ~> (fate[e] # "none" \/ closed)

(* Flush returns, or dies with the process, unless Close comes first       *)
(* (batcher.go:71-78): after Close nobody receives from b.flush any more.  *)
FlushReturns ==
    \A f \in Flushers : call[f] = "calling" ~> (call[f] \in {"done", "gone"} \/ closed)
=============================================================================
