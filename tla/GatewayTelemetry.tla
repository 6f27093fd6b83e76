-------------------------- MODULE GatewayTelemetry --------------------------
(***************************************************************************)
(* The gateway's request path composed with its event emitter: makeHandler *)
(* (src/main.go) calls events.record, and with it the three steps of emit  *)
(* (src/events.go), in the request's own goroutine, after the response is  *)
(* written and before the handler returns and net/http flushes it.         *)
(*                                                                         *)
(* Gateway and EventEmitter share the request as the event's identity;     *)
(* every step below is a step of one of them or a joint step of both.  The *)
(* gateway's crashes are Gateway's subject and do not happen here: the     *)
(* channel dies with the process.                                          *)
(***************************************************************************)
EXTENDS Gateway, Sequences, Functions

CONSTANTS QueueCap, LogInterval, MaxTime, None

ASSUME TelemetryAssumption ==
    /\ QueueCap \in Nat \ {0}
    /\ LogInterval \in Nat \ {0}
    /\ MaxTime \in Nat
    /\ None \notin Requests

VARIABLES
    url, emitPc, ch, posting, failCount, lastLog, now, taken, fate, reported, logTimes

E == INSTANCE EventEmitter WITH Events <- Requests, pc <- emitPc

emitterVars == <<url, emitPc, ch, posting, failCount, lastLog, now, taken, fate,
                 reported, logTimes>>
jointVars == <<vars, emitterVars>>

JointInit == Init /\ E!Init

\* Mutant: the event is recorded before forward returns.
RecordAndEmitEarly(r) ==
    /\ Forward(r)
    /\ E!Record(r)

\* Mutant: only accepted requests are recorded.
RecordAcceptedOnly(r) ==
    /\ RecordEvent(r)
    /\ IF VerifyOK(r) THEN E!Record(r) ELSE UNCHANGED emitterVars

\* record: the verdict becomes an event and emit starts.
RecordAndEmit(r) ==
    /\ RecordEvent(r)
    /\ E!Record(r)

\* The rest of emit, in the handler's goroutine.
Emit(r) ==
    /\ E!Emit(r)
    /\ UNCHANGED vars

\* The handler returns once emit has; a request that was not recorded never
\* called it.
ReturnAfterEmit(r) ==
    /\ emitPc[r] \in {"idle", "done"}
    /\ Return(r)
    /\ UNCHANGED emitterVars

\* The steps of makeHandler and forward before record.
Handle(r) ==
    /\ \/ ReadBody(r) \/ ReadBodyFails(r)
       \/ VerifyAccepts(r) \/ VerifyRejects(r)
       \/ Forward(r) \/ ForwardUnbuildable(r)
       \/ UpstreamAnswers(r) \/ UpstreamFails(r)
    /\ UNCHANGED emitterVars

\* The goroutine that posts events, and the clock.
Poster ==
    /\ E!Receive \/ E!Post \/ E!Tick
    /\ UNCHANGED vars

Outside == Environment /\ UNCHANGED emitterVars

JointStep(r) == Handle(r) \/ RecordAndEmit(r) \/ Emit(r) \/ ReturnAfterEmit(r)

JointNext ==
    \/ \E r \in Requests : JointStep(r)
    \/ Poster
    \/ Outside

JointSpec == JointInit /\ [][JointNext]_jointVars

\* Only the handlers' own goroutines are given fairness, for waiting on the
\* upstream too, which the 30s client timeout ends.  The poster may stop, as it
\* does for two seconds at a time while the Console is down; nothing is assumed
\* of upstream, network and providers.
HandlersFair == JointSpec /\ \A r \in Requests : WF_jointVars(JointStep(r))

-----------------------------------------------------------------------------
(* "The gateway's verdict path is completely independent of the Console    *)
(* being up" (DESIGN.md:562): every request is answered although the       *)
(* emitter's channel may be full and its goroutine may never move again,   *)
(* and although the upstream may never answer (main.go:30, events.go:91).  *)
VerdictIndependentOfConsole ==
    \A r \in Requests : pc[r] = "read" ~> pc[r] = "done"

(* What the emitter queues, posts or has posted is a request that was      *)
(* decided, with the verdict the gateway gave it and, if it was accepted   *)
(* with a status, the upstream's final answer (main.go:61-65): an event is *)
(* never queued before its outcome is known.                               *)
EventsAreOutcomes ==
    \A r \in Range(ch) \cup Range(taken) :
        /\ response[r] # 0
        /\ event[r] = IF VerifyOK(r)
                      THEN [verdict |-> "accepted", upstreamStatus |-> status[r]]
                      ELSE [verdict |-> "rejected", upstreamStatus |-> 0]

(* A provider that saw its request refused with 401 by the verifier, or    *)
(* got any answer but 400, finds an event for it in the emitter, unless    *)
(* EVENTS_URL is unset: recorded, posted, or lost to overflow, never       *)
(* forgotten.                                                              *)
AnsweredIsRecorded ==
    \A r \in Requests :
        pc[r] = "done" /\ response[r] # 400 =>
            \/ r \in Range(ch) \cup {posting}
            \/ fate[r] # "none"
=============================================================================
