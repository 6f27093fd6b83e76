---------------------------- MODULE GatewayProofs ---------------------------
(***************************************************************************)
(* What the request path promises for any deliveries, providers, bodies,   *)
(* retries and crashes.  The properties speak of what a provider, the      *)
(* upstream and the event feed see; the invariant follows one request      *)
(* through its handler (HandlerOK) and what of it is outside (UpstreamOK). *)
(* The second half adds the event emitter: composed with it the request    *)
(* path does what it does alone, and so does the emitter, and an invariant *)
(* over both says where a request's event is.                              *)
(***************************************************************************)
EXTENDS GatewayTelemetry, QueueLemmas

Codes == {0, 200, 400, 401, 502}
Events == [verdict : {"none", "accepted", "rejected"}, upstreamStatus : Codes]

TypeOK ==
    /\ deliver \in [Deliveries -> [provider : Providers, body : Bodies]]
    /\ signed \in [Deliveries -> Providers \X Bodies]
    /\ sameSecret \in BOOLEAN
    /\ tries \in [Deliveries -> Nat]
    /\ waitingFor \in [Deliveries -> Nat]
    /\ acked \subseteq Deliveries
    /\ pc \in [Requests -> {"none", "read", "verify", "forward", "await",
                            "record", "return", "done", "killed"}]
    /\ response \in [Requests -> Codes]
    /\ status \in [Requests -> Codes]
    /\ event \in [Requests -> Events]
    /\ wire \subseteq Requests
    /\ reply \in [Requests -> {0, 200, 401, 502}]
    /\ arrivals \in [Requests -> Nat]

\* The message the gateway sends on for r.
Message(r) == <<Provider(r), Body(r), r>>

\* What is on the wire was verified, it is there once, and what the upstream
\* accepted came from it or is a copy of it.
UpstreamOK ==
    /\ \A r \in Requests :
        /\ r \in wire => VerifyOK(r) /\ reply[r] = 0
        /\ arrivals[r] # 0 => VerifyOK(r)
        /\ reply[r] = 200 => Message(r) \in processed
    /\ \A x \in processed : \E r \in Requests : VerifyOK(r) /\ x = Message(r)
    /\ \A m \in strays : \E r \in Requests : VerifyOK(r) /\ m = <<Provider(r), Body(r)>>

\* How a handler that is about to record its event has answered.
AnswerOK(r) ==
    IF VerifyOK(r)
    THEN \/ reply[r] = response[r] /\ status[r] = response[r] /\ response[r] # 0
         \/ status[r] = 0 /\ response[r] = 502
    ELSE response[r] = 401

HandlerOK ==
    \A r \in Requests :
        /\ pc[r] = "none" <=> r[2] > tries[r[1]]
        /\ pc[r] \in {"none", "read", "verify", "forward"} => r \notin wire /\ reply[r] = 0
        /\ pc[r] \in {"none", "read", "verify", "forward", "await"} =>
              response[r] = 0 /\ status[r] = 0
        /\ pc[r] \in {"none", "read", "verify", "forward", "await", "record"} =>
              event[r].verdict = "none"
        /\ pc[r] \in {"forward", "await"} => VerifyOK(r)
        /\ pc[r] = "record" => AnswerOK(r)
        /\ pc[r] = "return" => (event[r].verdict = "none" <=> response[r] = 400)
        /\ response[r] = 200 => reply[r] = 200
        /\ event[r].verdict = "accepted" => response[r] # 0

Inv ==
    /\ TypeOK
    /\ UpstreamOK
    /\ HandlerOK
    /\ AckedWasProcessed
    /\ EventMatchesResponse

-----------------------------------------------------------------------------
LEMMA InvInit == Init => Inv
BY GatewayAssumption
DEF Init, Inv, TypeOK, UpstreamOK, HandlerOK, AckedWasProcessed, EventMatchesResponse, Events,
    Codes, NoEvent, Requests

\* A step of the handler that does not touch what is outside of it.
LEMMA HandlerStep ==
    ASSUME Inv, NEW r \in Requests,
           \/ ReadBody(r) \/ ReadBodyFails(r) \/ VerifyAccepts(r) \/ VerifyRejects(r)
           \/ ForwardUnbuildable(r) \/ UpstreamAnswers(r) \/ UpstreamFails(r) \/ RecordEvent(r)
    PROVE  Inv'
<1> USE DEF ReadBody, ReadBodyFails, VerifyAccepts, VerifyRejects, ForwardUnbuildable,
            UpstreamAnswers, UpstreamFails, RecordEvent, Goto, Respond, providerVars,
            configVars, upstreamVars
<1>1. TypeOK'
  <2>1. Verdict(r) \in Events
    BY DEF Inv, TypeOK, Verdict, Events, Codes
  <2>2. response' \in [Requests -> Codes] /\ status' \in [Requests -> Codes]
    BY DEF Inv, TypeOK, Codes
  <2>3. event' \in [Requests -> Events]
    BY <2>1 DEF Inv, TypeOK
  <2>4. pc' \in [Requests -> {"none", "read", "verify", "forward", "await",
                              "record", "return", "done", "killed"}]
    BY DEF Inv, TypeOK
  <2>5. UNCHANGED <<deliver, signed, sameSecret, tries, waitingFor, acked, wire, reply, arrivals>>
    OBVIOUS
  <2> HIDE DEF ReadBody, ReadBodyFails, VerifyAccepts, VerifyRejects, ForwardUnbuildable,
               UpstreamAnswers, UpstreamFails, RecordEvent
  <2> QED BY <2>2, <2>3, <2>4, <2>5 DEF Inv, TypeOK
<1>2. UNCHANGED <<deliver, signed, tries, acked, wire, reply, arrivals, processed, strays>>
  OBVIOUS
<1>3. UpstreamOK' /\ AckedWasProcessed'
  BY <1>2 DEF Inv, UpstreamOK, AckedWasProcessed, Message, VerifyOK, Provider, Body
<1>4. \A q \in Requests : VerifyOK(q)' <=> VerifyOK(q)
  BY <1>2 DEF VerifyOK, Provider, Body
<1>5. \A q \in Requests \ {r} :
         /\ pc'[q] = pc[q] /\ response'[q] = response[q]
         /\ status'[q] = status[q] /\ event'[q] = event[q]
  BY DEF Inv, TypeOK
<1>6. HandlerOK'
  BY <1>2, <1>4, <1>5 DEF Inv, TypeOK, HandlerOK, AnswerOK, UpstreamOK, Verdict
<1>7. EventMatchesResponse'
  BY <1>2, <1>4, <1>5 DEF Inv, TypeOK, HandlerOK, AnswerOK, UpstreamOK, EventMatchesResponse, Verdict
<1> QED BY <1>1, <1>3, <1>6, <1>7 DEF Inv

\* The request leaves for the upstream, once.
LEMMA ForwardStep == ASSUME Inv, NEW r \in Requests, Forward(r) PROVE Inv'
<1> USE DEF Forward, Goto, providerVars, configVars
<1>1. TypeOK'
  BY DEF Inv, TypeOK
<1>2. UNCHANGED <<deliver, signed, tries, acked, response, status, event, reply, arrivals,
                  processed, strays>>
  OBVIOUS
<1>3. \A q \in Requests : VerifyOK(q)' <=> VerifyOK(q)
  BY <1>2 DEF VerifyOK, Provider, Body
<1>4. VerifyOK(r) /\ reply[r] = 0 /\ event[r].verdict = "none"
  BY DEF Inv, HandlerOK
<1>5. UpstreamOK' /\ AckedWasProcessed'
  BY <1>2, <1>3, <1>4 DEF Inv, UpstreamOK, AckedWasProcessed, Message, Provider, Body
<1>6. HandlerOK'
  BY <1>2, <1>3, <1>4 DEF Inv, TypeOK, HandlerOK, AnswerOK
<1>7. EventMatchesResponse'
  BY <1>2, <1>3, <1>4 DEF Inv, TypeOK, HandlerOK, EventMatchesResponse
<1> QED BY <1>1, <1>5, <1>6, <1>7 DEF Inv

\* The provider sees a 2xx only if the upstream answered it.
LEMMA ReturnStep == ASSUME Inv, NEW r \in Requests, Return(r) PROVE Inv'
<1> USE DEF Return, Goto, configVars, upstreamVars
<1>1. r[1] \in Deliveries /\ r[2] \in 1..MaxAttempts /\ r = <<r[1], r[2]>>
  BY DEF Requests
<1>2. TypeOK'
  <2>1. waitingFor' \in [Deliveries -> Nat]
    BY <1>1 DEF Inv, TypeOK
  <2>2. acked' \subseteq Deliveries
    BY <1>1 DEF Inv, TypeOK
  <2>3. pc' \in [Requests -> {"none", "read", "verify", "forward", "await",
                              "record", "return", "done", "killed"}]
    BY DEF Inv, TypeOK
  <2>4. UNCHANGED <<deliver, signed, sameSecret, tries, response, status, event, wire, reply,
                    arrivals>>
    OBVIOUS
  <2> HIDE DEF Return
  <2> QED BY <2>1, <2>2, <2>3, <2>4 DEF Inv, TypeOK
<1>3. UNCHANGED <<deliver, signed, tries, response, status, event, wire, reply, arrivals,
                  processed, strays>>
  OBVIOUS
<1>4. \A q \in Requests : VerifyOK(q)' <=> VerifyOK(q)
  BY <1>3 DEF VerifyOK, Provider, Body
<1>5. response[r] \in 200..299 => Message(r) \in processed
  BY DEF Inv, TypeOK, Codes, HandlerOK, UpstreamOK
<1>6. AckedWasProcessed'
  <2>1. acked' \subseteq acked \cup {r[1]} /\ (r[1] \in acked' \ acked => response[r] \in 200..299)
    OBVIOUS
  <2>2. Message(r) = <<deliver[r[1]].provider, deliver[r[1]].body, <<r[1], r[2]>>>>
    BY <1>1 DEF Message, Provider, Body
  <2> QED BY <1>1, <1>3, <1>5, <2>1, <2>2 DEF Inv, AckedWasProcessed
<1>7. UpstreamOK' /\ HandlerOK' /\ EventMatchesResponse'
  BY <1>3, <1>4 DEF Inv, TypeOK, UpstreamOK, HandlerOK, AnswerOK, EventMatchesResponse,
                    Message, Provider, Body
<1> QED BY <1>2, <1>6, <1>7 DEF Inv

\* Attempts, timeouts and crashes leave what a handler answered as it was.
LEMMA ProviderStep ==
    ASSUME Inv, (\E d \in Deliveries : Attempt(d) \/ GiveUp(d)) \/ Crash
    PROVE  Inv'
<1>1. UNCHANGED <<deliver, signed, acked, response, status, event, wire, reply, arrivals,
                  processed, strays>>
  BY DEF Attempt, GiveUp, Crash, configVars, handlerVars, upstreamVars
<1>2. \A q \in Requests : VerifyOK(q)' <=> VerifyOK(q)
  BY <1>1 DEF VerifyOK, Provider, Body
<1>3. UpstreamOK' /\ AckedWasProcessed'
  BY <1>1, <1>2 DEF Inv, UpstreamOK, AckedWasProcessed, Message, Provider, Body
<1>4. TypeOK' /\ HandlerOK' /\ EventMatchesResponse'
  <2>1. ASSUME NEW d \in Deliveries, Attempt(d)
        PROVE  TypeOK' /\ HandlerOK' /\ EventMatchesResponse'
    <3> DEFINE r == <<d, tries[d] + 1>>
    <3>1. r \in Requests /\ r[1] = d /\ r[2] = tries[d] + 1
      BY <2>1, GatewayAssumption DEF Attempt, Requests, Inv, TypeOK
    <3>2. pc[r] = "none"
      BY <3>1 DEF Inv, HandlerOK, TypeOK
    <3>3. pc' = [pc EXCEPT ![r] = "read"] /\ tries' = [tries EXCEPT ![d] = @ + 1]
      BY <2>1 DEF Attempt
    <3>4. TypeOK'
      BY <1>1, <2>1, <3>1, <3>3 DEF Attempt, Inv, TypeOK, configVars
    <3>5. \A q \in Requests :
              /\ q[1] \in Deliveries /\ q[2] \in Nat
              /\ (q[1] = d /\ q[2] = tries[d] + 1 => q = r)
      BY GatewayAssumption DEF Requests
    <3> HIDE DEF r
    <3>6. ASSUME NEW q \in Requests PROVE pc'[q] = "none" <=> q[2] > tries'[q[1]]
      <4>1. q[1] \in Deliveries /\ q[2] \in Nat /\ tries[q[1]] \in Nat /\ tries[d] \in Nat
        BY <3>5 DEF Inv, TypeOK
      <4>2. pc[q] = "none" <=> q[2] > tries[q[1]]
        BY DEF Inv, HandlerOK
      <4>3. CASE q = r
        BY <3>1, <3>3, <4>1, <4>3 DEF Inv, TypeOK
      <4>4. CASE q # r
        <5>1. pc'[q] = pc[q]
          BY <3>1, <3>3, <4>4 DEF Inv, TypeOK
        <5>2. CASE q[1] # d
          BY <3>3, <4>1, <4>2, <5>1, <5>2 DEF Inv, TypeOK
        <5>3. CASE q[1] = d
          <6>1. tries'[q[1]] = tries[d] + 1 /\ q[2] # tries[d] + 1
            BY <3>3, <3>5, <4>1, <4>4, <5>3 DEF Inv, TypeOK
          <6> QED BY <4>1, <4>2, <5>1, <5>3, <6>1
        <5> QED BY <5>2, <5>3
      <4> QED BY <4>3, <4>4
    <3>7. HandlerOK'
      BY <1>1, <1>2, <3>1, <3>2, <3>3, <3>6 DEF Inv, TypeOK, HandlerOK, AnswerOK
    <3>8. EventMatchesResponse'
      BY <1>1, <1>2, <3>1, <3>2, <3>3 DEF Inv, TypeOK, EventMatchesResponse
    <3> QED BY <3>4, <3>7, <3>8
  <2>2. ASSUME NEW d \in Deliveries, GiveUp(d)
        PROVE  TypeOK' /\ HandlerOK' /\ EventMatchesResponse'
    BY <1>1, <1>2, <2>2 DEF GiveUp, Inv, TypeOK, HandlerOK, AnswerOK, EventMatchesResponse,
                            configVars, handlerVars
  <2>3. ASSUME Crash PROVE TypeOK' /\ HandlerOK' /\ EventMatchesResponse'
    BY <1>1, <1>2, <2>3 DEF Crash, Inv, TypeOK, HandlerOK, AnswerOK, EventMatchesResponse,
                            configVars
  <2> QED BY <2>1, <2>2, <2>3
<1> QED BY <1>3, <1>4 DEF Inv

\* The upstream answers what was verified, and copies of it.
LEMMA UpstreamStep ==
    ASSUME Inv, NEW r \in Requests,
           \/ UpstreamHandles(r) \/ WireLoses(r)
           \/ \E p \in Providers, b \in Bodies : StrayMessage(p, b, r)
    PROVE  Inv'
<1> USE DEF providerVars, configVars, handlerVars
<1>1. UNCHANGED <<deliver, signed, tries, waitingFor, acked, sameSecret, pc, response, status,
                  event>>
  BY DEF UpstreamHandles, WireLoses, StrayMessage
<1>2. \A q \in Requests : VerifyOK(q)' <=> VerifyOK(q)
  BY <1>1 DEF VerifyOK, Provider, Body
<1>3. \A q \in Requests : Message(q)' = Message(q)
  BY <1>1 DEF Message, Provider, Body
<1>4. CASE UpstreamHandles(r)
  <2>1. VerifyOK(r) /\ reply[r] = 0 /\ r \in wire
    BY <1>4 DEF UpstreamHandles, Inv, UpstreamOK
  <2>2. /\ wire' = wire \ {r}
        /\ arrivals' = [arrivals EXCEPT ![r] = @ + 1]
        /\ strays' = strays
        /\ \E s \in {200, 401, 502} :
              /\ reply' = [reply EXCEPT ![r] = s]
              /\ \/ s # 200 /\ processed' = processed
                 \/ s = 200 /\ processed' = processed \cup {Message(r)}
    BY <1>4 DEF UpstreamHandles, UpstreamStatuses, Message
  <2>3. TypeOK'
    BY <1>1, <2>2 DEF Inv, TypeOK
  <2>4. UpstreamOK'
    BY <1>1, <1>2, <1>3, <2>1, <2>2 DEF Inv, TypeOK, UpstreamOK, Provider, Body
  <2>5. HandlerOK' /\ EventMatchesResponse'
    <3>1. \A q \in Requests \ {r} : /\ reply'[q] = reply[q] /\ arrivals'[q] = arrivals[q]
                                  /\ (q \in wire' <=> q \in wire)
      BY <2>2 DEF Inv, TypeOK
    <3>2. r \notin wire'
      BY <2>2
    <3>3. /\ pc[r] \notin {"none", "read", "verify", "forward"}
          /\ response[r] # 200
          /\ (pc[r] = "record" => status[r] = 0 /\ response[r] = 502)
          /\ (event[r].verdict = "accepted" =>
                 event[r].upstreamStatus = 0 /\ response[r] = 502)
          /\ event[r].verdict # "rejected"
      BY <2>1 DEF Inv, HandlerOK, AnswerOK, EventMatchesResponse
    <3>4. HandlerOK'
      <4> SUFFICES ASSUME NEW q \in Requests
                   PROVE  HandlerOK!(q)'
        BY DEF HandlerOK
      <4>1. HandlerOK!(q)
        BY DEF Inv, HandlerOK
      <4>2. CASE q = r
        BY <1>1, <1>2, <2>1, <3>2, <3>3, <4>1, <4>2 DEF AnswerOK
      <4>3. CASE q # r
        BY <1>1, <1>2, <3>1, <4>1, <4>3 DEF AnswerOK
      <4> QED BY <4>2, <4>3
    <3>5. EventMatchesResponse'
      <4> SUFFICES ASSUME NEW q \in Requests
                   PROVE  EventMatchesResponse!(q)'
        BY DEF EventMatchesResponse
      <4>1. EventMatchesResponse!(q)
        BY DEF Inv, EventMatchesResponse
      <4>2. CASE q = r
        BY <1>1, <1>2, <2>1, <3>3, <4>1, <4>2
      <4>3. CASE q # r
        BY <1>1, <1>2, <3>1, <4>1, <4>3
      <4> QED BY <4>2, <4>3
    <3> QED BY <3>4, <3>5
  <2>6. AckedWasProcessed'
    BY <1>1, <2>2 DEF Inv, AckedWasProcessed
  <2> QED BY <2>3, <2>4, <2>5, <2>6 DEF Inv
<1>5. CASE WireLoses(r)
  BY <1>1, <1>2, <1>3, <1>5 DEF WireLoses, Inv, TypeOK, UpstreamOK, HandlerOK, AnswerOK,
     EventMatchesResponse, AckedWasProcessed, Provider, Body
<1>6. ASSUME NEW p \in Providers, NEW b \in Bodies, StrayMessage(p, b, r) PROVE Inv'
  <2>1. VerifyOK(r) /\ <<p, b>> = <<Provider(r), Body(r)>> /\ strays' = strays \cup {<<p, b>>}
    BY <1>6 DEF StrayMessage, GatewaySigVerify
  <2>2. UNCHANGED <<wire, reply, arrivals, processed>>
    BY <1>6 DEF StrayMessage
  <2>3. UpstreamOK'
    BY <1>1, <1>2, <1>3, <2>1, <2>2 DEF Inv, UpstreamOK, Provider, Body
  <2>4. TypeOK'
    BY <1>1, <2>2 DEF Inv, TypeOK
  <2>5. HandlerOK'
    BY <1>1, <1>2, <2>2 DEF Inv, HandlerOK, AnswerOK
  <2>6. EventMatchesResponse'
    BY <1>1, <1>2, <2>2 DEF Inv, EventMatchesResponse
  <2>7. AckedWasProcessed'
    BY <1>1, <2>2 DEF Inv, AckedWasProcessed
  <2> QED BY <2>3, <2>4, <2>5, <2>6, <2>7 DEF Inv
<1> QED BY <1>4, <1>5, <1>6

LEMMA InvStep == Inv /\ [Next]_vars => Inv'
<1> SUFFICES ASSUME Inv, [Next]_vars PROVE Inv'
  OBVIOUS
<1>1. ASSUME NEW r \in Requests, Handler(r) PROVE Inv'
  BY <1>1, HandlerStep, ForwardStep, ReturnStep DEF Handler
<1>2. CASE Environment
  BY <1>2, ProviderStep, UpstreamStep DEF Environment
<1>3. CASE Crash
  BY <1>3, ProviderStep
<1>4. CASE UNCHANGED vars
  <2>1. UNCHANGED <<deliver, signed, sameSecret, tries, waitingFor, acked, pc, response, status,
                    event, wire, reply, arrivals, processed, strays>>
    BY <1>4 DEF vars, providerVars, configVars, handlerVars, upstreamVars
  <2>2. TypeOK'
    BY <2>1 DEF Inv, TypeOK
  <2>3. \A q \in Requests : VerifyOK(q)' <=> VerifyOK(q)
    BY <2>1 DEF VerifyOK, Provider, Body
  <2>4. UpstreamOK'
    BY <2>1, <2>3 DEF Inv, UpstreamOK, Message, Provider, Body
  <2>5. HandlerOK'
    BY <2>1, <2>3 DEF Inv, HandlerOK, AnswerOK
  <2>6. EventMatchesResponse'
    BY <2>1, <2>3 DEF Inv, EventMatchesResponse
  <2>7. AckedWasProcessed'
    BY <2>1 DEF Inv, AckedWasProcessed
  <2> QED BY <2>2, <2>4, <2>5, <2>6, <2>7 DEF Inv
<1> QED BY <1>1, <1>2, <1>3, <1>4 DEF Next

LEMMA InvHolds == Spec => []Inv
BY InvInit, InvStep, PTL DEF Spec

-----------------------------------------------------------------------------
(* Whatever is retried, lost, late or replayed: what the upstream accepts  *)
(* as a provider's was signed by that provider for that body and route     *)
(* (main.go:55-68, gatewaysig.go, cmd/upstream/main.go:26).                *)
THEOREM OnlyVerifiedIsProcessedHolds == Spec => []OnlyVerifiedIsProcessed
<1>1. Inv => OnlyVerifiedIsProcessed
  <2> SUFFICES ASSUME Inv,
                      NEW m \in {<<x[1], x[2]>> : x \in processed} \cup strays
               PROVE  \E d \in Deliveries :
                         signed[d] = m /\ deliver[d] = [provider |-> m[1], body |-> m[2]]
    BY DEF OnlyVerifiedIsProcessed
  <2>1. PICK r \in Requests : VerifyOK(r) /\ m = <<Provider(r), Body(r)>>
    BY DEF Inv, UpstreamOK, Message
  <2>2. r[1] \in Deliveries
    BY DEF Requests
  <2>3. deliver[r[1]] = [provider |-> Provider(r), body |-> Body(r)]
    BY <2>2 DEF Inv, TypeOK, Provider, Body
  <2> QED BY <2>1, <2>2, <2>3 DEF VerifyOK
<1> QED BY <1>1, InvHolds, PTL

(* A provider that saw a 2xx had its delivery processed, for any number of *)
(* attempts, timeouts and crashes (main.go:73-96).                         *)
THEOREM AckedWasProcessedHolds == Spec => []AckedWasProcessed
<1>1. Inv => AckedWasProcessed
  BY DEF Inv
<1> QED BY <1>1, InvHolds, PTL

(* The verdict event and the answer to the provider agree on every path    *)
(* through makeHandler and forward (main.go:59-72).                        *)
THEOREM EventMatchesResponseHolds == Spec => []EventMatchesResponse
<1>1. Inv => EventMatchesResponse
  BY DEF Inv
<1> QED BY <1>1, InvHolds, PTL

-----------------------------------------------------------------------------
\* The gateway with its emitter.

(* A step of the composed system is a step of the request path or leaves   *)
(* it alone: recording events, a full channel or a dead poster change      *)
(* nothing about what providers and upstream see (main.go:60-68).          *)
THEOREM TelemetryKeepsGateway == JointSpec => Spec
<1>1. JointInit => Init
  BY DEF JointInit
<1>2. [JointNext]_jointVars => [Next]_vars
  <2> SUFFICES ASSUME [JointNext]_jointVars PROVE [Next]_vars
    OBVIOUS
  <2>1. ASSUME NEW r \in Requests, JointStep(r) PROVE Handler(r) \/ UNCHANGED vars
    BY <2>1 DEF JointStep, Handle, RecordAndEmit, Emit, ReturnAfterEmit, Handler
  <2>2. Poster => UNCHANGED vars
    BY DEF Poster
  <2>3. Outside => Environment
    BY DEF Outside
  <2>4. UNCHANGED jointVars => UNCHANGED vars
    BY DEF jointVars
  <2> QED BY <2>1, <2>2, <2>3, <2>4 DEF JointNext, Next
<1> QED BY <1>1, <1>2, PTL DEF JointSpec, Spec

(* The request path, in turn, only ever uses the emitter as EventEmitter   *)
(* says a handler does: one record per request, then emit (main.go:60-66). *)
THEOREM GatewayKeepsEmitter == JointSpec => E!Spec
<1>1. JointInit => E!Init
  BY DEF JointInit
<1>2. [JointNext]_jointVars => [E!Next]_(E!vars)
  <2> SUFFICES ASSUME [JointNext]_jointVars PROVE E!Next \/ UNCHANGED E!vars
    OBVIOUS
  <2>1. UNCHANGED emitterVars => UNCHANGED E!vars
    BY DEF emitterVars, E!vars, E!queueVars, E!logVars
  <2>2. ASSUME NEW r \in Requests, JointStep(r)
        PROVE  E!Record(r) \/ E!Emit(r) \/ UNCHANGED emitterVars
    BY <2>2 DEF JointStep, Handle, RecordAndEmit, Emit, ReturnAfterEmit
  <2>3. Poster => E!Receive \/ E!Post \/ E!Tick
    BY DEF Poster
  <2>4. Outside \/ UNCHANGED jointVars => UNCHANGED emitterVars
    BY DEF Outside, jointVars
  <2> QED BY <2>1, <2>2, <2>3, <2>4 DEF JointNext, E!Next
<1> QED BY <1>1, <1>2, PTL DEF JointSpec, E!Spec

EmitterTypes ==
    /\ emitPc \in [Requests -> {"idle", "send", "evict", "resend", "done"}]
    /\ ch \in Seq(Requests)
    /\ taken \in Seq(Requests)
    /\ posting \in Requests \cup {None}
    /\ fate \in [Requests -> E!Fates]

\* An event is recorded once the answer it reports is settled, and not before.
SettledBeforeRecorded(r) ==
    /\ event[r].verdict = "none" <=> emitPc[r] = "idle"
    /\ emitPc[r] # "idle" => response[r] # 0 /\ event[r] = Verdict(r)

\* Where the event of r is.
EventPlaced(r) ==
    /\ emitPc[r] = "idle" => r \notin Range(ch) \cup Range(taken)
    /\ emitPc[r] = "done" => r \in Range(ch) \cup {posting} \/ fate[r] # "none"

JointInv ==
    /\ Inv
    /\ EmitterTypes
    /\ \A r \in Requests :
        /\ SettledBeforeRecorded(r)
        /\ EventPlaced(r)
        /\ pc[r] = "done" => emitPc[r] \in {"idle", "done"}

LEMMA JointInvInit == JointInit => JointInv
<1> SUFFICES ASSUME JointInit PROVE JointInv
  OBVIOUS
<1>1. Inv
  BY InvInit DEF JointInit
<1>2. Range(<<>>) = {}
  BY DEF Range
<1>3. EmitterTypes
  BY DEF JointInit, E!Init, EmitterTypes, E!Fates
<1>4. ASSUME NEW r \in Requests
      PROVE  SettledBeforeRecorded(r) /\ EventPlaced(r) /\ pc[r] # "done"
  BY <1>2 DEF JointInit, E!Init, Init, NoEvent, SettledBeforeRecorded, EventPlaced
<1> QED BY <1>1, <1>3, <1>4 DEF JointInv

\* What a request was decided on does not change.
LEMMA DecisionStands ==
    ASSUME [JointNext]_jointVars
    PROVE  UNCHANGED <<deliver, signed>>
<1>1. ASSUME NEW r \in Requests, Handler(r) PROVE UNCHANGED <<deliver, signed>>
  BY <1>1 DEF Handler, ReadBody, ReadBodyFails, VerifyAccepts, VerifyRejects, Forward,
     ForwardUnbuildable, UpstreamAnswers, UpstreamFails, RecordEvent, Return, providerVars,
     configVars
<1>2. Environment => UNCHANGED <<deliver, signed>>
  BY DEF Environment, Attempt, GiveUp, UpstreamHandles, WireLoses, StrayMessage, providerVars,
     configVars
<1>3. UNCHANGED vars => UNCHANGED <<deliver, signed>>
  BY DEF vars, providerVars, configVars
<1>4. ASSUME NEW r \in Requests, JointStep(r) PROVE Handler(r) \/ UNCHANGED vars
  BY <1>4 DEF JointStep, Handle, RecordAndEmit, Emit, ReturnAfterEmit, Handler
<1> QED BY <1>1, <1>2, <1>3, <1>4 DEF JointNext, Poster, Outside, jointVars

\* Until it records its event a handler has none, and the emitter knows
\* nothing of the request.
LEMMA HandleKeepsPlaces ==
    ASSUME JointInv, NEW r \in Requests, Handle(r) \/ ReturnAfterEmit(r),
           UNCHANGED <<deliver, signed>>
    PROVE  EmitterTypes' /\ \A q \in Requests :
               /\ SettledBeforeRecorded(q)' /\ EventPlaced(q)'
               /\ pc'[q] = "done" => emitPc'[q] \in {"idle", "done"}
<1>1. UNCHANGED <<emitPc, ch, taken, posting, fate, event>>
  BY DEF Handle, ReturnAfterEmit, emitterVars, ReadBody, ReadBodyFails, VerifyAccepts,
     VerifyRejects, Forward, ForwardUnbuildable, UpstreamAnswers, UpstreamFails, Return
<1>2. /\ \A q \in Requests \ {r} :
            pc'[q] = pc[q] /\ response'[q] = response[q] /\ status'[q] = status[q]
      /\ \/ /\ pc[r] \in {"read", "verify", "forward", "await"}
            /\ pc'[r] # "done"
         \/ /\ response' = response /\ status' = status
            /\ emitPc[r] \in {"idle", "done"}
  BY DEF JointInv, Inv, TypeOK, Handle, ReturnAfterEmit, ReadBody, ReadBodyFails, VerifyAccepts,
     VerifyRejects, Forward, ForwardUnbuildable, UpstreamAnswers, UpstreamFails, Return, Goto,
     Respond
<1>3. pc[r] \in {"read", "verify", "forward", "await"} => emitPc[r] = "idle"
  BY DEF JointInv, Inv, HandlerOK, SettledBeforeRecorded
<1>4. EmitterTypes'
  BY <1>1 DEF JointInv, EmitterTypes
<1>5. ASSUME NEW q \in Requests
      PROVE  /\ SettledBeforeRecorded(q)' /\ EventPlaced(q)'
             /\ pc'[q] = "done" => emitPc'[q] \in {"idle", "done"}
  <2>1. EventPlaced(q)'
    BY <1>1 DEF JointInv, EventPlaced
  <2>2. VerifyOK(q)' <=> VerifyOK(q)
    BY DEF VerifyOK, Provider, Body
  <2>3. SettledBeforeRecorded(q)'
    BY <1>1, <1>2, <1>3, <2>2 DEF JointInv, SettledBeforeRecorded, Verdict
  <2>4. pc'[q] = "done" => emitPc'[q] \in {"idle", "done"}
    BY <1>1, <1>2 DEF JointInv
  <2> QED BY <2>1, <2>3, <2>4
<1> QED BY <1>4, <1>5

\* The answer is settled by the time record is called.
LEMMA RecordKeepsPlaces ==
    ASSUME JointInv, NEW r \in Requests, RecordAndEmit(r), UNCHANGED <<deliver, signed>>
    PROVE  EmitterTypes' /\ \A q \in Requests :
               /\ SettledBeforeRecorded(q)' /\ EventPlaced(q)'
               /\ pc'[q] = "done" => emitPc'[q] \in {"idle", "done"}
<1>1. /\ pc[r] = "record" /\ pc' = [pc EXCEPT ![r] = "return"]
      /\ event' = [event EXCEPT ![r] = Verdict(r)]
      /\ UNCHANGED <<response, status, ch, taken, posting>>
  BY DEF RecordAndEmit, RecordEvent, Goto, E!Record, E!queueVars
<1>2. \/ emitPc' = [emitPc EXCEPT ![r] = "send"] /\ fate' = fate
      \/ emitPc' = [emitPc EXCEPT ![r] = "done"] /\ fate' = [fate EXCEPT ![r] = "disabled"]
  BY DEF RecordAndEmit, E!Record
<1>3. response[r] # 0
  BY <1>1 DEF JointInv, Inv, HandlerOK, AnswerOK
<1>4. Verdict(r).verdict # "none"
  BY DEF Verdict
<1>5. EmitterTypes'
  BY <1>1, <1>2 DEF JointInv, EmitterTypes, E!Fates
<1>6. ASSUME NEW q \in Requests
      PROVE  /\ SettledBeforeRecorded(q)' /\ EventPlaced(q)'
             /\ pc'[q] = "done" => emitPc'[q] \in {"idle", "done"}
  <2>1. Verdict(q)' = Verdict(q)
    BY <1>1 DEF Verdict, VerifyOK, Provider, Body
  <2>2. CASE q = r
    <3>1. event'[q] = Verdict(q) /\ emitPc'[q] \in {"send", "done"} /\ pc'[q] = "return"
      BY <1>1, <1>2, <2>2 DEF JointInv, Inv, TypeOK, EmitterTypes
    <3>2. emitPc'[q] = "done" => fate'[q] = "disabled"
      BY <1>2, <2>2 DEF JointInv, EmitterTypes
    <3> QED BY <1>1, <1>3, <1>4, <2>1, <2>2, <3>1, <3>2 DEF SettledBeforeRecorded, EventPlaced
  <2>3. CASE q # r
    <3>1. /\ event'[q] = event[q] /\ emitPc'[q] = emitPc[q] /\ pc'[q] = pc[q]
          /\ fate'[q] = fate[q]
      BY <1>1, <1>2, <2>3 DEF JointInv, Inv, TypeOK, EmitterTypes
    <3> QED BY <1>1, <2>1, <3>1 DEF JointInv, SettledBeforeRecorded, EventPlaced
  <2> QED BY <2>2, <2>3
<1> QED BY <1>5, <1>6

\* emit and the poster move events; what they report is not theirs to change.
LEMMA MovingKeepsPlaces ==
    ASSUME JointInv, UNCHANGED vars, Poster \/ \E r \in Requests : Emit(r)
    PROVE  EmitterTypes' /\ \A q \in Requests :
               /\ SettledBeforeRecorded(q)' /\ EventPlaced(q)'
               /\ pc'[q] = "done" => emitPc'[q] \in {"idle", "done"}
<1>1. UNCHANGED <<deliver, signed, pc, response, status, event>>
  BY DEF vars, providerVars, configVars, handlerVars
<1>2. SUFFICES
        /\ EmitterTypes'
        /\ \A q \in Requests :
            /\ emitPc'[q] = "idle" <=> emitPc[q] = "idle"
            /\ emitPc[q] = "done" => emitPc'[q] = "done"
            /\ EventPlaced(q)'
  <2>1. ASSUME NEW q \in Requests PROVE Verdict(q)' = Verdict(q)
    BY <1>1 DEF Verdict, VerifyOK, Provider, Body
  <2> QED BY <1>1, <2>1 DEF JointInv, SettledBeforeRecorded, EmitterTypes
<1>3. /\ emitPc \in [Requests -> {"idle", "send", "evict", "resend", "done"}]
      /\ ch \in Seq(Requests) /\ taken \in Seq(Requests)
      /\ posting \in Requests \cup {None}
      /\ fate \in [Requests -> E!Fates]
  BY DEF JointInv, EmitterTypes
<1>4. \A q \in Requests : EventPlaced(q)
  BY DEF JointInv
<1>5. ASSUME NEW r \in Requests, Emit(r)
      PROVE  /\ EmitterTypes'
             /\ \A q \in Requests :
                 /\ emitPc'[q] = "idle" <=> emitPc[q] = "idle"
                 /\ emitPc[q] = "done" => emitPc'[q] = "done"
                 /\ EventPlaced(q)'
  <2>1. /\ Append(ch, r) \in Seq(Requests) /\ Range(Append(ch, r)) = Range(ch) \cup {r}
        /\ ch # <<>> => /\ Tail(ch) \in Seq(Requests) /\ Head(ch) \in Requests
                        /\ Range(ch) = {Head(ch)} \cup Range(Tail(ch))
    BY <1>3, AppendQueue, TailQueue, TailKeepsRest
  <2>2. UNCHANGED <<taken, posting>>
    BY <1>5 DEF Emit, E!Emit, E!TrySend, E!EvictOldest, E!Resend
  <2>3. CASE E!TrySend(r)
    <3>1. /\ emitPc[r] = "send" /\ fate' = fate
          /\ \/ ch' = Append(ch, r) /\ emitPc' = [emitPc EXCEPT ![r] = "done"]
             \/ ch' = ch /\ emitPc' = [emitPc EXCEPT ![r] = "evict"]
      BY <2>3 DEF E!TrySend
    <3> QED BY <1>3, <1>4, <2>1, <2>2, <3>1 DEF EmitterTypes, EventPlaced
  <2>4. CASE E!EvictOldest(r)
    <3>1. /\ emitPc[r] = "evict" /\ emitPc' = [emitPc EXCEPT ![r] = "resend"]
          /\ \/ ch' = ch /\ fate' = fate
             \/ /\ ch # <<>> /\ ch' = Tail(ch)
                /\ fate' = [fate EXCEPT ![Head(ch)] = "evicted"]
      BY <2>4 DEF E!EvictOldest
    <3> QED BY <1>3, <1>4, <2>1, <2>2, <3>1 DEF EmitterTypes, EventPlaced, E!Fates
  <2>5. CASE E!Resend(r)
    <3>1. /\ emitPc[r] = "resend" /\ emitPc' = [emitPc EXCEPT ![r] = "done"]
          /\ \/ ch' = Append(ch, r) /\ fate' = fate
             \/ ch' = ch /\ fate' = [fate EXCEPT ![r] = "refused"]
      BY <2>5 DEF E!Resend
    <3> QED BY <1>3, <1>4, <2>1, <2>2, <3>1 DEF EmitterTypes, EventPlaced, E!Fates
  <2> QED BY <1>5, <2>3, <2>4, <2>5 DEF Emit, E!Emit
<1>6. ASSUME Poster
      PROVE  /\ EmitterTypes'
             /\ \A q \in Requests :
                 /\ emitPc'[q] = "idle" <=> emitPc[q] = "idle"
                 /\ emitPc[q] = "done" => emitPc'[q] = "done"
                 /\ EventPlaced(q)'
  <2>1. CASE E!Receive
    <3>1. /\ ch # <<>> /\ posting = None /\ posting' = Head(ch) /\ ch' = Tail(ch)
          /\ taken' = Append(taken, Head(ch)) /\ UNCHANGED <<emitPc, fate>>
      BY <2>1 DEF E!Receive
    <3>2. /\ Tail(ch) \in Seq(Requests) /\ Head(ch) \in Requests
          /\ Range(ch) = {Head(ch)} \cup Range(Tail(ch))
      BY <1>3, <3>1, TailQueue, TailKeepsRest
    <3>3. /\ Append(taken, Head(ch)) \in Seq(Requests)
          /\ Range(Append(taken, Head(ch))) = Range(taken) \cup {Head(ch)}
      BY <1>3, <3>2, AppendQueue
    <3> QED BY <1>3, <1>4, <3>1, <3>2, <3>3, TelemetryAssumption DEF EmitterTypes, EventPlaced
  <2>2. CASE E!Post
    <3>1. PICK f \in {"unsent", "acked", "failed"} : E!FinishPost(f)
      BY <2>2 DEF E!Post, E!PostUnsent, E!PostAcked, E!PostFailed
    <3>2. posting # None
      BY <2>2 DEF E!Post, E!PostUnsent, E!PostAcked, E!PostFailed
    <3>3. /\ fate' = [fate EXCEPT ![posting] = f] /\ posting' = None
          /\ UNCHANGED <<emitPc, ch, taken>>
      BY <3>1 DEF E!FinishPost
    <3> QED BY <1>3, <1>4, <3>2, <3>3 DEF EmitterTypes, EventPlaced, E!Fates
  <2>3. CASE E!Tick
    <3>1. UNCHANGED <<emitPc, ch, taken, posting, fate>>
      BY <2>3 DEF E!Tick, E!queueVars
    <3> QED BY <1>3, <1>4, <3>1 DEF EmitterTypes, EventPlaced
  <2> QED BY <1>6, <2>1, <2>2, <2>3 DEF Poster
<1> QED BY <1>5, <1>6

\* Providers and the upstream reach neither the emitter nor a settled answer.
LEMMA OutsideKeepsPlaces ==
    ASSUME JointInv, Outside \/ UNCHANGED jointVars, UNCHANGED <<deliver, signed>>
    PROVE  EmitterTypes' /\ \A q \in Requests :
               /\ SettledBeforeRecorded(q)' /\ EventPlaced(q)'
               /\ pc'[q] = "done" => emitPc'[q] \in {"idle", "done"}
<1>1. UNCHANGED <<emitPc, ch, taken, posting, fate>>
  BY DEF Outside, jointVars, emitterVars
<1>2. UNCHANGED <<response, status, event>>
  BY DEF Outside, Environment, Attempt, GiveUp, UpstreamHandles, WireLoses, StrayMessage,
     handlerVars, jointVars, vars
<1>3. \A q \in Requests : pc'[q] = "done" => pc[q] = "done"
  <2>1. pc' = pc \/ \E x : pc' = [pc EXCEPT ![x] = "read"]
    BY DEF Outside, Environment, Attempt, GiveUp, UpstreamHandles, WireLoses, StrayMessage,
       handlerVars, jointVars, vars
  <2> QED BY <2>1 DEF JointInv, Inv, TypeOK
<1>4. EmitterTypes'
  BY <1>1 DEF JointInv, EmitterTypes
<1>5. ASSUME NEW q \in Requests
      PROVE  SettledBeforeRecorded(q)' /\ EventPlaced(q)'
  <2>1. Verdict(q)' = Verdict(q)
    BY <1>2 DEF Verdict, VerifyOK, Provider, Body
  <2> QED BY <1>1, <1>2, <2>1 DEF JointInv, SettledBeforeRecorded, EventPlaced
<1> QED BY <1>1, <1>3, <1>4, <1>5 DEF JointInv

LEMMA JointInvHolds == JointSpec => []JointInv
<1>1. Inv /\ JointInv /\ [JointNext]_jointVars /\ Inv' => JointInv'
  <2> SUFFICES ASSUME JointInv, [JointNext]_jointVars, Inv' PROVE JointInv'
    OBVIOUS
  <2>1. UNCHANGED <<deliver, signed>>
    BY DecisionStands
  <2>2. SUFFICES EmitterTypes' /\ \A q \in Requests :
                     /\ SettledBeforeRecorded(q)' /\ EventPlaced(q)'
                     /\ pc'[q] = "done" => emitPc'[q] \in {"idle", "done"}
    BY DEF JointInv
  <2>3. ASSUME NEW r \in Requests, Handle(r) \/ ReturnAfterEmit(r)
        PROVE  EmitterTypes' /\ \A q \in Requests :
                   /\ SettledBeforeRecorded(q)' /\ EventPlaced(q)'
                   /\ pc'[q] = "done" => emitPc'[q] \in {"idle", "done"}
    BY <2>1, <2>3, HandleKeepsPlaces
  <2>4. ASSUME NEW r \in Requests, RecordAndEmit(r)
        PROVE  EmitterTypes' /\ \A q \in Requests :
                   /\ SettledBeforeRecorded(q)' /\ EventPlaced(q)'
                   /\ pc'[q] = "done" => emitPc'[q] \in {"idle", "done"}
    BY <2>1, <2>4, RecordKeepsPlaces
  <2>5. ASSUME Poster \/ \E r \in Requests : Emit(r)
        PROVE  EmitterTypes' /\ \A q \in Requests :
                   /\ SettledBeforeRecorded(q)' /\ EventPlaced(q)'
                   /\ pc'[q] = "done" => emitPc'[q] \in {"idle", "done"}
    <3>1. UNCHANGED vars
      BY <2>5 DEF Poster, Emit
    <3> QED BY <2>5, <3>1, MovingKeepsPlaces
  <2>6. ASSUME Outside \/ UNCHANGED jointVars
        PROVE  EmitterTypes' /\ \A q \in Requests :
                   /\ SettledBeforeRecorded(q)' /\ EventPlaced(q)'
                   /\ pc'[q] = "done" => emitPc'[q] \in {"idle", "done"}
    BY <2>1, <2>6, OutsideKeepsPlaces
  <2> QED BY <2>3, <2>4, <2>5, <2>6 DEF JointNext, JointStep
<1>2. JointSpec => []Inv
  BY TelemetryKeepsGateway, InvHolds, PTL
<1> QED BY <1>1, <1>2, JointInvInit, PTL DEF JointSpec

(* What is queued, posted or has been posted is a settled outcome, with    *)
(* any number of handlers in emit at once (main.go:60-66, events.go:75).   *)
THEOREM EventsAreOutcomesHolds == JointSpec => []EventsAreOutcomes
<1>1. JointInv => EventsAreOutcomes
  <2> SUFFICES ASSUME JointInv, NEW r \in Range(ch) \cup Range(taken)
               PROVE  response[r] # 0 /\ event[r] = Verdict(r)
    BY DEF EventsAreOutcomes, Verdict
  <2>1. r \in Requests
    BY DEF JointInv, EmitterTypes, Range
  <2> QED BY <2>1 DEF JointInv, EventPlaced, SettledBeforeRecorded
<1> QED BY <1>1, JointInvHolds, PTL

(* Every request answered, but for an unreadable one, has its event in the *)
(* emitter or accounted for, whatever the channel did (events.go:91-110).  *)
THEOREM AnsweredIsRecordedHolds == JointSpec => []AnsweredIsRecorded
<1>1. JointInv => AnsweredIsRecorded
  <2> SUFFICES ASSUME JointInv, NEW r \in Requests, pc[r] = "done", response[r] # 400
               PROVE  r \in Range(ch) \cup {posting} \/ fate[r] # "none"
    BY DEF AnsweredIsRecorded
  <2>1. event[r].verdict # "none"
    BY DEF JointInv, Inv, EventMatchesResponse
  <2>2. emitPc[r] = "done"
    BY <2>1 DEF JointInv, SettledBeforeRecorded
  <2> QED BY <2>2 DEF JointInv, EventPlaced
<1> QED BY <1>1, JointInvHolds, PTL
=============================================================================
