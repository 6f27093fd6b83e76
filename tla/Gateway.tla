------------------------------- MODULE Gateway -------------------------------
(***************************************************************************)
(* The gateway's request path, src/main.go, between the providers and the  *)
(* sample upstream of src/cmd/upstream, with the Gateway signature of      *)
(* src/internal/gatewaysig that the two share.                             *)
(*                                                                         *)
(* A provider delivers a webhook in one or more attempts: it retries while *)
(* it has seen no 2xx, also when it only gave up waiting and the earlier   *)
(* attempt is still being handled (forward does not use the request's      *)
(* context, so nothing cancels it).  Attempt n of delivery d is request    *)
(* <<d, n>>; net/http runs makeHandler for each in its own goroutine, and  *)
(* its response is flushed when the handler returns.                       *)
(*                                                                         *)
(* A Gateway signature is what it signs, <<provider, body>>; only the      *)
(* gateway and the upstream hold INTERNAL_SECRET.  Whether a request's own *)
(* signature is genuine for the route is the verifier's decision, which    *)
(* Verifiers models; here signed[d] is what the provider signed.           *)
(***************************************************************************)
EXTENDS Integers, FiniteSets

CONSTANTS
    Deliveries,     \* webhooks the providers deliver
    Providers,      \* one route per provider
    Bodies,
    MaxAttempts,    \* bound on the attempts of one delivery
    MaxCrashes      \* bound on the gateway's crashes

ASSUME GatewayAssumption ==
    /\ IsFiniteSet(Deliveries)
    /\ MaxAttempts \in Nat \ {0}
    /\ MaxCrashes \in Nat

Requests == Deliveries \X (1..MaxAttempts)

VARIABLES
    \* configuration and environment
    deliver,    \* deliver[d]: the route it is sent to and the body
    signed,     \* signed[d]: the <<provider, body>> its signature is for
    routable,   \* providers whose route's upstream URL parses
    sameSecret, \* gateway and upstream were given the same INTERNAL_SECRET
    tries,      \* tries[d]: attempts made so far
    waitingFor, \* waitingFor[d]: the attempt the provider waits on, or 0
    acked,      \* deliveries the provider saw answered with a 2xx
    \* the gateway
    pc,         \* pc[r]: "none", "read", "verify", "forward", "await",
                \*   "record", "return", "done", "killed"
    response,   \* response[r]: the status written, 0 before
    status,     \* status[r]: what forward returned
    event,      \* event[r]: the verdict event recorded for r
    crashes,
    \* the upstream
    wire,       \* forwarded requests on their way to the upstream
    reply,      \* reply[r]: the status the upstream answered r with, or 0
    arrivals,   \* arrivals[r]: how often the upstream received r
    processed,  \* the <<label, body, request>> the upstream accepted
    strays      \* the <<label, body>> it accepted from elsewhere

configVars   == <<deliver, signed, routable, sameSecret>>
providerVars == <<configVars, tries, waitingFor, acked>>
handlerVars  == <<pc, response, status, event>>
upstreamVars == <<wire, reply, arrivals, processed, strays>>
vars == <<providerVars, handlerVars, crashes, upstreamVars>>

NoEvent == [verdict |-> "none", upstreamStatus |-> 0]

\* What an application behind the Gateway signature answers with; 502 is also
\* what the gateway answers on its own account.
UpstreamStatuses == {200, 502}

Body(r) == deliver[r[1]].body
Provider(r) == deliver[r[1]].provider

Init ==
    /\ deliver \in [Deliveries -> [provider : Providers, body : Bodies]]
    /\ signed \in [Deliveries -> Providers \X Bodies]
    /\ routable \in SUBSET Providers
    /\ sameSecret \in BOOLEAN
    /\ tries = [d \in Deliveries |-> 0]
    /\ waitingFor = [d \in Deliveries |-> 0]
    /\ acked = {}
    /\ pc = [r \in Requests |-> "none"]
    /\ response = [r \in Requests |-> 0]
    /\ status = [r \in Requests |-> 0]
    /\ event = [r \in Requests |-> NoEvent]
    /\ crashes = 0
    /\ wire = {}
    /\ reply = [r \in Requests |-> 0]
    /\ arrivals = [r \in Requests |-> 0]
    /\ processed = {}
    /\ strays = {}

-----------------------------------------------------------------------------
\* The provider (external).
Attempt(d) ==
    /\ d \notin acked /\ waitingFor[d] = 0
    /\ tries[d] < MaxAttempts
    /\ tries' = [tries EXCEPT ![d] = @ + 1]
    /\ waitingFor' = [waitingFor EXCEPT ![d] = tries[d] + 1]
    /\ pc' = [pc EXCEPT ![<<d, tries[d] + 1>>] = "read"]
    /\ UNCHANGED <<configVars, acked, response, status, event, crashes, upstreamVars>>

\* The provider's own timeout; the handler is not told.
GiveUp(d) ==
    /\ waitingFor[d] # 0
    /\ waitingFor' = [waitingFor EXCEPT ![d] = 0]
    /\ UNCHANGED <<configVars, tries, acked, handlerVars, crashes, upstreamVars>>

-----------------------------------------------------------------------------
\* makeHandler.
Goto(r, step) == pc' = [pc EXCEPT ![r] = step]
Respond(r, code) == response' = [response EXCEPT ![r] = code]

ReadBody(r) ==
    /\ pc[r] = "read"
    /\ Goto(r, "verify")
    /\ UNCHANGED <<providerVars, response, status, event, crashes, upstreamVars>>

\* 400, and no event.
ReadBodyFails(r) ==
    /\ pc[r] = "read"
    /\ Goto(r, "return")
    /\ Respond(r, 400)
    /\ UNCHANGED <<providerVars, status, event, crashes, upstreamVars>>

VerifyOK(r) == signed[r[1]] = <<Provider(r), Body(r)>>

VerifyAccepts(r) ==
    /\ pc[r] = "verify" /\ VerifyOK(r)
    /\ Goto(r, "forward")
    /\ UNCHANGED <<providerVars, response, status, event, crashes, upstreamVars>>

VerifyRejects(r) ==
    /\ pc[r] = "verify" /\ ~VerifyOK(r)
    /\ Goto(r, "record")
    /\ Respond(r, 401)
    /\ UNCHANGED <<providerVars, status, event, crashes, upstreamVars>>

\* forward: the request goes out with the route's provider and the Gateway
\* signature over provider and body.
Forward(r) ==
    /\ pc[r] = "forward" /\ Provider(r) \in routable
    /\ Goto(r, "await")
    /\ wire' = wire \cup {r}
    /\ UNCHANGED <<providerVars, response, status, event, crashes, reply, arrivals, processed, strays>>

\* forward: the upstream URL of the route does not parse.
ForwardUnbuildable(r) ==
    /\ pc[r] = "forward" /\ Provider(r) \notin routable
    /\ Goto(r, "record")
    /\ Respond(r, 502)
    /\ UNCHANGED <<providerVars, status, event, crashes, upstreamVars>>

\* Mutant: any answer of the upstream is reported to the provider as a success.
UpstreamAlwaysOK(r) ==
    /\ pc[r] = "await" /\ reply[r] # 0
    /\ Goto(r, "record")
    /\ Respond(r, 200)
    /\ status' = [status EXCEPT ![r] = reply[r]]
    /\ UNCHANGED <<providerVars, event, crashes, upstreamVars>>

\* forward: the upstream's status is relayed, also when its body breaks off
\* (the error of io.ReadAll is ignored).
UpstreamAnswers(r) ==
    /\ pc[r] = "await" /\ reply[r] # 0
    /\ Goto(r, "record")
    /\ Respond(r, reply[r])
    /\ status' = [status EXCEPT ![r] = reply[r]]
    /\ UNCHANGED <<providerVars, event, crashes, upstreamVars>>

\* forward: client.Do fails (refused, reset, 30s timeout).  The upstream may
\* have the request already, or may still get it.
UpstreamFails(r) ==
    /\ pc[r] = "await"
    /\ Goto(r, "record")
    /\ Respond(r, 502)
    /\ UNCHANGED <<providerVars, status, event, crashes, upstreamVars>>

\* Mutant: the event carries the status answered instead of the upstream's.
VerdictOfResponse(r) ==
    [verdict |-> IF response[r] < 300 THEN "accepted" ELSE "rejected",
     upstreamStatus |-> status[r]]

Verdict(r) ==
    IF VerifyOK(r)
    THEN [verdict |-> "accepted", upstreamStatus |-> status[r]]
    ELSE [verdict |-> "rejected", upstreamStatus |-> 0]

\* events.record, after the response has been written.
RecordEvent(r) ==
    /\ pc[r] = "record"
    /\ Goto(r, "return")
    /\ event' = [event EXCEPT ![r] = Verdict(r)]
    /\ UNCHANGED <<providerVars, response, status, crashes, upstreamVars>>

\* The handler returns and net/http flushes the response, to the provider if
\* it still waits for this attempt.
Return(r) ==
    /\ pc[r] = "return"
    /\ Goto(r, "done")
    /\ IF waitingFor[r[1]] = r[2]
       THEN /\ waitingFor' = [waitingFor EXCEPT ![r[1]] = 0]
            /\ acked' = IF response[r] \in 200..299 THEN acked \cup {r[1]} ELSE acked
       ELSE UNCHANGED <<waitingFor, acked>>
    /\ UNCHANGED <<configVars, tries, response, status, event, crashes, upstreamVars>>

\* The gateway dies and is restarted: it keeps nothing, every handler is gone
\* and every provider that waits sees its connection close.
Crash ==
    /\ crashes < MaxCrashes
    /\ crashes' = crashes + 1
    /\ pc' = [r \in Requests |-> IF pc[r] \in {"none", "done"} THEN pc[r] ELSE "killed"]
    /\ waitingFor' = [d \in Deliveries |-> 0]
    /\ UNCHANGED <<configVars, tries, acked, response, status, event, upstreamVars>>

-----------------------------------------------------------------------------
\* Mutant: the signature covers the body only.
GatewaySigVerifyBodyOnly(label, body, sig) == sameSecret /\ sig[2] = body

\* gatewaysig.Verify: the MAC over "<provider>.<body>" under the upstream's
\* own secret.
GatewaySigVerify(label, body, sig) == sameSecret /\ sig = <<label, body>>

\* The upstream receives a forwarded request.  What the application does with
\* an accepted one is its own affair.
UpstreamHandles(r) ==
    /\ r \in wire
    /\ wire' = wire \ {r}
    /\ arrivals' = [arrivals EXCEPT ![r] = @ + 1]
    /\ IF GatewaySigVerify(Provider(r), Body(r), <<Provider(r), Body(r)>>)
       THEN \E s \in UpstreamStatuses :
               /\ reply' = [reply EXCEPT ![r] = s]
               /\ processed' = IF s = 200
                               THEN processed \cup {<<Provider(r), Body(r), r>>}
                               ELSE processed
       ELSE reply' = [reply EXCEPT ![r] = 401] /\ UNCHANGED processed
    /\ UNCHANGED <<providerVars, handlerVars, crashes, strays>>

\* The forwarded request never arrives.
WireLoses(r) ==
    /\ r \in wire
    /\ wire' = wire \ {r}
    /\ UNCHANGED <<providerVars, handlerVars, crashes, reply, arrivals, processed, strays>>

\* A message reaches the upstream without passing the gateway: its label and
\* body are anything, its signature one the gateway made for a request r.
StrayMessage(label, body, r) ==
    /\ pc[r] \in {"await", "record", "return", "done"} /\ VerifyOK(r)
    /\ GatewaySigVerify(label, body, <<Provider(r), Body(r)>>)
    /\ strays' = strays \cup {<<label, body>>}
    /\ UNCHANGED <<providerVars, handlerVars, crashes, wire, reply, arrivals, processed>>

-----------------------------------------------------------------------------
Handler(r) ==
    \/ ReadBody(r) \/ ReadBodyFails(r)
    \/ VerifyAccepts(r) \/ VerifyRejects(r)
    \/ Forward(r) \/ ForwardUnbuildable(r)
    \/ UpstreamAnswers(r) \/ UpstreamFails(r)
    \/ RecordEvent(r) \/ Return(r)

Environment ==
    \/ \E d \in Deliveries : Attempt(d) \/ GiveUp(d)
    \/ \E r \in Requests : UpstreamHandles(r) \/ WireLoses(r)
    \/ \E p \in Providers, b \in Bodies, r \in Requests : StrayMessage(p, b, r)

Next == (\E r \in Requests : Handler(r)) \/ Environment \/ Crash

Spec == Init /\ [][Next]_vars

-----------------------------------------------------------------------------
(* What the upstream accepts as provider p's was signed by p, for p's own  *)
(* route and that very body (gatewaysig.go:1-6): neither a retry, a late   *)
(* forward, nor a message carrying a Gateway signature made for another    *)
(* one gets a different body or label in.                                  *)
OnlyVerifiedIsProcessed ==
    \A m \in {<<x[1], x[2]>> : x \in processed} \cup strays :
        \E d \in Deliveries :
            signed[d] = m /\ deliver[d] = [provider |-> m[1], body |-> m[2]]

(* A 2xx seen by a provider means the upstream processed that delivery,    *)
(* whatever was lost, timed out, retried or killed on the way              *)
(* (main.go:73-96; PRODUCTION.md:93-94 leaves the retry to the provider).  *)
AckedWasProcessed ==
    \A d \in acked : \E n \in 1..MaxAttempts :
        <<deliver[d].provider, deliver[d].body, <<d, n>>>> \in processed

(* The verdict event agrees with what the provider was told (main.go:59-66 *)
(* and 70-72): rejected with 401 and nothing sent upstream; accepted with  *)
(* the upstream's own status, or with status 0 and 502.  Among answered    *)
(* requests only one whose body could not be read, a 400, has no event.    *)
EventMatchesResponse ==
    \A r \in Requests :
        /\ event[r].verdict = "rejected" =>
              response[r] = 401 /\ ~VerifyOK(r) /\ r \notin wire /\ arrivals[r] = 0
        /\ event[r].verdict = "accepted" =>
              /\ VerifyOK(r)
              /\ \/ event[r].upstreamStatus = response[r] /\ reply[r] = response[r]
                 \/ event[r].upstreamStatus = 0 /\ response[r] = 502
        /\ pc[r] = "done" => (event[r].verdict = "none" <=> response[r] = 400)
=============================================================================
