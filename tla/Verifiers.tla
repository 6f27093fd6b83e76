------------------------------ MODULE Verifiers ------------------------------
(***************************************************************************)
(* How the gateway decides on one request: the four provider verifiers     *)
(* (src/verifier.go, stripe.go, github.go, shopify.go, paypal.go), chosen  *)
(* by buildVerifier (RouteConfig), and classifyReason (src/events.go),     *)
(* which turns the text of the error into the reason of the verdict event. *)
(*                                                                         *)
(* Data.  A signature is what it signs, <<key, message>>, with the key     *)
(* "undecodable" when it is not hex or base64; a MAC or RSA check succeeds *)
(* exactly when key and message are the expected ones.  An error is a tag, *)
(* and Text gives the substrings classifyReason looks for that its text    *)
(* contains (text quoted from the request contains none of them).  The     *)
(* fetched PayPal certificate is the outcome of the fetch.  time.Duration  *)
(* is a signed DurBits-bit number of ticks and unix seconds a signed       *)
(* SecBits-bit number, wrapping and saturating as the time package does.   *)
(***************************************************************************)
EXTENDS Integers, Sequences, FiniteSetsExt, RouteConfig

CONSTANTS
    DurBits,        \* width of time.Duration (64)
    SecBits,        \* width of unix seconds (64)
    Second,         \* ticks in a second (10^9)
    UnixToInternal, \* offset of the time package's internal epoch, in seconds
    Routes,         \* configured routes
    Inputs(_),      \* the requests considered for a route
    Nows            \* values of the clock, in seconds

DurMin == -(2^(DurBits - 1))
DurMax == 2^(DurBits - 1) - 1
HalfSec == 2^(SecBits - 1)

\* The clock is further from the end of the representable seconds than the
\* longest Duration (292 years).
ASSUME VerifierAssumption ==
    /\ DurBits \in Nat \ {0, 1} /\ SecBits \in Nat \ {0, 1}
    /\ Second \in Nat \ {0} /\ UnixToInternal \in Nat
    /\ \A n \in Nows : n \in Nat /\ n + UnixToInternal + (DurMax \div Second) < HalfSec

VARIABLES
    route,      \* the route: provider, secret, replay window, webhook id
    request,    \* the raw body and the signature headers
    now,        \* the clock when the body has been read
    outcome,    \* "pending", "not served", "accepted", or the error
    reason      \* the reason of the verdict event

vars == <<route, request, now, outcome, reason>>

\* A t= value that is not a number (strconv.ParseInt fails), and an empty one
\* or none.
NotANumber  == 2 * HalfSec
NoTimestamp == 2 * HalfSec + 1

\* What headers can hold: a request with a Stripe header is a sequence of
\* parts; the other shapes have one signature, and no key is undecodable.
ASSUME InputAssumption ==
    \A r \in Routes :
        /\ r.secret # "undecodable"
        /\ \A q \in Inputs(r) :
            /\ r.provider = "stripe" =>
                  /\ q.header \in Seq({q.header[i] : i \in DOMAIN q.header})
                  /\ \A i \in DOMAIN q.header : q.header[i].k = "t" =>
                        q.header[i].ts \in (-HalfSec..HalfSec - 1) \cup {NotANumber, NoTimestamp}
            /\ r.provider \in {"github", "shopify", "paypal"} =>
                  q.form \in {"absent", "present"} \cup (IF r.provider = "github" THEN {"no prefix"} ELSE {})
            /\ r.provider = "paypal" => q.cert # "undecodable"

-----------------------------------------------------------------------------
\* Negating the least duration overflows back to itself.
DurNeg(d) == IF d = DurMin THEN DurMin ELSE -d

\* Seconds since the internal epoch, wrapping like int64.
InternalSec(unix) ==
    ((unix + UnixToInternal + HalfSec) % (2 * HalfSec)) - HalfSec

\* t.Sub(u) saturates.
TimeSub(t, u) ==
    LET d == (InternalSec(t) - InternalSec(u)) * Second
    IN  CASE d < DurMin -> DurMin
          [] d > DurMax -> DurMax
          [] OTHER -> d

\* Mutant: only a past timestamp can be stale.
OutsidePastOnly(t, ts, window) == window > 0 /\ TimeSub(t, ts) > window

OutsideReplayWindow(t, ts, window) ==
    LET sub   == TimeSub(t, ts)
        delta == IF sub < 0 THEN DurNeg(sub) ELSE sub
    IN  window > 0 /\ delta > window

-----------------------------------------------------------------------------
\* A part of a Stripe header is a t= value, a v1= signature or something else.
PartsNamed(header, k) == {i \in DOMAIN header : header[i].k = k}

\* The loop over the parts: the last t wins and every v1 is kept.
ParseStripeSig(header) ==
    [ts   |-> IF PartsNamed(header, "t") = {}
              THEN NoTimestamp
              ELSE header[Max(PartsNamed(header, "t"))].ts,
     sigs |-> {header[i].sig : i \in PartsNamed(header, "v1")}]

StripeVerify(r, q, t) ==
    LET p == ParseStripeSig(q.header)
    IN  IF q.header = <<>> THEN "missing Stripe-Signature header"
        ELSE IF p.ts = NoTimestamp \/ p.sigs = {} THEN "malformed Stripe-Signature header"
        ELSE IF p.ts = NotANumber THEN "invalid timestamp"
        ELSE IF OutsideReplayWindow(t, p.ts, r.window) THEN "timestamp outside replay window"
        ELSE IF <<r.secret, <<p.ts, q.body>>>> \in p.sigs THEN "accepted"
        ELSE "no matching signature"

\* sha256=<hex> over the body.
GitHubVerify(r, q) ==
    IF q.form = "absent" THEN "missing X-Hub-Signature-256 header"
    ELSE IF q.form = "no prefix" THEN "malformed X-Hub-Signature-256 header"
    ELSE IF q.sig[1] = "undecodable" THEN "invalid signature encoding"
    ELSE IF q.sig = <<r.secret, q.body>> THEN "accepted"
    ELSE "signature mismatch"

\* Base64 over the body, no prefix.
ShopifyVerify(r, q) ==
    IF q.form = "absent" THEN "missing X-Shopify-Hmac-SHA256 header"
    ELSE IF q.sig[1] = "undecodable" THEN "invalid signature encoding"
    ELSE IF q.sig = <<r.secret, q.body>> THEN "accepted"
    ELSE "signature mismatch"

\* What v.cert(certURL) fails with: the host check, the fetch, the parse.
CertErrors == {
    "paypal cert: invalid paypal-cert-url",
    "paypal cert: paypal-cert-url must be https",
    "paypal cert: host is not a trusted PayPal host",
    "paypal cert: fetch failed",
    "paypal cert: cert fetch: status",
    "paypal cert: parse certificate",
    "paypal cert: no certificate found in response",
    "paypal cert: certificate chain" }

\* The certificate's key must have signed id|time|webhookID|crc32(body).  The
\* id and time headers are one field; q.cert is a key or a CertErrors member.
PayPalVerify(r, q) ==
    IF q.form = "absent" THEN "missing PayPal signature headers"
    ELSE IF q.algo # "SHA256withRSA" THEN "unsupported paypal-auth-algo"
    ELSE IF q.cert \in CertErrors THEN q.cert
    ELSE IF q.cert = "not RSA" THEN "paypal cert: not an RSA key"
    ELSE IF q.sig[1] = "undecodable" THEN "invalid paypal-transmission-sig encoding"
    ELSE IF q.sig = <<q.cert, <<q.transmission, r.webhook, q.body>>>> THEN "accepted"
    ELSE "signature mismatch"

-----------------------------------------------------------------------------
Verify(r, q, t) ==
    CASE r.provider = "stripe"  -> StripeVerify(r, q, t)
      [] r.provider = "github"  -> GitHubVerify(r, q)
      [] r.provider = "shopify" -> ShopifyVerify(r, q)
      [] r.provider = "paypal"  -> PayPalVerify(r, q)

-----------------------------------------------------------------------------
\* The substrings classifyReason looks for that the text of an error contains.
Text(err) ==
    CASE err \in {"missing Stripe-Signature header", "missing X-Hub-Signature-256 header",
                  "missing X-Shopify-Hmac-SHA256 header", "missing PayPal signature headers"}
             -> {"missing", "header"}
      [] err \in {"malformed Stripe-Signature header", "malformed X-Hub-Signature-256 header"}
             -> {"malformed", "header"}
      [] err \in {"invalid signature encoding", "invalid paypal-transmission-sig encoding"}
             -> {"encoding"}
      [] err = "invalid timestamp" -> {"invalid timestamp"}
      [] err = "timestamp outside replay window" -> {"outside replay window"}
      [] err = "no matching signature" -> {"no matching signature"}
      [] err = "signature mismatch" -> {"signature mismatch"}
      [] err = "unsupported paypal-auth-algo" -> {"unsupported paypal-auth-algo"}
      [] err = "paypal cert: invalid paypal-cert-url" -> {"invalid paypal-cert-url", "missing"}
      [] err = "paypal cert: paypal-cert-url must be https" -> {"must be https"}
      [] err = "paypal cert: host is not a trusted PayPal host" -> {"not a trusted PayPal host"}
      [] err = "paypal cert: parse certificate" -> {"parse certificate", "malformed"}
      [] err = "paypal cert: no certificate found in response" -> {"no certificate found"}
      [] err = "paypal cert: certificate chain" -> {"certificate chain"}
      [] OTHER -> {}

\* Mutant: a missing header is recognised by either word.
ClassifyReasonEither(err) ==
    LET has(words) == Text(err) \cap words # {}
    IN  IF has({"missing", "header"}) THEN "missing header"
        ELSE IF has({"outside replay window"}) THEN "stale timestamp"
        ELSE IF has({"not a trusted PayPal host", "must be https", "invalid paypal-cert-url"}) THEN
                "cert host rejected"
        ELSE IF has({"certificate chain"}) THEN "cert chain invalid"
        ELSE IF has({"unsupported paypal-auth-algo"}) THEN "unsupported algorithm"
        ELSE IF has({"signature mismatch", "no matching signature"}) THEN "signature mismatch"
        ELSE IF has({"encoding", "malformed", "invalid timestamp", "parse certificate",
                    "no certificate found"}) THEN "bad encoding"
        ELSE "other"

ClassifyReason(err) ==
    LET has(words) == Text(err) \cap words # {}
    IN  IF {"missing", "header"} \subseteq Text(err) THEN "missing header"
        ELSE IF has({"outside replay window"}) THEN "stale timestamp"
        ELSE IF has({"not a trusted PayPal host", "must be https", "invalid paypal-cert-url"}) THEN
                "cert host rejected"
        ELSE IF has({"certificate chain"}) THEN "cert chain invalid"
        ELSE IF has({"unsupported paypal-auth-algo"}) THEN "unsupported algorithm"
        ELSE IF has({"signature mismatch", "no matching signature"}) THEN "signature mismatch"
        ELSE IF has({"encoding", "malformed", "invalid timestamp", "parse certificate",
                    "no certificate found"}) THEN "bad encoding"
        ELSE "other"

-----------------------------------------------------------------------------
Init ==
    /\ route \in Routes
    /\ request \in Inputs(route)
    /\ now \in Nows
    /\ outcome = "pending"
    /\ reason = ""

\* A route whose verifier cannot be built stops the gateway at boot.
RefuseToServe ==
    /\ outcome = "pending"
    /\ BuildVerifier(route) # "ok"
    /\ outcome' = "not served"
    /\ UNCHANGED <<route, request, now, reason>>

Accept ==
    /\ outcome = "pending"
    /\ BuildVerifier(route) = "ok"
    /\ Verify(route, request, now) = "accepted"
    /\ outcome' = "accepted"
    /\ UNCHANGED <<route, request, now, reason>>

Reject ==
    /\ outcome = "pending"
    /\ BuildVerifier(route) = "ok"
    /\ Verify(route, request, now) # "accepted"
    /\ outcome' = Verify(route, request, now)
    /\ reason' = ClassifyReason(outcome')
    /\ UNCHANGED <<route, request, now>>

Next == RefuseToServe \/ Accept \/ Reject

Spec == Init /\ [][Next]_vars

-----------------------------------------------------------------------------
\* The reference: what a verifier is for, said without its steps.

\* The timestamp a Stripe header carries is that of its last t part, if that
\* is a number.
StripeTimestamps(header) ==
    {header[i].ts : i \in {j \in DOMAIN header :
        header[j].k = "t" /\ \A m \in DOMAIN header : m > j => header[m].k # "t"}}
    \ {NotANumber, NoTimestamp}

\* The provider, holding the route's key, signed this very body.
Authentic ==
    CASE route.provider = "stripe" ->
            \E ts \in StripeTimestamps(request.header) : \E i \in DOMAIN request.header :
               /\ request.header[i].k = "v1"
               /\ request.header[i].sig = <<route.secret, <<ts, request.body>>>>
      [] route.provider \in {"github", "shopify"} ->
            /\ request.form = "present"
            /\ request.sig = <<route.secret, request.body>>
      [] route.provider = "paypal" ->
            /\ request.form = "present" /\ request.algo = "SHA256withRSA"
            /\ request.cert \notin CertErrors \cup {"not RSA"}
            /\ request.sig = <<request.cert, <<request.transmission, route.webhook, request.body>>>>

\* The distance between the clock and ts, in ticks, without any overflow.
Age(ts) == (IF now >= ts THEN now - ts ELSE ts - now) * Second

Stale ==
    /\ route.provider = "stripe" /\ route.window > 0
    /\ \E ts \in StripeTimestamps(request.header) : Age(ts) > route.window

\* Every timestamp is close enough to the clock for its age to be a Duration.
AgesRepresentable ==
    route.provider = "stripe" =>
        \A ts \in StripeTimestamps(request.header) : Age(ts) <= DurMax

(* verifier.go:10-15: Verify returns nil iff the signature is valid and,   *)
(* where the shape carries a timestamp, fresh within the replay window.    *)
(* Both directions, for every provider, header shape and route the gateway *)
(* serves, for timestamps whose age is representable: an authentic fresh   *)
(* request is never turned away, whatever else its header carries.         *)
AcceptedIffAuthenticAndFresh ==
    AgesRepresentable /\ outcome \notin {"pending", "not served"} =>
        (outcome = "accepted" <=> Authentic /\ ~Stale)

(* The reason in the verdict event names the check that failed, although   *)
(* classifyReason only sees the error's text (events.go:168-208): a header *)
(* is called missing exactly when it is, stale exactly when an otherwise   *)
(* readable header is too old or too new, and a signature mismatch only    *)
(* when the request is readable, fresh and not authentic.                  *)
ReasonNamesFailedCheck ==
    AgesRepresentable /\ reason # "" =>
        /\ reason = "missing header" <=>
              (IF route.provider = "stripe" THEN request.header = <<>> ELSE request.form = "absent")
        /\ reason = "stale timestamp" <=>
              Stale /\ \E i \in DOMAIN request.header : request.header[i].k = "v1"
        /\ reason = "signature mismatch" => ~Authentic /\ ~Stale
        /\ reason = "unsupported algorithm" => request.algo # "SHA256withRSA"
        /\ reason \in {"cert host rejected", "cert chain invalid"} => request.cert \in CertErrors

(* stripe.go:28-31: a timestamp outside ReplayWindow is rejected even when *)
(* the HMAC matches.  Negating the saturated difference overflows, so a    *)
(* timestamp far enough in the future passes.                              *)
StaleNeverAccepted == outcome = "accepted" => ~Stale
=============================================================================
