--------------------------- MODULE VerifiersProofs ---------------------------
(***************************************************************************)
(* What verification promises for any routes, requests, keys and clock.    *)
(*                                                                         *)
(* The first half is about one decision: each provider's verifier accepts  *)
(* exactly what is authentic and fresh, worked out check by check (the     *)
(* Stripe timestamp through the Duration arithmetic of the time package),  *)
(* and classifyReason names the check that failed.                         *)
(*                                                                         *)
(* The second half is about the certificate a PayPal webhook is verified   *)
(* with: it is trusted and recent, for any number of webhooks, URLs and    *)
(* certificates.  A certificate reaches a webhook from its own fetch, or   *)
(* through the cache from another's, so the invariant follows it along     *)
(* that way: what a fetch may hold (InFlightOK) and what set leaves behind *)
(* (EntriesOK).                                                            *)
(***************************************************************************)
EXTENDS Verifiers, PayPalCertCache, QueueLemmas

\* The verdict is that of the verifier, and the reason is made from its error.
Decided ==
    outcome \notin {"pending", "not served"} =>
        BuildVerifier(route) = "ok" /\ outcome = Verify(route, request, now)
Reasoned ==
    reason # "" =>
        /\ outcome \notin {"pending", "not served", "accepted"}
        /\ reason = ClassifyReason(outcome)

DecisionInv ==
    /\ route \in Routes
    /\ request \in Inputs(route)
    /\ now \in Nows
    /\ Decided
    /\ Reasoned

\* No error has the text of a verdict that is not one.
LEMMA VerdictsAreApart ==
    ASSUME NEW r, NEW q, NEW t, BuildVerifier(r) = "ok"
    PROVE  /\ Verify(r, q, t) # "pending" /\ Verify(r, q, t) # "not served"
           /\ r.provider \in {"stripe", "github", "shopify", "paypal"}
<1>1. r.provider \in {"stripe", "github", "shopify", "paypal"}
  BY DEF BuildVerifier, HMACProviders
<1>2. StripeVerify(r, q, t) \notin {"pending", "not served"}
  BY DEF StripeVerify
<1>3. GitHubVerify(r, q) \notin {"pending", "not served"}
  BY DEF GitHubVerify
<1>4. ShopifyVerify(r, q) \notin {"pending", "not served"}
  BY DEF ShopifyVerify
<1>5. PayPalVerify(r, q) \notin {"pending", "not served"}
  BY DEF PayPalVerify, CertErrors
<1>6. Verify(r, q, t) \in {StripeVerify(r, q, t), GitHubVerify(r, q), ShopifyVerify(r, q),
                          PayPalVerify(r, q)}
  BY <1>1 DEF Verify
<1> QED BY <1>1, <1>2, <1>3, <1>4, <1>5, <1>6

LEMMA DecisionInvHolds == Spec => []DecisionInv
<1>1. Init => DecisionInv
  BY DEF Init, DecisionInv, Decided, Reasoned
<1>2. DecisionInv /\ [Next]_vars => DecisionInv'
  <2> SUFFICES ASSUME DecisionInv, [Next]_vars PROVE DecisionInv'
    OBVIOUS
  <2>1. UNCHANGED <<route, request, now>>
    BY DEF Next, RefuseToServe, Accept, Reject, vars
  <2>2. CASE RefuseToServe
    BY <2>1, <2>2 DEF RefuseToServe, DecisionInv, Decided, Reasoned
  <2>3. CASE Accept
    BY <2>1, <2>3 DEF Accept, DecisionInv, Decided, Reasoned
  <2>4. CASE Reject
    <3>1. outcome' # "pending" /\ outcome' # "not served"
      BY <2>4, VerdictsAreApart DEF Reject
    <3> QED BY <2>1, <2>4, <3>1 DEF Reject, DecisionInv, Decided, Reasoned
  <2>5. CASE UNCHANGED vars
    BY <2>5 DEF vars, DecisionInv, Decided, Reasoned
  <2> QED BY <2>2, <2>3, <2>4, <2>5 DEF Next
<1> QED BY <1>1, <1>2, PTL DEF Spec

-----------------------------------------------------------------------------
\* now.Sub neither wraps nor saturates for a timestamp whose age is a
\* Duration, and delta is that age.
LEMMA DeltaIsAge ==
    ASSUME now \in Nows, NEW ts \in -HalfSec..HalfSec - 1, Age(ts) <= DurMax, NEW w
    PROVE  OutsideReplayWindow(now, ts, w) <=> w > 0 /\ Age(ts) > w
<1>1. /\ Second \in Nat /\ Second > 0 /\ UnixToInternal \in Nat /\ now \in Nat
      /\ DurBits - 1 \in Nat /\ SecBits - 1 \in Nat
      /\ now + UnixToInternal + (DurMax \div Second) < HalfSec
  BY VerifierAssumption
<1>2. HalfSec \in Int /\ DurMax \in Int /\ DurMin = -DurMax - 1
  BY <1>1 DEF HalfSec, DurMax, DurMin
<1>3. ts \in Int /\ -HalfSec <= ts /\ ts < HalfSec
  BY <1>2
<1> DEFINE gap == IF now >= ts THEN now - ts ELSE ts - now
<1>4. gap \in Nat /\ Age(ts) = gap * Second
  BY <1>1, <1>3 DEF Age
<1>5. DurMax \in Nat
  BY <1>1, <1>2, <1>4
<1>6. gap <= DurMax \div Second /\ DurMax \div Second \in Nat
  <2>1. \A x, m, y \in Nat : m > 0 /\ y * m <= x => y <= x \div m /\ x \div m \in Nat
    OBVIOUS
  <2> HIDE DEF gap
  <2> QED BY <1>1, <1>4, <1>5, <2>1
<1>7. \A u \in Int : -HalfSec <= u + UnixToInternal /\ u + UnixToInternal < HalfSec =>
          InternalSec(u) = u + UnixToInternal
  <2>1. \A x, m \in Nat : x < m => x % m = x
    OBVIOUS
  <2> SUFFICES ASSUME NEW u \in Int,
                      -HalfSec <= u + UnixToInternal, u + UnixToInternal < HalfSec
               PROVE  InternalSec(u) = u + UnixToInternal
    OBVIOUS
  <2>2. /\ u + UnixToInternal + HalfSec \in Nat /\ 2 * HalfSec \in Nat
        /\ u + UnixToInternal + HalfSec < 2 * HalfSec
    BY <1>1, <1>2
  <2>3. (u + UnixToInternal + HalfSec) % (2 * HalfSec) = u + UnixToInternal + HalfSec
    BY <2>1, <2>2
  <2> QED BY <1>1, <1>2, <2>3 DEF InternalSec
<1>8. InternalSec(now) = now + UnixToInternal /\ InternalSec(ts) = ts + UnixToInternal
  <2>1. now + UnixToInternal < HalfSec /\ ts + UnixToInternal < HalfSec
    BY <1>1, <1>2, <1>3, <1>6
  <2>2. -HalfSec <= now + UnixToInternal /\ -HalfSec <= ts + UnixToInternal
    BY <1>1, <1>2, <1>3, <2>1
  <2> QED BY <1>1, <1>3, <1>7, <2>1, <2>2
<1>9. InternalSec(now) - InternalSec(ts) = now - ts
  BY <1>1, <1>3, <1>8
<1>10. IF now >= ts THEN (now - ts) * Second = Age(ts) ELSE (now - ts) * Second = -Age(ts)
  BY <1>1, <1>3 DEF Age
<1>11. (now - ts) * Second \in Int /\ Age(ts) \in Nat
  BY <1>1, <1>3, <1>4
<1>12. TimeSub(now, ts) = (now - ts) * Second
  <2>1. DurMin <= (now - ts) * Second /\ (now - ts) * Second <= DurMax
    BY <1>2, <1>10, <1>11
  <2> QED BY <1>2, <1>9, <1>11, <2>1 DEF TimeSub
<1>13. now < ts => (now - ts) * Second # DurMin
  BY <1>1, <1>2, <1>3, <1>10, <1>11
<1>14. now < ts => Age(ts) # 0
  BY <1>1, <1>3, <1>4
<1>15. (IF TimeSub(now, ts) < 0 THEN DurNeg(TimeSub(now, ts)) ELSE TimeSub(now, ts)) = Age(ts)
  BY <1>1, <1>3, <1>10, <1>11, <1>12, <1>13, <1>14 DEF DurNeg
<1> QED BY <1>15 DEF OutsideReplayWindow

\* parseStripeSig's timestamp is the one of the last t part, if there is any
\* and it is a number.
LEMMA ParsedTimestamp ==
    ASSUME NEW header, header \in Seq({header[i] : i \in DOMAIN header})
    PROVE  StripeTimestamps(header) =
               {ParseStripeSig(header).ts} \ {NotANumber, NoTimestamp}
<1> DEFINE T == PartsNamed(header, "t")
<1>1. DOMAIN header = 1..Len(header) /\ Len(header) \in Nat
  BY LenProperties
<1>2. CASE T = {}
  BY <1>2 DEF PartsNamed, StripeTimestamps, ParseStripeSig
<1>3. CASE T # {}
  <2>1. T \in SUBSET Int /\ IsFiniteSet(T)
    <3>1. T \subseteq 1..Len(header) /\ IsFiniteSet(1..Len(header))
      BY <1>1, FS_Interval DEF PartsNamed
    <3> QED BY <3>1, FS_Subset
  <2>2. Max(T) \in T /\ \A x \in T : x <= Max(T)
    BY <1>3, <2>1, MaxOfFinite
  <2>3. ParseStripeSig(header).ts = header[Max(T)].ts
    BY <1>3 DEF ParseStripeSig
  <2>4. {j \in DOMAIN header :
           header[j].k = "t" /\ \A m \in DOMAIN header : m > j => header[m].k # "t"} = {Max(T)}
    <3>1. \A j \in DOMAIN header : header[j].k = "t" <=> j \in T
      BY DEF PartsNamed
    <3>2. T \subseteq DOMAIN header /\ DOMAIN header \subseteq Int
      BY <1>1 DEF PartsNamed
    <3> HIDE DEF T
    <3> QED BY <2>2, <3>1, <3>2
  <2> QED BY <1>3, <2>3, <2>4 DEF StripeTimestamps
<1> QED BY <1>2, <1>3

\* Stripe: what each answer of the verifier says of the request.
LEMMA StripeDecides ==
    ASSUME DecisionInv, route.provider = "stripe", AgesRepresentable, NEW v,
           v = StripeVerify(route, request, now)
    PROVE  /\ v = "accepted" <=> Authentic /\ ~Stale
           /\ v = "missing Stripe-Signature header" <=> request.header = <<>>
           /\ v = "timestamp outside replay window" <=>
                 Stale /\ \E i \in DOMAIN request.header : request.header[i].k = "v1"
           /\ v = "no matching signature" => ~Authentic /\ ~Stale
           /\ v \in {"accepted", "missing Stripe-Signature header",
                     "malformed Stripe-Signature header", "invalid timestamp",
                     "timestamp outside replay window", "no matching signature"}
<1> DEFINE header == request.header
           p == ParseStripeSig(header)
           key(ts) == <<route.secret, <<ts, request.body>>>>
<1>1. /\ header \in Seq({header[i] : i \in DOMAIN header})
      /\ \A i \in DOMAIN header : header[i].k = "t" =>
            header[i].ts \in (-HalfSec..HalfSec - 1) \cup {NotANumber, NoTimestamp}
  BY InputAssumption DEF DecisionInv
<1>2. StripeTimestamps(header) = {p.ts} \ {NotANumber, NoTimestamp}
  BY <1>1, ParsedTimestamp
<1>3. p.ts \in (-HalfSec..HalfSec - 1) \cup {NotANumber, NoTimestamp}
  <2>1. \A ts \in StripeTimestamps(header) : ts \in -HalfSec..HalfSec - 1
    BY <1>1 DEF StripeTimestamps
  <2> HIDE DEF p
  <2> QED BY <1>2, <2>1
<1>4. HalfSec \in Int /\ NoTimestamp # NotANumber /\ NoTimestamp \notin -HalfSec..HalfSec - 1
      /\ NotANumber \notin -HalfSec..HalfSec - 1
  <2>1. /\ SecBits - 1 \in Nat /\ UnixToInternal \in Nat /\ now \in Nat
        /\ now + UnixToInternal + (DurMax \div Second) < HalfSec
    BY VerifierAssumption DEF DecisionInv
  <2>2. HalfSec \in Int
    BY <2>1 DEF HalfSec
  <2> QED BY <2>2 DEF NoTimestamp, NotANumber
<1>5. /\ p.sigs = {} <=> ~\E i \in DOMAIN header : header[i].k = "v1"
      /\ \A s : s \in p.sigs <=> \E i \in DOMAIN header : header[i].k = "v1" /\ header[i].sig = s
  BY DEF ParseStripeSig, PartsNamed
<1>6. header = <<>> => p.ts = NoTimestamp /\ p.sigs = {}
  <2>1. header = <<>> => DOMAIN header = {}
    OBVIOUS
  <2> QED BY <2>1 DEF PartsNamed, ParseStripeSig
<1>7. p.ts \in -HalfSec..HalfSec - 1 =>
          (OutsideReplayWindow(now, p.ts, route.window) <=>
              route.window > 0 /\ Age(p.ts) > route.window)
  <2> SUFFICES ASSUME p.ts \in -HalfSec..HalfSec - 1
               PROVE  OutsideReplayWindow(now, p.ts, route.window) <=>
                          route.window > 0 /\ Age(p.ts) > route.window
    OBVIOUS
  <2>1. p.ts \notin {NotANumber, NoTimestamp}
    BY <1>3, <1>4
  <2>2. Age(p.ts) <= DurMax
    BY <1>2, <2>1 DEF AgesRepresentable
  <2> HIDE DEF p
  <2> QED BY <2>2, DeltaIsAge DEF DecisionInv
<1>8. Authentic <=> p.ts \notin {NotANumber, NoTimestamp} /\ key(p.ts) \in p.sigs
  <2> HIDE DEF p
  <2> QED BY <1>2, <1>5 DEF Authentic
<1>9. Stale <=> /\ p.ts \notin {NotANumber, NoTimestamp}
               /\ route.window > 0 /\ Age(p.ts) > route.window
  <2> HIDE DEF p
  <2> QED BY <1>2 DEF Stale
<1>10. v = IF header = <<>> THEN "missing Stripe-Signature header"
           ELSE IF p.ts = NoTimestamp \/ p.sigs = {} THEN "malformed Stripe-Signature header"
           ELSE IF p.ts = NotANumber THEN "invalid timestamp"
           ELSE IF OutsideReplayWindow(now, p.ts, route.window)
                THEN "timestamp outside replay window"
           ELSE IF key(p.ts) \in p.sigs THEN "accepted"
           ELSE "no matching signature"
  BY DEF StripeVerify
<1> HIDE DEF p, key
<1>11. CASE header = <<>>
  BY <1>5, <1>6, <1>8, <1>9, <1>10, <1>11
<1>12. CASE header # <<>> /\ (p.ts = NoTimestamp \/ p.sigs = {})
  <2>1. v = "malformed Stripe-Signature header"
    BY <1>3, <1>10, <1>12
  <2> QED BY <1>5, <1>8, <1>9, <1>12, <2>1
<1>13. CASE header # <<>> /\ p.ts # NoTimestamp /\ p.sigs # {} /\ p.ts = NotANumber
  <2>1. v = "invalid timestamp"
    BY <1>4, <1>10, <1>13
  <2> QED BY <1>8, <1>9, <1>13, <2>1
<1>14. CASE header # <<>> /\ p.ts # NoTimestamp /\ p.sigs # {} /\ p.ts # NotANumber
  <2>1. p.ts \in -HalfSec..HalfSec - 1 /\ p.ts # NoTimestamp
    BY <1>3, <1>4, <1>14
  <2>2. OutsideReplayWindow(now, p.ts, route.window) <=> Stale
    BY <1>7, <1>9, <1>14, <2>1
  <2>3. v = IF Stale THEN "timestamp outside replay window"
            ELSE IF Authentic THEN "accepted" ELSE "no matching signature"
    BY <1>8, <1>10, <1>14, <2>1, <2>2
  <2> QED BY <1>5, <1>14, <2>3
<1> QED BY <1>11, <1>12, <1>13, <1>14

\* The providers without a timestamp.
LEMMA OthersDecide ==
    ASSUME DecisionInv, route.provider \in {"github", "shopify", "paypal"}, NEW v,
           v = Verify(route, request, now)
    PROVE  /\ ~Stale
           /\ v = "accepted" <=> Authentic
           /\ v \in {"missing X-Hub-Signature-256 header", "missing X-Shopify-Hmac-SHA256 header",
                     "missing PayPal signature headers"} <=> request.form = "absent"
           /\ v = "signature mismatch" => ~Authentic
           /\ v = "unsupported paypal-auth-algo" => request.algo # "SHA256withRSA"
           /\ v \in CertErrors => request.cert \in CertErrors
           /\ v \in CertErrors \cup {"accepted", "missing X-Hub-Signature-256 header",
                    "missing X-Shopify-Hmac-SHA256 header", "missing PayPal signature headers",
                    "malformed X-Hub-Signature-256 header", "invalid signature encoding",
                    "invalid paypal-transmission-sig encoding", "signature mismatch",
                    "unsupported paypal-auth-algo", "paypal cert: not an RSA key"}
<1>1. ~Stale
  BY DEF Stale
<1>2. /\ route.secret # "undecodable"
      /\ request.form \in {"absent", "present"} \cup
             (IF route.provider = "github" THEN {"no prefix"} ELSE {})
      /\ route.provider = "paypal" => request.cert # "undecodable"
  BY InputAssumption DEF DecisionInv
<1>3. CASE route.provider = "github"
  <2>1. v = GitHubVerify(route, request)
    BY <1>3 DEF Verify
  <2>2. Authentic <=> request.form = "present" /\ request.sig = <<route.secret, request.body>>
    BY <1>3 DEF Authentic
  <2>3. request.sig = <<route.secret, request.body>> => request.sig[1] # "undecodable"
    <3>1. request.sig = <<route.secret, request.body>> => request.sig[1] = route.secret
      OBVIOUS
    <3> QED BY <1>2, <3>1
  <2> QED BY <1>1, <1>2, <1>3, <2>1, <2>2, <2>3 DEF GitHubVerify, CertErrors
<1>4. CASE route.provider = "shopify"
  <2>1. v = ShopifyVerify(route, request)
    BY <1>4 DEF Verify
  <2>2. Authentic <=> request.form = "present" /\ request.sig = <<route.secret, request.body>>
    BY <1>4 DEF Authentic
  <2>3. request.sig = <<route.secret, request.body>> => request.sig[1] # "undecodable"
    <3>1. request.sig = <<route.secret, request.body>> => request.sig[1] = route.secret
      OBVIOUS
    <3> QED BY <1>2, <3>1
  <2> QED BY <1>1, <1>2, <1>4, <2>1, <2>2, <2>3 DEF ShopifyVerify, CertErrors
<1>5. CASE route.provider = "paypal"
  <2> DEFINE genuine == <<request.cert, <<request.transmission, route.webhook, request.body>>>>
  <2>1. v = PayPalVerify(route, request)
    BY <1>5 DEF Verify
  <2>2. Authentic <=> /\ request.form = "present" /\ request.algo = "SHA256withRSA"
                     /\ request.cert \notin CertErrors \cup {"not RSA"}
                     /\ request.sig = genuine
    BY <1>5 DEF Authentic
  <2>3. request.sig = genuine => request.sig[1] # "undecodable"
    BY <1>2, <1>5
  <2>4. v = IF request.form = "absent" THEN "missing PayPal signature headers"
            ELSE IF request.algo # "SHA256withRSA" THEN "unsupported paypal-auth-algo"
            ELSE IF request.cert \in CertErrors THEN request.cert
            ELSE IF request.cert = "not RSA" THEN "paypal cert: not an RSA key"
            ELSE IF request.sig[1] = "undecodable" THEN "invalid paypal-transmission-sig encoding"
            ELSE IF request.sig = genuine THEN "accepted"
            ELSE "signature mismatch"
    BY <2>1 DEF PayPalVerify
  <2> HIDE DEF genuine
  <2> QED BY <1>1, <1>2, <1>5, <2>2, <2>3, <2>4 DEF CertErrors
<1> QED BY <1>3, <1>4, <1>5

(* Every provider's verifier accepts a request exactly when the provider   *)
(* signed this body with the route's key and, for Stripe, its age is       *)
(* within the replay window, for any keys, headers, windows and clock for  *)
(* which the age is a Duration (verifier.go:10-15).                        *)
THEOREM AcceptedIffAuthenticAndFreshHolds == Spec => []AcceptedIffAuthenticAndFresh
<1>1. DecisionInv => AcceptedIffAuthenticAndFresh
  <2> SUFFICES ASSUME DecisionInv, AgesRepresentable, outcome \notin {"pending", "not served"}
               PROVE  outcome = "accepted" <=> Authentic /\ ~Stale
    BY DEF AcceptedIffAuthenticAndFresh
  <2>1. outcome = Verify(route, request, now)
        /\ route.provider \in {"stripe", "github", "shopify", "paypal"}
    BY VerdictsAreApart DEF DecisionInv, Decided
  <2>2. CASE route.provider = "stripe"
    <3>1. outcome = StripeVerify(route, request, now)
      BY <2>1, <2>2 DEF Verify
    <3> QED BY <2>2, <3>1, StripeDecides
  <2>3. CASE route.provider # "stripe"
    BY <2>1, <2>3, OthersDecide
  <2> QED BY <2>2, <2>3
<1> QED BY <1>1, DecisionInvHolds, PTL

-----------------------------------------------------------------------------
\* What classifyReason makes of every text.
LEMMA ReasonOfError ==
    /\ \A e \in {"missing Stripe-Signature header", "missing X-Hub-Signature-256 header",
                 "missing X-Shopify-Hmac-SHA256 header", "missing PayPal signature headers"} :
          ClassifyReason(e) = "missing header"
    /\ \A e \in {"malformed Stripe-Signature header", "malformed X-Hub-Signature-256 header",
                 "invalid signature encoding", "invalid paypal-transmission-sig encoding",
                 "invalid timestamp", "paypal cert: parse certificate",
                 "paypal cert: no certificate found in response"} :
          ClassifyReason(e) = "bad encoding"
    /\ ClassifyReason("timestamp outside replay window") = "stale timestamp"
    /\ \A e \in {"no matching signature", "signature mismatch"} :
          ClassifyReason(e) = "signature mismatch"
    /\ ClassifyReason("unsupported paypal-auth-algo") = "unsupported algorithm"
    /\ \A e \in {"paypal cert: invalid paypal-cert-url", "paypal cert: paypal-cert-url must be https",
                 "paypal cert: host is not a trusted PayPal host"} :
          ClassifyReason(e) = "cert host rejected"
    /\ ClassifyReason("paypal cert: certificate chain") = "cert chain invalid"
    /\ \A e \in {"paypal cert: fetch failed", "paypal cert: cert fetch: status",
                 "paypal cert: not an RSA key"} :
          ClassifyReason(e) = "other"
<1>1. \A e \in {"missing Stripe-Signature header", "missing X-Hub-Signature-256 header",
                "missing X-Shopify-Hmac-SHA256 header", "missing PayPal signature headers"} :
         Text(e) = {"missing", "header"}
  BY DEF Text
<1>2. \A e \in {"malformed Stripe-Signature header", "malformed X-Hub-Signature-256 header"} :
         Text(e) = {"malformed", "header"}
  BY DEF Text
<1>3. \A e \in {"invalid signature encoding", "invalid paypal-transmission-sig encoding"} :
         Text(e) = {"encoding"}
  BY DEF Text
<1>4. /\ Text("invalid timestamp") = {"invalid timestamp"}
      /\ Text("timestamp outside replay window") = {"outside replay window"}
      /\ Text("no matching signature") = {"no matching signature"}
      /\ Text("signature mismatch") = {"signature mismatch"}
      /\ Text("unsupported paypal-auth-algo") = {"unsupported paypal-auth-algo"}
  BY DEF Text
<1>5. /\ Text("paypal cert: invalid paypal-cert-url") = {"invalid paypal-cert-url", "missing"}
      /\ Text("paypal cert: paypal-cert-url must be https") = {"must be https"}
      /\ Text("paypal cert: host is not a trusted PayPal host") = {"not a trusted PayPal host"}
      /\ Text("paypal cert: parse certificate") = {"parse certificate", "malformed"}
      /\ Text("paypal cert: no certificate found in response") = {"no certificate found"}
      /\ Text("paypal cert: certificate chain") = {"certificate chain"}
  BY DEF Text
<1>6. \A e \in {"paypal cert: fetch failed", "paypal cert: cert fetch: status",
                "paypal cert: not an RSA key"} : Text(e) = {}
  BY DEF Text
<1>7. \A e \in {"missing Stripe-Signature header", "missing X-Hub-Signature-256 header",
                "missing X-Shopify-Hmac-SHA256 header", "missing PayPal signature headers"} :
         ClassifyReason(e) = "missing header"
  BY <1>1 DEF ClassifyReason
<1>8. /\ ClassifyReason("malformed Stripe-Signature header") = "bad encoding"
      /\ ClassifyReason("malformed X-Hub-Signature-256 header") = "bad encoding"
      /\ ClassifyReason("invalid signature encoding") = "bad encoding"
      /\ ClassifyReason("invalid paypal-transmission-sig encoding") = "bad encoding"
  <2>1. /\ Text("malformed Stripe-Signature header") = {"malformed", "header"}
        /\ Text("malformed X-Hub-Signature-256 header") = {"malformed", "header"}
        /\ Text("invalid signature encoding") = {"encoding"}
        /\ Text("invalid paypal-transmission-sig encoding") = {"encoding"}
    BY <1>2, <1>3
  <2> QED BY <2>1 DEF ClassifyReason
<1>9. /\ ClassifyReason("invalid timestamp") = "bad encoding"
      /\ ClassifyReason("timestamp outside replay window") = "stale timestamp"
      /\ ClassifyReason("no matching signature") = "signature mismatch"
      /\ ClassifyReason("signature mismatch") = "signature mismatch"
      /\ ClassifyReason("unsupported paypal-auth-algo") = "unsupported algorithm"
  BY <1>4 DEF ClassifyReason
<1>10. /\ ClassifyReason("paypal cert: invalid paypal-cert-url") = "cert host rejected"
       /\ ClassifyReason("paypal cert: paypal-cert-url must be https") = "cert host rejected"
       /\ ClassifyReason("paypal cert: host is not a trusted PayPal host") = "cert host rejected"
       /\ ClassifyReason("paypal cert: parse certificate") = "bad encoding"
       /\ ClassifyReason("paypal cert: no certificate found in response") = "bad encoding"
       /\ ClassifyReason("paypal cert: certificate chain") = "cert chain invalid"
  BY <1>5 DEF ClassifyReason
<1>11. \A e \in {"paypal cert: fetch failed", "paypal cert: cert fetch: status",
                 "paypal cert: not an RSA key"} : ClassifyReason(e) = "other"
  BY <1>6 DEF ClassifyReason
<1> QED BY <1>7, <1>8, <1>9, <1>10, <1>11

(* The reason of a verdict event names the check that failed, although it  *)
(* is made from the text of an error, for every route and request          *)
(* (events.go:168-208).                                                    *)
THEOREM ReasonNamesFailedCheckHolds == Spec => []ReasonNamesFailedCheck
<1>1. DecisionInv => ReasonNamesFailedCheck
  <2> SUFFICES ASSUME DecisionInv, AgesRepresentable, reason # ""
               PROVE  /\ reason = "missing header" <=>
                            (IF route.provider = "stripe" THEN request.header = <<>>
                             ELSE request.form = "absent")
                      /\ reason = "stale timestamp" <=>
                            Stale /\ \E i \in DOMAIN request.header : request.header[i].k = "v1"
                      /\ reason = "signature mismatch" => ~Authentic /\ ~Stale
                      /\ reason = "unsupported algorithm" => request.algo # "SHA256withRSA"
                      /\ reason \in {"cert host rejected", "cert chain invalid"} =>
                            request.cert \in CertErrors
    BY DEF ReasonNamesFailedCheck
  <2>1. /\ outcome = Verify(route, request, now) /\ outcome # "accepted"
        /\ reason = ClassifyReason(outcome)
        /\ route.provider \in {"stripe", "github", "shopify", "paypal"}
    BY VerdictsAreApart DEF DecisionInv, Decided, Reasoned
  <2>2. CASE route.provider = "stripe"
    <3>1. outcome = StripeVerify(route, request, now)
      BY <2>1, <2>2 DEF Verify
    <3>2. /\ outcome = "missing Stripe-Signature header" <=> request.header = <<>>
          /\ outcome = "timestamp outside replay window" <=>
                Stale /\ \E i \in DOMAIN request.header : request.header[i].k = "v1"
          /\ outcome = "no matching signature" => ~Authentic /\ ~Stale
          /\ outcome \in {"accepted", "missing Stripe-Signature header",
                    "malformed Stripe-Signature header", "invalid timestamp",
                    "timestamp outside replay window", "no matching signature"}
      BY <2>2, <3>1, StripeDecides
    <3> QED BY <2>1, <2>2, <3>2, ReasonOfError
  <2>3. CASE route.provider # "stripe"
    <3>1. /\ ~Stale
          /\ outcome \in {"missing X-Hub-Signature-256 header",
                 "missing X-Shopify-Hmac-SHA256 header",
                 "missing PayPal signature headers"} <=> request.form = "absent"
          /\ outcome = "signature mismatch" => ~Authentic
          /\ outcome = "unsupported paypal-auth-algo" => request.algo # "SHA256withRSA"
          /\ outcome \in CertErrors => request.cert \in CertErrors
          /\ outcome \in CertErrors \cup {"accepted", "missing X-Hub-Signature-256 header",
                 "missing X-Shopify-Hmac-SHA256 header", "missing PayPal signature headers",
                 "malformed X-Hub-Signature-256 header", "invalid signature encoding",
                 "invalid paypal-transmission-sig encoding", "signature mismatch",
                 "unsupported paypal-auth-algo", "paypal cert: not an RSA key"}
      BY <2>1, <2>3, OthersDecide
    <3> QED BY <2>1, <2>3, <3>1, ReasonOfError DEF CertErrors
  <2> QED BY <2>2, <2>3
<1> QED BY <1>1, DecisionInvHolds, PTL

-----------------------------------------------------------------------------
\* The certificate cache.

CacheTypeOK ==
    /\ time \in Nat
    /\ serves \in [Urls -> Certs]
    /\ certs \in [Urls -> [cert : Certs \cup {NoCert}, fetchedAt : Nat, served : Nat]]
    /\ wpc \in [Webhooks -> {"idle", "fetch", "answered", "set", "used", "rejected"}]
    /\ certURL \in [Webhooks -> Urls]
    /\ sentAt \in [Webhooks -> Nat]
    /\ cert \in [Webhooks -> Certs \cup {NoCert}]
    /\ servedAt \in [Webhooks -> Nat]
    /\ usedAt \in [Webhooks -> Nat]

EntriesOK ==
    \A u \in Urls : certs[u].cert # NoCert =>
        /\ u \in TrustedUrls
        /\ certs[u].cert \in ChainedCerts
        /\ certs[u].fetchedAt <= certs[u].served + FetchTimeout

InFlightOK ==
    \A w \in Webhooks :
        /\ wpc[w] \in {"fetch", "answered", "set"} =>
              /\ certURL[w] \in TrustedUrls
              /\ sentAt[w] <= time
              /\ time <= sentAt[w] + FetchTimeout
        /\ wpc[w] \in {"answered", "set"} => sentAt[w] <= servedAt[w]
        /\ wpc[w] = "set" => cert[w] \in ChainedCerts

CacheInv ==
    /\ CacheTypeOK
    /\ EntriesOK
    /\ InFlightOK
    /\ UsedCertIsTrusted
    /\ UsedCertIsRecent

-----------------------------------------------------------------------------
LEMMA CacheInvInit == CacheInit => CacheInv
BY CertCacheAssumption
DEF CacheInit, CacheInv, CacheTypeOK, EntriesOK, InFlightOK, UsedCertIsTrusted,
    UsedCertIsRecent, NoEntry

\* The steps that move one webhook and leave the cache and the clock alone.
LEMMA FetchStep ==
    ASSUME CacheInv, NEW w \in Webhooks,
           GetMiss(w) \/ Answer(w) \/ Receive(w) \/ FetchFails(w)
    PROVE  CacheInv'
<1> USE CertCacheAssumption DEF CacheInv
<1>1. CacheTypeOK'
  BY DEF CacheTypeOK, GetMiss, Answer, Receive, FetchFails
<1>2. EntriesOK'
  BY DEF EntriesOK, GetMiss, Answer, Receive, FetchFails
<1>3. InFlightOK'
  <2>1. CASE GetMiss(w)
    BY <2>1 DEF GetMiss, InFlightOK, CacheTypeOK
  <2>2. CASE Answer(w)
    BY <2>2 DEF Answer, InFlightOK, CacheTypeOK
  <2>3. CASE Receive(w)
    BY <2>3 DEF Receive, InFlightOK, CacheTypeOK
  <2>4. CASE FetchFails(w)
    BY <2>4 DEF FetchFails, Fetching, InFlightOK, CacheTypeOK
  <2> QED BY <2>1, <2>2, <2>3, <2>4
<1>4. UsedCertIsTrusted' /\ UsedCertIsRecent'
  BY DEF UsedCertIsTrusted, UsedCertIsRecent, CacheTypeOK, GetMiss, Answer,
         Receive, FetchFails, Fetching
<1> QED BY <1>1, <1>2, <1>3, <1>4

\* A hit takes what the cache holds, at most CertTTL after it was set.
LEMMA HitStep == ASSUME CacheInv, NEW w \in Webhooks, GetHit(w) PROVE CacheInv'
<1> USE CertCacheAssumption DEF CacheInv, GetHit
<1> DEFINE entry == certs[certURL[w]]
<1>1. /\ certURL[w] \in TrustedUrls
      /\ entry.cert \in ChainedCerts
      /\ time <= entry.served + CertTTL + FetchTimeout
  BY DEF IsFresh, EntriesOK, CacheTypeOK
<1>2. CacheTypeOK'
  BY DEF CacheTypeOK
<1>3. EntriesOK' /\ InFlightOK'
  BY DEF EntriesOK, InFlightOK, CacheTypeOK
<1>4. UsedCertIsTrusted' /\ UsedCertIsRecent'
  BY <1>1 DEF UsedCertIsTrusted, UsedCertIsRecent, CacheTypeOK
<1> QED BY <1>2, <1>3, <1>4

\* set stores and returns what arrived within FetchTimeout of being served.
LEMMA SetStep == ASSUME CacheInv, NEW w \in Webhooks, SetCert(w) PROVE CacheInv'
<1> USE CertCacheAssumption DEF CacheInv, SetCert
<1>1. /\ certURL[w] \in TrustedUrls
      /\ cert[w] \in ChainedCerts
      /\ time <= servedAt[w] + FetchTimeout
  BY DEF InFlightOK, CacheTypeOK
<1>2. CacheTypeOK'
  BY DEF CacheTypeOK
<1>3. EntriesOK'
  BY <1>1 DEF EntriesOK, CacheTypeOK
<1>4. InFlightOK'
  BY DEF InFlightOK, CacheTypeOK
<1>5. UsedCertIsTrusted' /\ UsedCertIsRecent'
  BY <1>1 DEF UsedCertIsTrusted, UsedCertIsRecent, CacheTypeOK
<1> QED BY <1>2, <1>3, <1>4, <1>5

\* No fetch outlives its timeout, and nothing happens between Receive and set.
LEMMA TimeStep == ASSUME CacheInv, TimePasses PROVE CacheInv'
<1> USE CertCacheAssumption DEF CacheInv, TimePasses
<1>1. CacheTypeOK' /\ EntriesOK'
  BY DEF CacheTypeOK, EntriesOK
<1>2. InFlightOK'
  BY DEF InFlightOK, Fetching, CacheTypeOK
<1>3. UsedCertIsTrusted' /\ UsedCertIsRecent'
  BY DEF UsedCertIsTrusted, UsedCertIsRecent
<1> QED BY <1>1, <1>2, <1>3

LEMMA CacheInvStep == CacheInv /\ [CacheNext]_cacheVars => CacheInv'
<1> SUFFICES ASSUME CacheInv, [CacheNext]_cacheVars PROVE CacheInv'
  OBVIOUS
<1>1. CASE TimePasses
  BY <1>1, TimeStep
<1>2. ASSUME NEW u \in Urls, Rotate(u) PROVE CacheInv'
  BY <1>2 DEF Rotate, CacheInv, CacheTypeOK, EntriesOK, InFlightOK,
              UsedCertIsTrusted, UsedCertIsRecent
<1>3. ASSUME NEW w \in Webhooks, GetHit(w) PROVE CacheInv'
  BY <1>3, HitStep
<1>4. ASSUME NEW w \in Webhooks, GetMiss(w) \/ Answer(w) \/ Receive(w) \/ FetchFails(w)
      PROVE  CacheInv'
  BY <1>4, FetchStep
<1>5. ASSUME NEW w \in Webhooks, SetCert(w) PROVE CacheInv'
  BY <1>5, SetStep
<1>6. CASE UNCHANGED cacheVars
  BY <1>6 DEF cacheVars, CacheInv, CacheTypeOK, EntriesOK, InFlightOK,
              UsedCertIsTrusted, UsedCertIsRecent
<1> QED BY <1>1, <1>2, <1>3, <1>4, <1>5, <1>6 DEF CacheNext

LEMMA CacheInvHolds == CacheSpec => []CacheInv
BY CacheInvInit, CacheInvStep, PTL DEF CacheSpec

-----------------------------------------------------------------------------
(* For any number of concurrent webhooks: each is verified only with a     *)
(* certificate of a trusted URL whose chain was checked, also when it came *)
(* out of the cache another webhook filled (paypal.go, cert).              *)
THEOREM UsedCertIsTrustedHolds == CacheSpec => []UsedCertIsTrusted
<1>1. CacheInv => UsedCertIsTrusted
  BY DEF CacheInv
<1> QED BY <1>1, CacheInvHolds, PTL

(* Whatever the TTL and the timeout are and however fetches overtake each  *)
(* other, a certificate is used at most their sum after PayPal served it.  *)
THEOREM UsedCertIsRecentHolds == CacheSpec => []UsedCertIsRecent
<1>1. CacheInv => UsedCertIsRecent
  BY DEF CacheInv
<1> QED BY <1>1, CacheInvHolds, PTL
=============================================================================
