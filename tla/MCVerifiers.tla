---------------------------- MODULE MCVerifiers ----------------------------
(***************************************************************************)
(* Bounded instances of the two halves of verification: one request        *)
(* decided by its verifier (Verifiers), and PayPal requests that share the *)
(* certificate cache (PayPalCertCache).  The run visits them one after the *)
(* other: from an initial state one half moves and the other is at an end. *)
(*                                                                         *)
(* Verifiers has an 8-bit Duration of 10 ticks a second (so about 12       *)
(* seconds each way, where 64 bits of nanoseconds reach 292 years) and     *)
(* 7-bit unix seconds.                                                     *)
(***************************************************************************)
EXTENDS Verifiers, PayPalCertCache, FiniteSetsExt, TLC

CONSTANTS Timestamps, MaxParts, w1, w2, w3, u1, u2, c1, c2, c3

\* Within a window's length of the clock on either side, beyond it, and at the edge of a Duration.
NearTimestamps == {1, 2, 8, 9, 17}

\* The whole range: saturating past and future, and wrapping seconds.
FarTimestamps == {-64, 1, 5, 17, 18, 43, 44, 63}

TheKey == "k1"
Body == "b1"

MCRoutes ==
    {[provider |-> p, secret |-> s, webhook |-> w, window |-> win, windowText |-> t] :
        p \in {"stripe"}, s \in {"", TheKey}, w \in {""}, win \in {30}, t \in {"duration", "unparsable"}}
    \cup {[provider |-> "stripe", secret |-> TheKey, webhook |-> "", window |-> 0, windowText |-> "unset"]}
    \cup {[provider |-> p, secret |-> s, webhook |-> w, window |-> 0, windowText |-> "unset"] :
        p \in {"github", "shopify", "paypal", "unknown"}, s \in {"", TheKey}, w \in {"", "wh1"}}

\* Signatures over m: genuine, by another key, over another body, undecodable.
Signatures(m(_)) == {<<TheKey, m(Body)>>, <<"k2", m(Body)>>, <<TheKey, m("b2")>>, <<"undecodable", m("b2")>>,
                     <<"", m(Body)>>}

NoSig == <<"undecodable", <<0, Body>>>>

StripeParts ==
    {[k |-> "t", ts |-> t, sig |-> NoSig] : t \in Timestamps \cup {NotANumber, NoTimestamp}}
    \cup {[k |-> "v1", ts |-> 0, sig |-> s] :
            s \in UNION {Signatures(LAMBDA b : <<t, b>>) : t \in Timestamps}}
    \cup {[k |-> "v0", ts |-> 0, sig |-> NoSig]}

StripeHeaders == UNION {[1..n -> StripeParts] : n \in 0..MaxParts}

MCInputs(r) ==
    CASE r.provider = "stripe" -> {[body |-> Body, header |-> h] : h \in StripeHeaders}
      [] r.provider = "paypal" ->
            {[body |-> Body, form |-> f, algo |-> a, cert |-> c, transmission |-> "tx1", sig |-> s] :
                f \in {"absent", "present"}, a \in {"SHA256withRSA", "MD5withRSA"},
                c \in CertErrors \cup {"not RSA", TheKey},
                s \in Signatures(LAMBDA b : <<"tx1", "wh1", b>>)}
      [] OTHER ->
            {[body |-> Body, form |-> f, sig |-> s] :
                f \in {"absent", "no prefix", "present"} \ (IF r.provider = "shopify" THEN {"no prefix"} ELSE {}),
                s \in Signatures(LAMBDA b : b)}

-----------------------------------------------------------------------------
\* u2 is a host that is not PayPal's, c3 a certificate that does not chain.
ThreeWebhooks == {w1, w2, w3}
TwoUrls == {u1, u2}
OneTrusted == {u1}
ThreeCerts == {c1, c2, c3}
TwoChained == {c1, c2}
WebhookSymmetry == Permutations(ThreeWebhooks)

CacheAtEnd ==
    /\ time = MaxTime
    /\ serves = [u \in Urls |-> c1]
    /\ rotations = MaxRotations
    /\ certs = [u \in Urls |-> NoEntry]
    /\ wpc = [w \in Webhooks |-> "rejected"]
    /\ certURL = [w \in Webhooks |-> u2]
    /\ sentAt = [w \in Webhooks |-> MaxTime]
    /\ cert = [w \in Webhooks |-> NoCert]
    /\ servedAt = [w \in Webhooks |-> 0]
    /\ usedAt = [w \in Webhooks |-> 0]

UnknownProvider == [provider |-> "unknown", secret |-> TheKey, webhook |-> "",
                    window |-> 0, windowText |-> "unset"]

VerifierAtEnd ==
    /\ route = UnknownProvider
    /\ request = [body |-> Body, form |-> "absent", sig |-> NoSig]
    /\ now \in Nows
    /\ outcome = "not served"
    /\ reason = ""

MCInit == (Init /\ CacheAtEnd) \/ (CacheInit /\ VerifierAtEnd)

MCNext == (Next /\ UNCHANGED cacheVars) \/ (CacheNext /\ UNCHANGED vars)

MCSpec == MCInit /\ [][MCNext]_<<vars, cacheVars>>
=============================================================================
