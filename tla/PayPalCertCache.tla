-------------------------- MODULE PayPalCertCache ---------------------------
(***************************************************************************)
(* How concurrent PayPal webhooks get the certificate they are verified    *)
(* with: PayPalVerifier.cert and paypalCertCache (src/paypal.go).  What    *)
(* Verifiers calls the outcome of the fetch is worked out here.            *)
(*                                                                         *)
(* A URL serves a certificate, which PayPal may replace at any time.  A    *)
(* fetch is a request, an answer PayPal gives at some moment, and its      *)
(* arrival; the http.Client gives up FetchTimeout after the request, body  *)
(* included.  Between the arrival and set there is only computation, which *)
(* takes no time on this clock.                                            *)
(*                                                                         *)
(* servedAt and usedAt, and the served field of a cached certificate, are  *)
(* history.                                                                *)
(***************************************************************************)
EXTENDS Integers, FiniteSets

CONSTANTS
    Webhooks,       \* the requests
    Urls,           \* values of paypal-cert-url
    TrustedUrls,    \* those checkPaypalCertHost lets through
    Certs,          \* what PayPal's hosts may serve
    ChainedCerts,   \* those parsePaypalCertChain accepts
    CertTTL,        \* paypalCertTTL (an hour)
    FetchTimeout,   \* the client's timeout (30 seconds)
    MaxTime,        \* bound on the clock
    MaxRotations,   \* bound on replacements of a served certificate
    NoCert          \* no certificate

ASSUME CertCacheAssumption ==
    /\ TrustedUrls \subseteq Urls
    /\ ChainedCerts \subseteq Certs
    /\ NoCert \notin Certs
    /\ CertTTL \in Nat
    /\ FetchTimeout \in Nat
    /\ MaxTime \in Nat
    /\ MaxRotations \in Nat

VARIABLES
    time,       \* time.Now
    serves,     \* serves[u]: the certificate PayPal serves at u
    rotations,  \* replacements so far
    certs,      \* c.certs: per URL the certificate and when it was set
    wpc,        \* wpc[w]: "idle", "fetch", "answered", "set", "used", "rejected"
    certURL,    \* certURL[w]: the request's header
    sentAt,     \* sentAt[w]: when its fetch began
    cert,       \* cert[w]: the certificate it has
    servedAt,   \* servedAt[w]: when PayPal served that certificate
    usedAt      \* usedAt[w]: when the request got to use it

cacheVars == <<time, serves, rotations, certs, wpc, certURL, sentAt, cert,
               servedAt, usedAt>>

NoEntry == [cert |-> NoCert, fetchedAt |-> 0, served |-> 0]

CacheInit ==
    /\ time = 0
    /\ serves \in [Urls -> Certs]
    /\ rotations = 0
    /\ certs = [u \in Urls |-> NoEntry]
    /\ wpc = [w \in Webhooks |-> "idle"]
    /\ certURL \in [Webhooks -> Urls]
    /\ sentAt = [w \in Webhooks |-> 0]
    /\ cert = [w \in Webhooks |-> NoCert]
    /\ servedAt = [w \in Webhooks |-> 0]
    /\ usedAt = [w \in Webhooks |-> 0]

-----------------------------------------------------------------------------
Fetching(w) == wpc[w] \in {"fetch", "answered"}

\* Time passes; a fetch whose time is up fails before.
TimePasses ==
    /\ time < MaxTime
    /\ \A w \in Webhooks :
        /\ wpc[w] # "set"
        /\ Fetching(w) => time < sentAt[w] + FetchTimeout
    /\ time' = time + 1
    /\ UNCHANGED <<serves, rotations, certs, wpc, certURL, sentAt, cert, servedAt, usedAt>>

\* PayPal replaces the certificate at u.
Rotate(u) ==
    /\ rotations < MaxRotations
    /\ rotations' = rotations + 1
    /\ \E c \in Certs \ {serves[u]} : serves' = [serves EXCEPT ![u] = c]
    /\ UNCHANGED <<time, certs, wpc, certURL, sentAt, cert, servedAt, usedAt>>

\* Mutant: an entry never ages.
IsFreshForever(u) == certs[u].cert # NoCert

\* get finds an entry that is not older than the TTL.
IsFresh(u) ==
    /\ certs[u].cert # NoCert
    /\ time - certs[u].fetchedAt <= CertTTL

GetHit(w) ==
    /\ wpc[w] = "idle"
    /\ IsFresh(certURL[w])
    /\ wpc' = [wpc EXCEPT ![w] = "used"]
    /\ cert' = [cert EXCEPT ![w] = certs[certURL[w]].cert]
    /\ servedAt' = [servedAt EXCEPT ![w] = certs[certURL[w]].served]
    /\ usedAt' = [usedAt EXCEPT ![w] = time]
    /\ UNCHANGED <<time, serves, rotations, certs, certURL, sentAt>>

\* get finds none, and the host is checked before the fetch is sent.
GetMiss(w) ==
    /\ wpc[w] = "idle"
    /\ ~IsFresh(certURL[w])
    /\ wpc' = [wpc EXCEPT ![w] = IF certURL[w] \in TrustedUrls THEN "fetch" ELSE "rejected"]
    /\ sentAt' = [sentAt EXCEPT ![w] = time]
    /\ UNCHANGED <<time, serves, rotations, certs, certURL, cert, servedAt, usedAt>>

\* PayPal answers the fetch with what it serves now.
Answer(w) ==
    /\ wpc[w] = "fetch"
    /\ wpc' = [wpc EXCEPT ![w] = "answered"]
    /\ cert' = [cert EXCEPT ![w] = serves[certURL[w]]]
    /\ servedAt' = [servedAt EXCEPT ![w] = time]
    /\ UNCHANGED <<time, serves, rotations, certs, certURL, sentAt, usedAt>>

\* Mutant: the chain is left to the caller.
ReceiveUnchecked(w) ==
    /\ wpc[w] = "answered"
    /\ wpc' = [wpc EXCEPT ![w] = "set"]
    /\ UNCHANGED <<time, serves, rotations, certs, certURL, sentAt, cert, servedAt, usedAt>>

\* The answer arrives and parsePaypalCertChain decides.
Receive(w) ==
    /\ wpc[w] = "answered"
    /\ wpc' = [wpc EXCEPT ![w] = IF cert[w] \in ChainedCerts THEN "set" ELSE "rejected"]
    /\ UNCHANGED <<time, serves, rotations, certs, certURL, sentAt, cert, servedAt, usedAt>>

\* The client's error, its timeout, or a status other than 200.
FetchFails(w) ==
    /\ Fetching(w)
    /\ wpc' = [wpc EXCEPT ![w] = "rejected"]
    /\ UNCHANGED <<time, serves, rotations, certs, certURL, sentAt, cert, servedAt, usedAt>>

\* set overwrites what a concurrent fetch may have put there; then cert returns.
SetCert(w) ==
    /\ wpc[w] = "set"
    /\ certs' = [certs EXCEPT ![certURL[w]] =
                    [cert |-> cert[w], fetchedAt |-> time, served |-> servedAt[w]]]
    /\ wpc' = [wpc EXCEPT ![w] = "used"]
    /\ usedAt' = [usedAt EXCEPT ![w] = time]
    /\ UNCHANGED <<time, serves, rotations, certURL, sentAt, cert, servedAt>>

CacheNext ==
    \/ TimePasses
    \/ \E u \in Urls : Rotate(u)
    \/ \E w \in Webhooks :
        \/ GetHit(w) \/ GetMiss(w) \/ Answer(w) \/ Receive(w)
        \/ FetchFails(w) \/ SetCert(w)

CacheSpec == CacheInit /\ [][CacheNext]_cacheVars

-----------------------------------------------------------------------------
(* Properties *)

\* A webhook is only ever verified with a certificate of a trusted URL whose
\* chain was checked, also when another webhook fetched it (paypal.go:106-140).
UsedCertIsTrusted ==
    \A w \in Webhooks : wpc[w] = "used" =>
        /\ certURL[w] \in TrustedUrls
        /\ cert[w] \in ChainedCerts

\* However fetches overtake each other, the certificate a webhook is verified
\* with was served by PayPal at most the TTL and one fetch earlier.  So a
\* replaced certificate, or one that has expired since its chain was checked,
\* is out of use that soon (paypal.go:213-227).
UsedCertIsRecent ==
    \A w \in Webhooks : wpc[w] = "used" =>
        usedAt[w] <= servedAt[w] + CertTTL + FetchTimeout
=============================================================================
