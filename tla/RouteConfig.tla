----------------------------- MODULE RouteConfig ----------------------------
(***************************************************************************)
(* When the gateway can serve a route: buildVerifier and the factories the *)
(* providers register (src/verifier.go, stripe.go, github.go, shopify.go,  *)
(* paypal.go).                                                             *)
(***************************************************************************)

HMACProviders == {"stripe", "github", "shopify"}

\* buildVerifier with parseWindow: "ok", or the error that stops the gateway.
BuildVerifier(r) ==
    IF r.provider \notin HMACProviders \cup {"paypal"} THEN "unknown provider"
    ELSE IF r.provider \in HMACProviders /\ r.secret = "" THEN "empty secret"
    ELSE IF r.provider = "stripe" /\ r.windowText = "unparsable" THEN "replay_window"
    ELSE IF r.provider = "paypal" /\ r.webhook = "" THEN "missing webhook_id"
    ELSE "ok"
=============================================================================
