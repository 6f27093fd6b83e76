------------------------- MODULE MCGatewayTelemetry -------------------------
(* A small instance of GatewayTelemetry for TLC. *)
EXTENDS GatewayTelemetry

CONSTANTS d1, stripe, b1, b2

OneDelivery == {d1}
OneProvider == {stripe}
TwoBodies == {b1, b2}
=============================================================================
