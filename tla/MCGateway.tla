----------------------------- MODULE MCGateway -----------------------------
(* A small instance of Gateway for TLC. *)
EXTENDS Gateway, TLC

CONSTANTS d1, stripe, github, b1, b2

OneDelivery == {d1}
TwoProviders == {stripe, github}
TwoBodies == {b1, b2}
GatewaySymmetry == Permutations(TwoProviders) \cup Permutations(TwoBodies)
=============================================================================
