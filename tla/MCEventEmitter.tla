--------------------------- MODULE MCEventEmitter ---------------------------
(* Small instances of EventEmitter for TLC. *)
EXTENDS EventEmitter

CONSTANTS e1, e2, e3, e4

ThreeEvents == {e1, e2, e3}
FourEvents  == {e1, e2, e3, e4}
=============================================================================
