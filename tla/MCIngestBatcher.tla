--------------------------- MODULE MCIngestBatcher ---------------------------
(* Small instances of IngestBatcher for TLC. *)
EXTENDS IngestBatcher

CONSTANTS e1, e2, e3, forged, garbled, f1, b1, b2

Good(at, b) == [readable |-> TRUE, toConsole |-> TRUE, signed |-> TRUE,
                decodes |-> TRUE, at |-> at, bucket |-> b]

FiveEvents  == {e1, e2, e3, forged, garbled}
FiveRequests ==
    [e \in {e1, e2, e3, forged, garbled} |->
        CASE e = e1 -> Good(2, b1)
          [] e = e2 -> Good(1, b1)      \* stamped earlier, may arrive later
          [] e = e3 -> Good(3, b2)
          [] e = forged  -> [Good(3, b1) EXCEPT !.signed = FALSE]
          [] e = garbled -> [Good(3, b2) EXCEPT !.decodes = FALSE]]

SmallTimes   == 1..3
TwoBuckets   == {b1, b2}

-----------------------------------------------------------------------------
(***************************************************************************)
(* All five events, or two of them while Flush and Close are called.  What *)
(* is left out is the start of a handler or of a call, which no fairness   *)
(* condition is about.                                                     *)
(***************************************************************************)
Called == {c \in Callers : call[c] # "idle"}
Sent   == {e \in Events : pc[e] # "idle"}

MCNext == Next /\ (Called' = {} \/ Sent' \subseteq {e1, e2})

MCFairSpec == Init /\ [][MCNext]_vars /\ RunRuns
=============================================================================
