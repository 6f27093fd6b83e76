----------------------------- MODULE EventTable -----------------------------
(***************************************************************************)
(* The Console's tables events and event_rollups and the batches that fill *)
(* them (src/web/internal/store/events.go), as the pages and the retention *)
(* job see them.  IngestBatcher models how a batch comes to be; here only  *)
(* its transactions count.                                                 *)
(*                                                                         *)
(* Events are numbered in the order InsertEvents gets them.  The number is *)
(* not events.id: that column is an INTEGER PRIMARY KEY without            *)
(* AUTOINCREMENT, so SQLite gives a new row the largest id in the table    *)
(* plus one, and an id is given again once its row has been deleted.       *)
(*                                                                         *)
(* highest, reused and deleted are history.                                *)
(***************************************************************************)
EXTENDS Integers, FiniteSets, FiniteSetsExt

CONSTANTS
    NEvents,        \* how many events are ingested
    ReceivedAt,     \* ReceivedAt[e]: the gateway's timestamp, an hour
    Rejected,       \* the events whose verdict is "rejected"
    MaxBatch,       \* bound on the events of a batch
    MaxClock,       \* bound on the Console's clock
    MaxFaults       \* bound on failing statements

Events == 1..NEvents

ASSUME EventTableAssumption ==
    /\ NEvents \in Nat
    /\ ReceivedAt \in [Events -> Int]
    /\ Rejected \subseteq Events
    /\ MaxBatch \in Nat \ {0}
    /\ MaxClock \in Nat
    /\ MaxFaults \in Nat

VARIABLES
    clock,      \* the Console's clock, in hours
    arrived,    \* events 1..arrived have been handed to InsertEvents
    idOf,       \* idOf[e]: events.id of e's row, 0 if there is none
    batch,      \* the batch whose rollups are still to be written
    rolled,     \* the events counted in event_rollups
    faults,     \* failed statements so far
    highest,    \* the largest id ever given
    reused,     \* the events whose id had been given to an earlier row
    deleted     \* the events whose row was deleted

tableVars == <<clock, arrived, idOf, batch, rolled, faults, highest, reused, deleted>>

Rows == {e \in Events : idOf[e] # 0}

LatestID(ids) == Max({0} \cup {ids[e] : e \in Events})

\* store.LatestEventID.
LatestEventID == LatestID(idOf)

EventTableInit ==
    /\ clock = 0
    /\ arrived = 0
    /\ idOf = [e \in Events |-> 0]
    /\ batch = {}
    /\ rolled = {}
    /\ faults = 0
    /\ highest = 0
    /\ reused = {}
    /\ deleted = {}

PassTime ==
    /\ clock < MaxClock
    /\ clock' = clock + 1
    /\ UNCHANGED <<arrived, idOf, batch, rolled, faults, highest, reused, deleted>>

Fault ==
    /\ faults < MaxFaults
    /\ faults' = faults + 1

\* The next n events are a batch.
NextBatch(n) == {e \in Events : arrived < e /\ e <= arrived + n}

\* InsertEvents commits the batch.
InsertEvents(n) ==
    /\ batch = {}
    /\ arrived + n <= NEvents
    /\ arrived' = arrived + n
    /\ batch' = NextBatch(n)
    /\ idOf' = [e \in Events |-> IF e \in NextBatch(n)
                                 THEN LatestEventID + (e - arrived)
                                 ELSE idOf[e]]
    /\ reused' = reused \cup {e \in NextBatch(n) : idOf'[e] <= highest}
    /\ highest' = Max({highest, LatestID(idOf')})
    /\ UNCHANGED <<clock, rolled, faults, deleted>>

\* InsertEvents fails: the batch is dropped, and so are its rollups.
InsertEventsFails(n) ==
    /\ batch = {}
    /\ arrived + n <= NEvents
    /\ Fault
    /\ arrived' = arrived + n
    /\ UNCHANGED <<clock, idOf, batch, rolled, highest, reused, deleted>>

UpsertRollups ==
    /\ batch # {}
    /\ rolled' = rolled \cup batch
    /\ batch' = {}
    /\ UNCHANGED <<clock, arrived, idOf, faults, highest, reused, deleted>>

\* UpsertRollups fails: the rows stay uncounted.
UpsertRollupsFails ==
    /\ batch # {}
    /\ Fault
    /\ batch' = {}
    /\ UNCHANGED <<clock, arrived, idOf, rolled, highest, reused, deleted>>

\* store.DeleteEventsOlderThan, one statement.
DeleteEventsOlderThan(cutoff) ==
    LET old == {e \in Rows : ReceivedAt[e] < cutoff}
    IN  /\ idOf' = [e \in Events |-> IF e \in old THEN 0 ELSE idOf[e]]
        /\ deleted' = deleted \cup old
        /\ UNCHANGED <<clock, arrived, batch, rolled, faults, highest, reused>>

Ingest ==
    \/ \E n \in 1..MaxBatch : InsertEvents(n) \/ InsertEventsFails(n)
    \/ UpsertRollups
    \/ UpsertRollupsFails
=============================================================================
