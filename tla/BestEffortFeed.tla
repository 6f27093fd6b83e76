--------------------------- MODULE BestEffortFeed ---------------------------
(***************************************************************************)
(* What HookGuard promises of its two drop-oldest channels: the gateway's  *)
(* event emitter (src/events.go) and the Console's ingest batcher          *)
(* (src/web/internal/ingest/batcher.go).  Items wait in a bounded queue;   *)
(* the consumer takes them one at a time in the order they were accepted;  *)
(* an item can be lost, but only the oldest waiting one, or a new one that *)
(* finds the queue full, or all waiting ones when the process that holds   *)
(* the queue is restarted; no item is ever taken twice or invented.        *)
(*                                                                         *)
(* This is the abstract specification; EventEmitter and IngestBatcher      *)
(* implement it.                                                           *)
(***************************************************************************)
EXTENDS Naturals, Sequences, Functions

CONSTANTS
    Items,      \* what can be offered to the feed, each at most once
    Capacity,   \* how many items can wait
    CanRestart  \* whether the queue can be emptied by a restart

VARIABLES
    waiting,    \* items accepted and not yet taken, oldest first
    taken,      \* items the consumer received, in order
    lost        \* items that will never be taken

feedVars == <<waiting, taken, lost>>

\* An item the feed has never seen.
Fresh(x) == x \notin Range(waiting) \cup Range(taken) \cup lost

Init ==
    /\ waiting = <<>>
    /\ taken = <<>>
    /\ lost = {}

Accept(x) ==
    /\ Fresh(x)
    /\ Len(waiting) < Capacity
    /\ waiting' = Append(waiting, x)
    /\ UNCHANGED <<taken, lost>>

\* A new item is given up because the queue has no room for it.
Refuse(x) ==
    /\ Fresh(x)
    /\ Len(waiting) = Capacity
    /\ lost' = lost \cup {x}
    /\ UNCHANGED <<waiting, taken>>

\* The oldest waiting item makes room for a newer one.
DropOldest ==
    /\ waiting # <<>>
    /\ lost' = lost \cup {Head(waiting)}
    /\ waiting' = Tail(waiting)
    /\ UNCHANGED taken

Take ==
    /\ waiting # <<>>
    /\ taken' = Append(taken, Head(waiting))
    /\ waiting' = Tail(waiting)
    /\ UNCHANGED lost

\* The process holding the queue is restarted.
Restart ==
    /\ CanRestart
    /\ waiting # <<>>
    /\ lost' = lost \cup Range(waiting)
    /\ waiting' = <<>>
    /\ UNCHANGED taken

Next ==
    \/ \E x \in Items : Accept(x) \/ Refuse(x)
    \/ DropOldest
    \/ Take
    \/ Restart

Spec == Init /\ [][Next]_feedVars
=============================================================================
