------------------------------ MODULE LiveLogs ------------------------------
(***************************************************************************)
(* The Live Logs page (src/web/internal/server/handlers_logs.go and        *)
(* logs.js): a list of the newest matching rows, and a stream that polls   *)
(* for rows whose id is past a cursor and appends them to the page.        *)
(*                                                                         *)
(* A tab is one browser page.  Its stream's cursor starts at the largest   *)
(* id of the table, not at the list's, and starts there again whenever the *)
(* browser's EventSource reconnects.  A frame is taken to reach the tab    *)
(* when it is written: one lost with its connection is a connection that   *)
(* broke before the poll.                                                  *)
(*                                                                         *)
(* known is history.                                                       *)
(***************************************************************************)
EXTENDS EventTable, OrderedSeqs, SequencesExt

CONSTANTS
    Tabs,           \* the open pages
    Matching,       \* the events the page's filter lets through
    ListLimit,      \* logsListLimit (200)
    StreamLimit     \* logsStreamBatchLimit (500)

ASSUME LiveLogsAssumption ==
    /\ IsFiniteSet(Tabs)
    /\ Matching \subseteq Events
    /\ ListLimit \in Nat \ {0}
    /\ StreamLimit \in Nat \ {0}

VARIABLES
    tpc,        \* tpc[t]: "away" (never opened), "closed", "listed",
                \* "live", "retrying", "dead"
    cursor,     \* cursor[t]: the stream's cursor
    shown,      \* shown[t]: the events of the page's table, top row first
    buffered,   \* buffered[t]: those kept back while the page is paused
    paused,     \* paused[t]: the page's Pause button
    known       \* known[t]: the rows when the stream took its first cursor

tabVars == <<tpc, cursor, shown, buffered, paused, known>>

LiveLogsInit ==
    /\ tpc \in [Tabs -> {"closed", "away"}]
    /\ cursor = [t \in Tabs |-> 0]
    /\ shown = [t \in Tabs |-> <<>>]
    /\ buffered = [t \in Tabs |-> <<>>]
    /\ paused = [t \in Tabs |-> FALSE]
    /\ known = [t \in Tabs |-> {}]

\* The row with an id.
RowWith(id) == CHOOSE e \in Rows : idOf[e] = id

IdsOf(rows) == Ascending({idOf[e] : e \in rows})

\* At most n of the rows, by id.
OldestFirst(rows, n) ==
    [k \in 1..Min({n, Len(IdsOf(rows))}) |-> RowWith(IdsOf(rows)[k])]
NewestFirst(rows, n) ==
    [k \in 1..Min({n, Len(IdsOf(rows))}) |-> RowWith(Reverse(IdsOf(rows))[k])]

\* store.EventsSince.
EventsSince(id) == OldestFirst({e \in Rows : idOf[e] > id}, StreamLimit)

-----------------------------------------------------------------------------
\* handleLogsList: the page is loaded.  Loaded again it is another tab.
HandleLogsList(t) ==
    /\ tpc[t] = "closed"
    /\ tpc' = [tpc EXCEPT ![t] = "listed"]
    /\ shown' = [shown EXCEPT ![t] = NewestFirst(Rows \cap Matching, ListLimit)]
    /\ UNCHANGED <<cursor, buffered, paused, known, tableVars>>

\* handleLogsStream up to its loop.
Connect(t) ==
    /\ tpc[t] \in {"listed", "retrying"}
    /\ tpc' = [tpc EXCEPT ![t] = "live"]
    /\ cursor' = [cursor EXCEPT ![t] = LatestEventID]
    /\ known' = [known EXCEPT ![t] = Rows]
    /\ UNCHANGED <<shown, buffered, paused, tableVars>>

\* LatestEventID fails: a 500, after which an EventSource does not retry.
ConnectFails(t) ==
    /\ tpc[t] \in {"listed", "retrying"}
    /\ Fault
    /\ tpc' = [tpc EXCEPT ![t] = "dead"]
    /\ UNCHANGED <<cursor, shown, buffered, paused, known, clock, arrived, idOf,
                   batch, rolled, highest, reused, deleted>>

\* The page puts a frame's rows on top, newest first, or keeps them back.
Receive(t, events) ==
    LET new == Reverse(Filter(events, Matching))
    IN  IF paused[t]
        THEN /\ buffered' = [buffered EXCEPT ![t] = new \o @]
             /\ UNCHANGED shown
        ELSE /\ shown' = [shown EXCEPT ![t] = new \o @]
             /\ UNCHANGED buffered

\* Mutant: the cursor moves to the end of the table.
PollCursorLatest(t) ==
    /\ tpc[t] = "live"
    /\ \E events \in {EventsSince(cursor[t])} :
        /\ events # <<>>
        /\ Receive(t, events)
        /\ cursor' = [cursor EXCEPT ![t] = LatestEventID]
        /\ UNCHANGED <<tpc, paused, known, tableVars>>

\* Mutant: a frame without a matching row is not written and moves nothing.
PollMatchingOnly(t) ==
    /\ tpc[t] = "live"
    /\ \E events \in {EventsSince(cursor[t])} :
        /\ Filter(events, Matching) # <<>>
        /\ Receive(t, events)
        /\ cursor' = [cursor EXCEPT ![t] = idOf[Last(events)]]
        /\ UNCHANGED <<tpc, paused, known, tableVars>>

\* A tick of the loop; without a new row it does nothing.
Poll(t) ==
    /\ tpc[t] = "live"
    /\ \E events \in {EventsSince(cursor[t])} :
        /\ events # <<>>
        /\ Receive(t, events)
        /\ cursor' = [cursor EXCEPT ![t] = idOf[Last(events)]]
        /\ UNCHANGED <<tpc, paused, known, tableVars>>

\* The connection breaks, or a poll fails: the handler returns and the
\* browser is going to connect again.
Disconnect(t) ==
    /\ tpc[t] = "live"
    /\ tpc' = [tpc EXCEPT ![t] = "retrying"]
    /\ UNCHANGED <<cursor, shown, buffered, paused, known, tableVars>>

Pause(t) ==
    /\ tpc[t] \notin {"closed", "away"}
    /\ ~paused[t]
    /\ paused' = [paused EXCEPT ![t] = TRUE]
    /\ UNCHANGED <<tpc, cursor, shown, buffered, known, tableVars>>

\* Mutant: the rows kept back go to the bottom.
ResumeBelow(t) ==
    /\ paused[t]
    /\ paused' = [paused EXCEPT ![t] = FALSE]
    /\ shown' = [shown EXCEPT ![t] = @ \o buffered[t]]
    /\ buffered' = [buffered EXCEPT ![t] = <<>>]
    /\ UNCHANGED <<tpc, cursor, known, tableVars>>

Resume(t) ==
    /\ paused[t]
    /\ paused' = [paused EXCEPT ![t] = FALSE]
    /\ shown' = [shown EXCEPT ![t] = buffered[t] \o @]
    /\ buffered' = [buffered EXCEPT ![t] = <<>>]
    /\ UNCHANGED <<tpc, cursor, known, tableVars>>

Browse ==
    \E t \in Tabs :
        \/ HandleLogsList(t) \/ Connect(t) \/ ConnectFails(t)
        \/ Poll(t) \/ Disconnect(t) \/ Pause(t) \/ Resume(t)

-----------------------------------------------------------------------------
(* Properties *)

OnPage(t) == buffered[t] \o shown[t]

\* A page shows an event at most once and a later ingested event above an
\* earlier one, through polls, reconnects, pauses and reused ids
\* (handlers_logs.go:231-284, logs.js:113-129).
PageIsInOrder ==
    \A t \in Tabs : \A i, j \in DOMAIN OnPage(t) :
        i < j => OnPage(t)[i] > OnPage(t)[j]

\* The cursor of a live stream passes no row that came after it connected
\* without showing it, unless that row was given the id of a deleted one
\* (handlers_logs.go:269-281; store/events.go:414-418 relies on ids growing).
OnlyReusedIdsAreSkipped ==
    \A t \in Tabs : tpc[t] = "live" =>
        \A e \in (Rows \cap Matching) \ known[t] :
            idOf[e] <= cursor[t] =>
                e \in ToSet(OnPage(t)) \cup reused

\* A live stream gets to every row past its cursor, unless it breaks or the
\* row is deleted first, also past StreamLimit and past rows that the filter
\* holds back (handlers_logs.go:264-282).
StreamCatchesUp ==
    \A t \in Tabs : \A e \in Events :
        (tpc[t] = "live" /\ idOf[e] > cursor[t])
            ~> (tpc[t] # "live" \/ idOf[e] <= cursor[t])
=============================================================================
