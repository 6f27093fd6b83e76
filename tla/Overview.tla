------------------------------ MODULE Overview ------------------------------
(***************************************************************************)
(* The Overview page and its polled stat cards                             *)
(* (src/web/internal/server/handlers_dashboard.go) over the queries of     *)
(* src/web/internal/store/events.go.  Every query is a statement of its    *)
(* own, so batches and sweeps commit between them; the time is taken once, *)
(* before the first.                                                       *)
(*                                                                         *)
(* A visit is one request for the page or for the cards.  counted is       *)
(* history.                                                                *)
(***************************************************************************)
EXTENDS EventTable

CONSTANTS
    Visits,         \* the requests
    WindowHours,    \* the windows a request may ask for (24 and 168)
    RecentLimit     \* rows of "Recent rejections" (10)

ASSUME OverviewAssumption ==
    /\ IsFiniteSet(Visits)
    /\ WindowHours \subseteq Nat \ {0}
    /\ RecentLimit \in Nat

Verdicts == {"accepted", "rejected"}

VARIABLES
    vpc,        \* vpc[v]: the query that is next, or how the visit ended;
                \* a visit that is "away" is never made
    kind,       \* kind[v]: "page" or "cards"
    window,     \* window[v]: hours
    visitNow,   \* visitNow[v]: the handler's now
    cards,      \* cards[v]: events per verdict, of SummaryWindow
    sampled,    \* sampled[v]: the p50 has a sample
    chart,      \* chart[v]: events per hour and verdict
    recent,     \* recent[v]: the rows of RecentRejected
    counted     \* counted[v]: what event_rollups held when the chart was read

visitVars == <<vpc, kind, window, visitNow, cards, sampled, chart, recent, counted>>

OverviewInit ==
    /\ vpc \in [Visits -> {"idle", "away"}]
    /\ kind = [v \in Visits |-> "page"]
    /\ window = [v \in Visits |-> 0]
    /\ visitNow = [v \in Visits |-> 0]
    /\ cards = [v \in Visits |-> <<>>]
    /\ sampled = [v \in Visits |-> FALSE]
    /\ chart = [v \in Visits |-> <<>>]
    /\ recent = [v \in Visits |-> {}]
    /\ counted = [v \in Visits |-> {}]

VerdictOf(e) == IF e \in Rejected THEN "rejected" ELSE "accepted"

\* The sum of event_rollups over hours, for a verdict.
RollupSum(hours, verdict) ==
    Cardinality({e \in rolled : ReceivedAt[e] \in hours /\ VerdictOf(e) = verdict})

\* startHour to nowHour.
Hours(now, w) == now - w + 1 .. now

Go(v, from, to) == vpc[v] = from /\ vpc' = [vpc EXCEPT ![v] = to]

-----------------------------------------------------------------------------
\* handleOverview takes the time and asks HasAnyEvent.
HandleOverview(v, w) ==
    /\ Go(v, "idle", IF Rows = {} THEN "empty" ELSE "cards")
    /\ window' = [window EXCEPT ![v] = w]
    /\ visitNow' = [visitNow EXCEPT ![v] = clock]
    /\ UNCHANGED <<kind, cards, sampled, chart, recent, counted, tableVars>>

\* handleStatsSummary asks for the cards only.
HandleStatsSummary(v, w) ==
    /\ Go(v, "idle", "cards")
    /\ kind' = [kind EXCEPT ![v] = "cards"]
    /\ window' = [window EXCEPT ![v] = w]
    /\ visitNow' = [visitNow EXCEPT ![v] = clock]
    /\ UNCHANGED <<cards, sampled, chart, recent, counted, tableVars>>

\* Mutant: the cards count the window's events by their hours up to any time.
ReadSummaryOpenEnded(v) ==
    /\ Go(v, "cards", "sample")
    /\ cards' = [cards EXCEPT ![v] = [verdict \in Verdicts |->
            RollupSum(visitNow[v] - window[v] + 1 .. MaxClock, verdict)]]
    /\ UNCHANGED <<kind, window, visitNow, sampled, chart, recent, counted, tableVars>>

\* SummaryWindow: the sums of event_rollups.
ReadSummary(v) ==
    /\ Go(v, "cards", "sample")
    /\ cards' = [cards EXCEPT ![v] = [verdict \in Verdicts |->
            RollupSum(Hours(visitNow[v], window[v]), verdict)]]
    /\ UNCHANGED <<kind, window, visitNow, sampled, chart, recent, counted, tableVars>>

\* p50LatencySince has no upper bound.
ReadSample(v) ==
    /\ Go(v, "sample", IF kind[v] = "page" THEN "chart" ELSE "shown")
    /\ sampled' = [sampled EXCEPT ![v] =
            \E e \in Rows : ReceivedAt[e] > visitNow[v] - window[v]]
    /\ UNCHANGED <<kind, window, visitNow, cards, chart, recent, counted, tableVars>>

\* HourlyCountsWindow: every hour of the window, with or without a row.
ReadChart(v) ==
    /\ Go(v, "chart", "recent")
    /\ chart' = [chart EXCEPT ![v] =
            [h \in Hours(visitNow[v], window[v]) |->
                [verdict \in Verdicts |-> RollupSum({h}, verdict)]]]
    /\ counted' = [counted EXCEPT ![v] = rolled]
    /\ UNCHANGED <<kind, window, visitNow, cards, sampled, recent, tableVars>>

\* RecentRejected: the newest by received_at; nothing orders equal times.
ReadRecent(v) ==
    /\ Go(v, "recent", "shown")
    /\ \E newest \in SUBSET (Rows \cap Rejected) :
        /\ Cardinality(newest) = Min({RecentLimit, Cardinality(Rows \cap Rejected)})
        /\ \A e \in newest, d \in (Rows \cap Rejected) \ newest :
               ReceivedAt[d] <= ReceivedAt[e]
        /\ recent' = [recent EXCEPT ![v] = newest]
    /\ UNCHANGED <<kind, window, visitNow, cards, sampled, chart, counted, tableVars>>

UnderWay(v) == vpc[v] \in {"cards", "sample", "chart", "recent"}

\* A query fails: 500.
VisitFails(v) ==
    /\ UnderWay(v)
    /\ Fault
    /\ vpc' = [vpc EXCEPT ![v] = "failed"]
    /\ UNCHANGED <<kind, window, visitNow, cards, sampled, chart, recent, counted,
                   clock, arrived, idOf, batch, rolled, highest, reused, deleted>>

Visit ==
    \E v \in Visits :
        \/ \E w \in WindowHours : HandleOverview(v, w) \/ HandleStatsSummary(v, w)
        \/ ReadSummary(v) \/ ReadSample(v) \/ ReadChart(v) \/ ReadRecent(v)
        \/ VisitFails(v)

-----------------------------------------------------------------------------
(* Properties *)

InWindow(v) == {e \in Events : ReceivedAt[e] \in Hours(visitNow[v], window[v])}

\* The chart's bars of a verdict: a block for every event they count.
Bars(v, verdict) ==
    Cardinality({block \in (DOMAIN chart[v]) \X (1..NEvents) :
                    block[2] <= chart[v][block[1]][verdict]})

\* The chart, read later, shows at least what the cards show.
ChartCoversCards(v) == \A verdict \in Verdicts : cards[v][verdict] <= Bars(v, verdict)

\* A recent rejection of the window is in the chart's bars, unless its
\* rollups were not written when the chart was read.
RecentAreCounted(v) ==
    Cardinality(recent[v] \cap InWindow(v) \cap counted[v]) <= Bars(v, "rejected")

\* The cards count events and the latency has no sample only once rows of
\* the window have been deleted.
CountsHaveSamples(v) ==
    (\E verdict \in Verdicts : cards[v][verdict] > 0) /\ ~sampled[v]
        => deleted \cap InWindow(v) # {}

\* The parts of one page, read by statements of their own while batches and
\* sweeps commit, agree with each other (handlers_dashboard.go:98-146,
\* 186-201; store/events.go:153-327).
OverviewAgrees ==
    \A v \in Visits : vpc[v] = "shown" =>
        /\ CountsHaveSamples(v)
        /\ kind[v] = "page" => ChartCoversCards(v) /\ RecentAreCounted(v)
=============================================================================
