----------------------------- MODULE EventPages -----------------------------
(***************************************************************************)
(* The users of the Console's events table together: batches fill it, the  *)
(* retention job empties it, and Live Logs tabs and Overview visits read   *)
(* it, each in steps that interleave at the statements of the one          *)
(* connection store.Open allows.  The process may be restarted: a fault.   *)
(***************************************************************************)
EXTENDS Retention, LiveLogs, Overview

vars == <<tableVars, retentionVars, tabVars, visitVars>>

Init ==
    /\ EventTableInit
    /\ RetentionInit
    /\ LiveLogsInit
    /\ OverviewInit

\* What was in memory is gone: a batch without its rollups, a sweep, the
\* streams and the visits under way.  The browsers stay.
Restart ==
    /\ Fault
    /\ batch' = {}
    /\ SweepEnds
    /\ tpc' = [t \in Tabs |-> IF tpc[t] = "live" THEN "retrying" ELSE tpc[t]]
    /\ vpc' = [v \in Visits |-> IF UnderWay(v) THEN "failed" ELSE vpc[v]]
    /\ UNCHANGED <<clock, arrived, idOf, rolled, highest, reused, deleted,
                   cursor, shown, buffered, paused, known,
                   kind, window, visitNow, cards, sampled, chart, recent, counted>>

\* What the job's goroutine does next.
SweepStep ==
    \/ BeginSweep /\ UNCHANGED tableVars
    \/ ReadRetentionDays /\ UNCHANGED tableVars
    \/ PruneEvents

ChangeRetention == \E d \in DayForms : HandleRetentionChange(d)

Next ==
    \/ PassTime /\ UNCHANGED <<retentionVars, tabVars, visitVars>>
    \/ Ingest /\ UNCHANGED <<retentionVars, tabVars, visitVars>>
    \/ ChangeRetention /\ UNCHANGED <<tableVars, tabVars, visitVars>>
    \/ (SweepStep \/ SweepFails) /\ UNCHANGED <<tabVars, visitVars>>
    \/ Browse /\ UNCHANGED <<retentionVars, visitVars>>
    \/ Visit /\ UNCHANGED <<retentionVars, tabVars>>
    \/ Restart

Spec == Init /\ [][Next]_vars

\* The job's goroutine keeps ticking, and so does the loop of a stream.
Fairness ==
    /\ WF_vars(SweepStep /\ UNCHANGED <<tabVars, visitVars>>)
    /\ \A t \in Tabs :
        WF_vars(Poll(t) /\ UNCHANGED <<retentionVars, visitVars>>)

FairSpec == Spec /\ Fairness

-----------------------------------------------------------------------------
(* Properties *)

\* VIOLATED.  "a nightly job deletes events older than retention_days"
\* (web/DESIGN.md:748, retention.go:1-3): no sweep deletes a row that no
\* setting in force during it lets go.
RetentionIsKept == [][PrunesOnlyExpired]_vars

\* The same while every setting fits a Duration: a setting that changes under
\* a sweep makes it use the old days or the new ones (retention.go:82-97).
RetentionIsKeptInRange == [][PrunesOnlyExpiredInRange]_vars

\* A row that is older than the setting says goes, or the setting changes,
\* without a restart (retention.go:87-89), also when sweeps fail.
ExpiredArePruned ==
    \A e \in Events :
        (idOf[e] # 0 /\ Expired(e, clock, GetRetentionDays(days)))
            ~> (idOf[e] = 0 \/ ~Expired(e, clock, GetRetentionDays(days)))
=============================================================================
