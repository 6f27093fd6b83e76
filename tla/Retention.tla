----------------------------- MODULE Retention ------------------------------
(***************************************************************************)
(* The retention job (src/web/internal/retention/retention.go) and the     *)
(* setting it reads (src/web/internal/store/settings.go), which any user   *)
(* may change at any time (handleRetentionChange in                        *)
(* src/web/internal/server/handlers_settings.go).                          *)
(*                                                                         *)
(* A sweep takes the time, then reads the setting, then deletes; each is a *)
(* step.  The first sweep is at start-up and the next ones follow a        *)
(* ticker, whose interval is left open: a sweep may begin whenever none is *)
(* under way.                                                              *)
(*                                                                         *)
(* A number of days is multiplied into a time.Duration, a signed 64-bit    *)
(* count of nanoseconds; DurationRange hours stand for its 2^64 values.    *)
(*                                                                         *)
(* inForce is history.                                                     *)
(***************************************************************************)
EXTENDS EventTable

CONSTANTS
    DayHours,       \* hours of a day (24)
    DefaultDays,    \* DefaultRetentionDays (30)
    DayForms,       \* the numbers that may be submitted
    MaxChanges,     \* bound on changes of the setting
    DurationRange,  \* hours a Duration spans before it wraps
    Unset           \* the setting has no row

ASSUME RetentionAssumption ==
    /\ DayHours \in Nat \ {0}
    /\ DefaultDays \in Nat \ {0}
    /\ DayForms \subseteq Int
    /\ MaxChanges \in Nat
    /\ DurationRange \in Nat
    /\ DurationRange % 2 = 0
    /\ Unset \notin Int

VARIABLES
    days,       \* settings.retention_days
    changes,    \* changes of it so far
    spc,        \* where run is: "wait", "read", "delete"
    sweepNow,   \* the sweep's now
    sweepDays,  \* the days it read
    inForce     \* GetRetentionDays at some time since the sweep's now

retentionVars == <<days, changes, spc, sweepNow, sweepDays, inForce>>

RetentionInit ==
    /\ days = Unset
    /\ changes = 0
    /\ spc = "wait"
    /\ sweepNow = 0
    /\ sweepDays = 0
    /\ inForce = {}

\* An unparsable value would be the default too, but nothing writes one.
GetRetentionDays(d) == IF d = Unset THEN DefaultDays ELSE d

-----------------------------------------------------------------------------
\* handleRetentionChange refuses what is not a positive number.
HandleRetentionChange(d) ==
    /\ changes < MaxChanges
    /\ d >= 1
    /\ days' = d
    /\ changes' = changes + 1
    /\ inForce' = IF spc = "wait" THEN {} ELSE inForce \cup {d}
    /\ UNCHANGED <<spc, sweepNow, sweepDays>>

\* Mutant: only at start-up.
BeginSweepAtStartup ==
    /\ spc = "wait"
    /\ clock = 0
    /\ spc' = "read"
    /\ sweepNow' = clock
    /\ inForce' = {GetRetentionDays(days)}
    /\ UNCHANGED <<days, changes, sweepDays>>

\* run calls Sweep(j.st, j.now()), at start-up or on a tick.
BeginSweep ==
    /\ spc = "wait"
    /\ spc' = "read"
    /\ sweepNow' = clock
    /\ inForce' = {GetRetentionDays(days)}
    /\ UNCHANGED <<days, changes, sweepDays>>

\* Mutant: the days were read when the job was constructed.
ReadRetentionDaysCached ==
    /\ spc = "read"
    /\ spc' = "delete"
    /\ sweepDays' = GetRetentionDays(Unset)
    /\ UNCHANGED <<days, changes, sweepNow, inForce>>

ReadRetentionDays ==
    /\ spc = "read"
    /\ spc' = "delete"
    /\ sweepDays' = GetRetentionDays(days)
    /\ UNCHANGED <<days, changes, sweepNow, inForce>>

SweepEnds ==
    /\ spc' = "wait"
    /\ sweepNow' = 0
    /\ sweepDays' = 0
    /\ inForce' = {}
    /\ UNCHANGED <<days, changes>>

\* What a Duration holds of a number of hours.
Duration(h) ==
    ((h + DurationRange \div 2) % DurationRange) - DurationRange \div 2

\* now.Add(-time.Duration(days) * 24 * time.Hour)
Cutoff(now, d) == now + Duration(-(d * DayHours))

PruneEvents ==
    /\ spc = "delete"
    /\ DeleteEventsOlderThan(Cutoff(sweepNow, sweepDays))
    /\ SweepEnds

\* GetRetentionDays or the delete fails: logged, until the next tick.
SweepFails ==
    /\ spc \in {"read", "delete"}
    /\ Fault
    /\ SweepEnds
    /\ UNCHANGED <<clock, arrived, idOf, batch, rolled, highest, reused, deleted>>

-----------------------------------------------------------------------------
(* Properties *)

Expired(e, now, d) == ReceivedAt[e] < now - d * DayHours

Pruned(e) == idOf[e] # 0 /\ idOf'[e] = 0

RepresentableDays(d) == d * DayHours <= DurationRange \div 2

\* A row is deleted only when it is older, at the sweep's now, than a number
\* of days that was in force while the sweep ran (retention.go:82-97).
PrunesOnlyExpired ==
    \A e \in Events : Pruned(e) =>
        \E d \in inForce : Expired(e, sweepNow, d)

\* The same, for settings a time.Duration can hold.
PrunesOnlyExpiredInRange ==
    (\A d \in inForce : RepresentableDays(d)) => PrunesOnlyExpired
=============================================================================
