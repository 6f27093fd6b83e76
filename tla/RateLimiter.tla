----------------------------- MODULE RateLimiter ----------------------------
(***************************************************************************)
(* Limiter (src/web/internal/auth/ratelimit.go) for one key: the hits      *)
(* login and signup count (LoginLimiter and SignupLimiter in server.go).   *)
(*                                                                         *)
(* A handler reads the time before Allow takes the lock, so calls may get  *)
(* the lock in another order than they read the time in.                   *)
(*                                                                         *)
(* order, overtaken and admissions are history.                            *)
(***************************************************************************)
EXTENDS OrderedSeqs

CONSTANTS
    Attempts,       \* calls of Allow
    MaxHits,        \* max (10 and 5)
    HitWindow,      \* window (15 minutes and an hour)
    LastTick        \* bound on the clock

ASSUME LimiterAssumption ==
    /\ IsFiniteSet(Attempts)
    /\ MaxHits \in Nat \ {0}
    /\ HitWindow \in Nat \ {0}
    /\ LastTick \in Nat

VARIABLES
    tick,       \* the clock
    apc,        \* apc[a]: "idle", "stamped", "allowed", "denied"
    stamp,      \* stamp[a]: the now its handler read
    retryAt,    \* retryAt[a]: now + retryAfter of a denied call
    hits,       \* l.hits[key]
    overtaken,  \* calls that got the lock after one with a later now
    admissions  \* admissions[a]: calls allowed before a denied one

limiterVars == <<tick, apc, stamp, retryAt, hits, overtaken, admissions>>

LimiterInit ==
    /\ tick = 0
    /\ apc = [a \in Attempts |-> "idle"]
    /\ stamp = [a \in Attempts |-> 0]
    /\ retryAt = [a \in Attempts |-> 0]
    /\ hits = <<>>
    /\ overtaken = {}
    /\ admissions = [a \in Attempts |-> 0]

Allowed == {a \in Attempts : apc[a] = "allowed"}
Decided == {a \in Attempts : apc[a] \in {"allowed", "denied"}}

-----------------------------------------------------------------------------
ClockTicks ==
    /\ tick < LastTick
    /\ tick' = tick + 1
    /\ UNCHANGED <<apc, stamp, retryAt, hits, overtaken, admissions>>

\* The handler evaluates s.Now().
ReadNow(a) ==
    /\ apc[a] = "idle"
    /\ apc' = [apc EXCEPT ![a] = "stamped"]
    /\ stamp' = [stamp EXCEPT ![a] = tick]
    /\ UNCHANGED <<tick, retryAt, hits, overtaken, admissions>>

\* Mutant: a hit exactly a window old still counts.
KeptInclusive(now) == Filter(hits, {t \in Int : t >= now - HitWindow})

\* The hits of the window that ends now.
Kept(now) == Filter(hits, {t \in Int : t > now - HitWindow})

\* Mutant: one more than max gets through.
IsFullLate(kept) == Len(kept) > MaxHits

IsFull(kept) == Len(kept) >= MaxHits

Overtake(a) ==
    overtaken' = IF \E d \in Decided : stamp[d] > stamp[a]
                 THEN overtaken \cup {a} ELSE overtaken

\* Allow, under its lock.
Allow(a) ==
    /\ apc[a] = "stamped"
    /\ ~IsFull(Kept(stamp[a]))
    /\ apc' = [apc EXCEPT ![a] = "allowed"]
    /\ hits' = Append(Kept(stamp[a]), stamp[a])
    /\ Overtake(a)
    /\ UNCHANGED <<tick, stamp, retryAt, admissions>>

\* A denied call is no hit.
Deny(a) ==
    /\ apc[a] = "stamped"
    /\ IsFull(Kept(stamp[a]))
    /\ apc' = [apc EXCEPT ![a] = "denied"]
    /\ hits' = Kept(stamp[a])
    /\ retryAt' = [retryAt EXCEPT ![a] = Head(hits') + HitWindow]
    /\ admissions' = [admissions EXCEPT ![a] = Cardinality(Allowed)]
    /\ Overtake(a)
    /\ UNCHANGED <<tick, stamp>>

LimiterNext ==
    \/ ClockTicks
    \/ \E a \in Attempts : ReadNow(a) \/ Allow(a) \/ Deny(a)

LimiterSpec == LimiterInit /\ [][LimiterNext]_limiterVars

-----------------------------------------------------------------------------
(* Properties *)

\* No window lets more than max calls through, except that a call that was
\* overtaken on its way to the lock may come on top (ratelimit.go:22-46, called
\* with a time read before the lock in handlers_auth.go:22 and 80).
LimitHolds ==
    \A end \in 0..LastTick :
        Cardinality({a \in Allowed : stamp[a] > end - HitWindow /\ stamp[a] <= end})
            <= MaxHits + Cardinality(overtaken \cap Allowed)

\* A caller that was told to wait and did is let through, unless another
\* call was in between (ratelimit.go:22-24).
RetryAfterSuffices ==
    \A d, a \in Attempts :
        apc[d] = "denied" /\ apc[a] = "denied" /\ admissions[d] = admissions[a]
            => stamp[a] < retryAt[d]
=============================================================================
