----------------------------- MODULE MCEndpoints ----------------------------
(***************************************************************************)
(* Instances of Endpoints, and of the limiter of logins and signups, for   *)
(* TLC.  The run visits the two one after the other: from an initial state *)
(* one of them moves and the other is at an end.                           *)
(***************************************************************************)
EXTENDS Endpoints, RateLimiter

CONSTANTS r1, r2, r3, a1, a2, a3, a4

ThreeRequests == {r1, r2, r3}
FourAttempts == {a1, a2, a3, a4}

\* "/{" starts with a slash and is no pattern.
MCSlashed == {"/a", "/b", "/{"}
MCPatterns == {"/a", "/b"}
MCTexts == MCSlashed \cup {"", "a", "github", "stripe", "paypal", "other", "up", "S", "W"}
SmallIds == 1..3

GitHub(p) == [path |-> p, provider |-> "github", upstream |-> "up", secret |-> "S",
              webhook |-> "", windowText |-> "unset"]
Stripe(p, w) == [GitHub(p) EXCEPT !.provider = "stripe", !.windowText = w]
PayPal(p) == [GitHub(p) EXCEPT !.provider = "paypal", !.secret = "", !.webhook = "W"]

\* Good ones that meet on a path, and one for each reason to refuse a form.
MCForms ==
    {GitHub("/a"), GitHub("/b"), Stripe("/a", "duration"), Stripe("/b", "unset"),
     [PayPal("/a") EXCEPT !.secret = "S"],      \* the field is dropped
     GitHub("a"), [GitHub("/a") EXCEPT !.upstream = ""],
     [GitHub("/a") EXCEPT !.secret = ""], [PayPal("/b") EXCEPT !.webhook = ""],
     [GitHub("/b") EXCEPT !.provider = "other"], Stripe("/b", "unparsable")}

PathForms == MCForms \cup {GitHub("/{")}

MCSeedFile == <<GitHub("/b"), Stripe("/a", "unset")>>

-----------------------------------------------------------------------------
LimiterAtEnd ==
    /\ tick = LastTick
    /\ apc = [a \in Attempts |-> "denied"]
    /\ stamp = [a \in Attempts |-> 0]
    /\ retryAt = [a \in Attempts |-> HitWindow]
    /\ hits = <<>>
    /\ overtaken = {}
    /\ admissions = [a \in Attempts |-> 0]

EndpointsAtEnd ==
    /\ table = [id \in Ids |-> NoRow]
    /\ rpc = [r \in Requests |-> "done"]
    /\ target = [r \in Requests |-> 0]
    /\ draft = [r \in Requests |-> NoRow]
    /\ seedPC = "failed"
    /\ at = 1
    /\ seeds = MaxSeeds
    /\ failures = 0
    /\ wrote = [id \in Ids |-> NoRow]
    /\ flagged = [id \in Ids |-> FALSE]
    /\ covered = {}

MCInit == (Init /\ LimiterAtEnd) \/ (LimiterInit /\ EndpointsAtEnd)

MCNext == (Next /\ UNCHANGED limiterVars) \/ (LimiterNext /\ UNCHANGED vars)

MCSpec == MCInit /\ [][MCNext]_<<vars, limiterVars>>
=============================================================================
