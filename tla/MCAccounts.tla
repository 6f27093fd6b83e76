----------------------------- MODULE MCAccounts -----------------------------
(* Instances of Accounts for TLC. *)
EXTENDS Accounts, TLC

CONSTANTS r1, r2, r3, adminTab, memberTab, ann, bob, old, fresh

ThreeRequests == {r1, r2, r3}
MCSeeds == {adminTab, memberTab}
MCEmails == {ann, bob}
MCPasswords == {old, fresh}

Row(t, u) == [token |-> t, user |-> u, lastSeen |-> 0, expires |-> AbsoluteTimeout]

FreshInstall == [users |-> <<>>, sessions |-> [i \in SessionIds |-> None]]

\* ann signed up and invited bob, and both have just logged in.
TwoUsers ==
    [users |-> <<[email |-> ann, pw |-> old, role |-> "admin", active |-> TRUE],
                 [email |-> bob, pw |-> old, role |-> "member", active |-> TRUE]>>,
     sessions |-> [i \in SessionIds |-> CASE i = 1 -> Row(adminTab, 1)
                                          [] i = 2 -> Row(memberTab, 2)
                                          [] OTHER -> None]]

\* The same after ann has logged out.
OneSession == [TwoUsers EXCEPT !.sessions[1] = None]

AllDatabases == {FreshInstall, TwoUsers, OneSession}
RunningDatabase == {TwoUsers}

\* A form with every field that its handler does not read at a fixed value.
Blank(op) ==
    [op |-> op, cookie |-> None, csrf |-> TRUE, valid |-> TRUE, email |-> ann,
     pw |-> old, new |-> fresh, role |-> "member", id |-> 1, tok |-> 1]

\* Everything, for two requests: what the browsers of ann and bob, a forged form
\* and the bearer of a reset link may send.
AllForms ==
    {[Blank("signup") EXCEPT !.email = e] : e \in MCEmails}
    \cup {[Blank("login") EXCEPT !.email = bob, !.pw = p] : p \in MCPasswords}
    \cup {[Blank("view") EXCEPT !.cookie = t] : t \in {memberTab} \cup Requests}
    \cup {[Blank("logout") EXCEPT !.cookie = memberTab, !.csrf = c] : c \in BOOLEAN}
    \cup {[Blank("password") EXCEPT !.cookie = memberTab]}
    \cup {[Blank("revoke") EXCEPT !.cookie = memberTab, !.id = i] : i \in {1, 2}}
    \cup {[Blank("revokeOthers") EXCEPT !.cookie = t] : t \in {memberTab} \cup Requests}
    \cup {[Blank("create") EXCEPT !.cookie = t, !.email = bob] : t \in {adminTab} \cup Requests}
    \cup {[Blank("deactivate") EXCEPT !.cookie = t, !.id = 2] : t \in MCSeeds}
    \cup {[Blank("reset") EXCEPT !.id = 2, !.tok = k, !.valid = v] :
              k \in ResetTokens, v \in BOOLEAN}

\* What ends and begins sessions, for three requests.
SessionForms ==
    {[Blank("login") EXCEPT !.email = e] : e \in MCEmails}
    \cup {[Blank("view") EXCEPT !.cookie = t] : t \in {memberTab} \cup Requests}
    \cup {[Blank("logout") EXCEPT !.cookie = memberTab]}
    \cup {[Blank("password") EXCEPT !.cookie = memberTab]}
    \cup {[Blank("revoke") EXCEPT !.cookie = memberTab, !.id = i] : i \in 2..3}
    \cup {[Blank("revokeOthers") EXCEPT !.cookie = t] : t \in {memberTab} \cup Requests}

(***************************************************************************)
(* Two parts, told apart by the database they start from: from OneSession  *)
(* three requests that begin and end sessions, while time passes; from the *)
(* others two requests of every kind with resets and, at two moments, a    *)
(* failing statement, or else with a restart.                              *)
(***************************************************************************)
SessionsOnly == born[memberTab] # None /\ born[adminTab] = None

MayArrive(r) ==
    IF SessionsOnly THEN form'[r] \in SessionForms
    ELSE Cardinality({q \in Requests : pc[q] = "new"}) > 1

MCNext ==
    \/ \E r \in Requests :
        \/ Arrive(r) /\ MayArrive(r)
        \/ WithSession(r)
        \/ Handle(r)
        \/ ~SessionsOnly /\ crashes = 0 /\ StatementFails(r)
    \/ ~SessionsOnly /\ RunResetPassword
    \/ ~SessionsOnly /\ faults = 0 /\ clock = 0 /\ Restart
    \/ (SessionsOnly \/ (crashes = 0 /\ clock = 0)) /\ Tick

MCSpec == Init /\ [][MCNext]_vars

Symmetry == Permutations(Requests)
=============================================================================
