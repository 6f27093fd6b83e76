------------------------------ MODULE Accounts -------------------------------
(***************************************************************************)
(* The Console's accounts, sessions and password resets:                   *)
(* handlers_auth.go, handlers_reset.go, handlers_settings.go and           *)
(* middleware.go of src/web/internal/server over store/users.go,           *)
(* store/sessions.go and store/settings.go, and the reset-password         *)
(* subcommand.                                                             *)
(*                                                                         *)
(* A request is a goroutine.  Every SQL statement is one atomic step (the  *)
(* database has one connection); between two statements anything may       *)
(* happen, and a goroutine goes on with the rows it copied.  pc names the  *)
(* statement that comes next.  A statement may fail, and the process may   *)
(* be restarted.  Passwords stand for their hashes, tokens for theirs.     *)
(*                                                                         *)
(* The token a request's startSession mints is the request itself.  born,  *)
(* ended, spent, late, seen and acted are history.                         *)
(***************************************************************************)
EXTENDS Integers, Sequences, FiniteSets, FiniteSetsExt

CONSTANTS
    Requests,       \* the requests, each made at most once
    Seeds,          \* tokens of the sessions the database starts with
    Emails, Passwords,
    Forms,          \* what a request may carry, see FormType
    AllowSignup,    \* CONSOLE_ALLOW_SIGNUP
    Databases,      \* contents the database may start with, see DatabaseType
    IdleTimeout, AbsoluteTimeout, TouchThrottle, ResetTTL,
    MaxClock, MaxResets, MaxFaults, MaxCrashes,     \* bounds
    None            \* no token, no row, no copy

Tokens == Requests \cup Seeds
UserIds == 1..Cardinality(Emails)           \* rows are never deleted
SessionIds == 1..Cardinality(Tokens)
ResetTokens == 1..MaxResets
Times == Int

Users == [email : Emails, pw : Passwords, role : {"admin", "member"}, active : BOOLEAN]
Sessions == [token : Tokens, user : UserIds, lastSeen : Times, expires : Times]
Resets == [token : ResetTokens, expires : Times]
SessionCopies == [id : SessionIds, row : Sessions, now : Times]
UserCopies == [id : UserIds, row : Users]
Births == [user : UserIds, at : Times]
DatabaseType == [users : Seq(Users), sessions : [SessionIds -> Sessions \cup {None}]]

\* valid: the new password is confirmed and long enough.  csrf: the form
\* carries its session's CSRF token.  id: the session or user it is about.
Ops == {"view", "signup", "login", "logout", "password", "revoke",
        "revokeOthers", "create", "deactivate", "reset"}
FormType ==
    [op : Ops, cookie : Tokens \cup {None}, csrf : BOOLEAN, valid : BOOLEAN,
     email : Emails, pw : Passwords, new : Passwords, role : {"admin", "member"},
     id : UserIds \cup SessionIds, tok : Nat \ {0}]

(* A database the console starts on: ids, emails and tokens are unique, a     *)
(* session's user exists, its sessions have the lowest ids, and the users, if *)
(* there are any, include an administrator.                                   *)
ASSUME AccountsAssumption ==
    /\ IsFiniteSet(Requests) /\ IsFiniteSet(Seeds) /\ IsFiniteSet(Emails)
    /\ Requests \cap Seeds = {}
    /\ None \notin Tokens \cup Users \cup Sessions \cup Resets
    /\ None \notin SessionCopies \cup UserCopies \cup Births
    /\ Forms \subseteq FormType
    /\ AllowSignup \in BOOLEAN
    /\ \A db \in Databases :
          /\ db.users \in Seq(Users)
          /\ \A i, j \in DOMAIN db.users : db.users[i].email = db.users[j].email => i = j
          /\ db.sessions \in [SessionIds -> Sessions \cup {None}]
          /\ \A i \in SessionIds : db.sessions[i] # None =>
                /\ i <= Cardinality(Seeds) /\ db.sessions[i].token \in Seeds
                /\ db.sessions[i].user \in DOMAIN db.users
                /\ \A j \in SessionIds : db.sessions[j] # None =>
                      (db.sessions[i].token = db.sessions[j].token => i = j)
          /\ db.users = <<>> \/ \E i \in DOMAIN db.users : db.users[i].role = "admin"
    /\ {IdleTimeout, AbsoluteTimeout, TouchThrottle, ResetTTL} \subseteq Nat
    /\ {MaxClock, MaxResets, MaxFaults, MaxCrashes} \subseteq Nat

VARIABLES
    users,      \* table users: row i has id i
    sessions,   \* table sessions, None where there is no row
    resets,     \* settings "pwreset:<user id>", None where there is none
    clock,      \* s.Now()
    pc, form,   \* of each request: its next statement, what it carries
    sess,       \* its session: the row copied, its id, s.Now(); None if anonymous
    user,       \* its user: the row copied and its id; None if anonymous
    copy,       \* what its handler read last: [role], [id], [id, token] or [active]
    minted,     \* reset tokens minted so far
    faults, crashes,
    born,       \* born[t]: the user and time of token t, None before
    ended,      \* tokens whose logout, revocation or replacement took place
    spent,      \* reset tokens of answered resets
    late,       \* late[r]: the credential r carries was dead when r arrived
    seen,       \* seen[r]: active accounts since r arrived, by email and password
    acted       \* requests let in with a password or reset token, or that changed something

tables  == <<users, sessions, resets>>
copies  == <<form, sess, user, copy>>
env     == <<clock, minted, faults, crashes>>
history == <<born, ended, spent, late, seen, acted>>
vars == <<tables, pc, copies, env, history>>

-----------------------------------------------------------------------------
Live(i) == sessions[i] # None
UsersWithEmail(e) == {i \in DOMAIN users : users[i].email = e}

\* INTEGER PRIMARY KEY without AUTOINCREMENT: the largest id in use, plus one.
NextSessionId == 1 + Max({0} \cup {i \in SessionIds : Live(i)})

ActiveAccounts(us) ==
    {[email |-> us[i].email, pw |-> us[i].pw] : i \in {j \in DOMAIN us : us[j].active}}

InFlight(r) == pc[r] \notin {"new", "done", "cut"}

\* users changes: every request in flight may now have met the new accounts.
Observe(us) ==
    seen' = [r \in Requests |-> IF InFlight(r) THEN seen[r] \cup ActiveAccounts(us)
                                ELSE seen[r]]

\* The next statement of r, a request for op.
At(r, label, op) == pc[r] = label /\ form[r].op = op

Go(r, label) == pc' = [pc EXCEPT ![r] = label]

Init ==
    /\ \E db \in Databases :
          /\ users = db.users
          /\ sessions = db.sessions
          /\ born = [t \in Tokens |->
                IF \E i \in SessionIds : db.sessions[i] # None /\ db.sessions[i].token = t
                THEN LET i == CHOOSE i \in SessionIds :
                                 db.sessions[i] # None /\ db.sessions[i].token = t
                     IN [user |-> db.sessions[i].user,
                         at |-> db.sessions[i].expires - AbsoluteTimeout]
                ELSE None]
    /\ resets = [u \in UserIds |-> None]
    /\ clock = 0
    /\ pc = [r \in Requests |-> "new"]
    /\ form = [r \in Requests |-> None]
    /\ sess = [r \in Requests |-> None]
    /\ user = [r \in Requests |-> None]
    /\ copy = [r \in Requests |-> None]
    /\ minted = 0
    /\ faults = 0
    /\ crashes = 0
    /\ ended = {}
    /\ spent = {}
    /\ late = [r \in Requests |-> FALSE]
    /\ seen = [r \in Requests |-> {}]
    /\ acted = {}

-----------------------------------------------------------------------------
(* Routing: requireAuth, requireAdmin, requireCSRF and the checks each       *)
(* handler makes before its first statement.                                 *)
NeedsLogin == {"password", "revoke", "revokeOthers", "create", "deactivate"}

FirstStatement ==
    [view |-> "done", signup |-> "lookup", login |-> "lookup", logout |-> "delete",
     password |-> "write", revoke |-> "lookup", revokeOthers |-> "delete",
     create |-> "lookup", deactivate |-> "lookup", reset |-> "lookup"]

\* Mutant: members may manage accounts.
AdmittedMembers(f, u) ==
    /\ f.op \in NeedsLogin \cup {"logout"} => u # None /\ f.csrf
    /\ f.op = "password" => f.pw = u.pw /\ f.valid
    /\ f.op = "signup" => AllowSignup /\ f.valid
    /\ f.op = "create" => f.valid

Admitted(f, u) ==
    /\ f.op \in NeedsLogin \cup {"logout"} => u # None /\ f.csrf
    /\ f.op \in {"create", "deactivate"} => u.role = "admin"
    /\ f.op = "password" => f.pw = u.pw /\ f.valid
    /\ f.op = "signup" => AllowSignup /\ f.valid
    /\ f.op = "create" => f.valid

Enter(r, f, u) ==
    Go(r, IF Admitted(f, u) THEN FirstStatement[f.op] ELSE "done")

-----------------------------------------------------------------------------
\* A request arrives, with a cookie the Console has issued, or none, and a
\* reset token the operator has been given.
Arrive(r) ==
    \E f \in Forms :
        /\ pc[r] = "new"
        /\ f.cookie # None => born[f.cookie] # None
        /\ f.op = "reset" => f.tok <= minted
        /\ form' = [form EXCEPT ![r] = f]
        /\ late' = [late EXCEPT ![r] =
              IF f.op = "reset" THEN f.tok \in spent
              ELSE f.cookie # None /\ \/ f.cookie \in ended
                                      \/ clock > born[f.cookie].at + AbsoluteTimeout]
        /\ seen' = [seen EXCEPT ![r] = ActiveAccounts(users)]
        /\ IF f.cookie = None THEN Enter(r, f, None) ELSE Go(r, "session")
        /\ UNCHANGED <<tables, sess, user, copy, env, born, ended, spent, acted>>

(* withSession *)
GetSession(r) ==
    /\ pc[r] = "session"
    /\ LET found == {i \in SessionIds : Live(i) /\ sessions[i].token = form[r].cookie}
       IN IF found = {}
          THEN Enter(r, form[r], None) /\ UNCHANGED sess
          ELSE \E i \in found :
                 LET row == sessions[i]
                     expired == clock > row.expires \/ clock > row.lastSeen + IdleTimeout
                 IN /\ sess' = [sess EXCEPT ![r] = [id |-> i, row |-> row, now |-> clock]]
                    /\ Go(r, IF expired THEN "drop"
                             ELSE IF clock - row.lastSeen > TouchThrottle THEN "touch"
                             ELSE "user")
    /\ UNCHANGED <<tables, form, user, copy, env, history>>

DropExpired(r) ==
    /\ pc[r] = "drop"
    /\ sessions' = [sessions EXCEPT ![sess[r].id] = None]
    /\ sess' = [sess EXCEPT ![r] = None]
    /\ Enter(r, form[r], None)
    /\ UNCHANGED <<users, resets, form, user, copy, env, history>>

TouchSession(r) ==
    /\ pc[r] = "touch"
    /\ LET i == sess[r].id
       IN sessions' = IF Live(i)
                      THEN [sessions EXCEPT ![i].lastSeen = sess[r].now]
                      ELSE sessions
    /\ Go(r, "user")
    /\ UNCHANGED <<users, resets, copies, env, history>>

GetUser(r) ==
    /\ pc[r] = "user"
    /\ LET u == users[sess[r].row.user]
       IN IF u.active
          THEN /\ user' = [user EXCEPT ![r] = [id |-> sess[r].row.user, row |-> u]]
               /\ Enter(r, form[r], u) /\ UNCHANGED sess
          ELSE /\ sess' = [sess EXCEPT ![r] = None]
               /\ Enter(r, form[r], None) /\ UNCHANGED user
    /\ UNCHANGED <<tables, form, copy, env, history>>

-----------------------------------------------------------------------------
(* handleSignup, handleUserCreate *)
LookupEmail(r) ==
    /\ pc[r] = "lookup" /\ form[r].op \in {"signup", "create"}
    /\ Go(r, IF UsersWithEmail(form[r].email) # {} THEN "done"
             ELSE IF form[r].op = "signup" THEN "count" ELSE "insert")
    /\ UNCHANGED <<tables, copies, env, history>>

\* Mutant: off by one.
CountUsersOffByOne(r) ==
    /\ pc[r] = "count"
    /\ copy' = [copy EXCEPT ![r] = [role |-> IF Len(users) = 1 THEN "admin" ELSE "member"]]
    /\ Go(r, "insert")
    /\ UNCHANGED <<tables, form, sess, user, env, history>>

CountUsers(r) ==
    /\ pc[r] = "count"
    /\ copy' = [copy EXCEPT ![r] = [role |-> IF users = <<>> THEN "admin" ELSE "member"]]
    /\ Go(r, "insert")
    /\ UNCHANGED <<tables, form, sess, user, env, history>>

\* The email is UNIQUE: of two racing requests the second insert fails.
CreateUser(r, role, next) ==
    /\ IF UsersWithEmail(form[r].email) # {}
       THEN Go(r, "done") /\ UNCHANGED <<users, copy, seen, acted>>
       ELSE /\ users' = Append(users, [email |-> form[r].email, pw |-> form[r].pw,
                                       role |-> role, active |-> TRUE])
            /\ Observe(users')
            /\ acted' = acted \cup {r}
            /\ copy' = [copy EXCEPT ![r] = [id |-> Len(users) + 1]]
            /\ Go(r, next)
    /\ UNCHANGED <<sessions, resets, form, sess, user, env, born, ended, spent, late>>

SignUp(r) == At(r, "insert", "signup") /\ CreateUser(r, copy[r].role, "start")
Invite(r) == At(r, "insert", "create") /\ CreateUser(r, form[r].role, "done")

(* handleLogin *)
\* Mutant: a deactivated account can log in.
LoginLookupAnyUser(r) ==
    /\ At(r, "lookup", "login")
    /\ LET f == form[r]
           found == {i \in UsersWithEmail(f.email) : users[i].pw = f.pw}
       IN IF found = {}
          THEN Go(r, "done") /\ UNCHANGED <<copy, acted>>
          ELSE /\ copy' = [copy EXCEPT ![r] = [id |-> CHOOSE i \in found : TRUE]]
               /\ acted' = acted \cup {r}
               /\ Go(r, "start")
    /\ UNCHANGED <<tables, form, sess, user, env, born, ended, spent, late, seen>>

LoginLookup(r) ==
    /\ At(r, "lookup", "login")
    /\ LET f == form[r]
           found == {i \in UsersWithEmail(f.email) : users[i].active /\ users[i].pw = f.pw}
       IN IF found = {}
          THEN Go(r, "done") /\ UNCHANGED <<copy, acted>>
          ELSE /\ copy' = [copy EXCEPT ![r] = [id |-> CHOOSE i \in found : TRUE]]
               /\ acted' = acted \cup {r}
               /\ Go(r, "start")
    /\ UNCHANGED <<tables, form, sess, user, env, born, ended, spent, late, seen>>

\* startSession, after a sign-up, a login or a password change.
StartSession(r) ==
    /\ pc[r] = "start"
    /\ LET u == IF form[r].op = "password" THEN user[r].id ELSE copy[r].id
       IN /\ sessions' = [sessions EXCEPT ![NextSessionId] =
                [token |-> r, user |-> u, lastSeen |-> clock,
                 expires |-> clock + AbsoluteTimeout]]
          /\ born' = [born EXCEPT ![r] = [user |-> u, at |-> clock]]
    /\ Go(r, "done")
    /\ UNCHANGED <<users, resets, copies, env, ended, spent, late, seen, acted>>

(* handleLogout, handlePasswordChange, handleSessionRevoke,                  *)
(* handleSessionRevokeAllOthers                                              *)
OwnSessions(u) == {i \in SessionIds : Live(i) /\ sessions[i].user = u}

\* findOwnedSession
FindOwnedSession(r) ==
    /\ At(r, "lookup", "revoke")
    /\ LET i == form[r].id
       IN IF i \in OwnSessions(user[r].id)
          THEN /\ copy' = [copy EXCEPT ![r] = [id |-> i, token |-> sessions[i].token]]
               /\ Go(r, "delete")
          ELSE Go(r, "done") /\ UNCHANGED copy
    /\ UNCHANGED <<tables, form, sess, user, env, history>>

\* Statements DeleteSession and DeleteSessionsForUserExcept: rows go by their id.
\* meant are the tokens the handler so ends.
DeleteSessions(r, ids, meant) ==
    /\ sessions' = [i \in SessionIds |-> IF i \in ids THEN None ELSE sessions[i]]
    /\ ended' = ended \cup meant
    /\ acted' = acted \cup {r}
    /\ UNCHANGED <<users, resets, copies, env, born, spent, late, seen>>

Logout(r) ==
    /\ At(r, "delete", "logout")
    /\ DeleteSessions(r, {sess[r].id}, {form[r].cookie})
    /\ Go(r, "done")

RevokeSession(r) ==
    /\ At(r, "delete", "revoke")
    /\ DeleteSessions(r, {copy[r].id}, {copy[r].token})
    /\ Go(r, "done")

\* A session that has meanwhile got the id of the request's own is spared.
RevokeAllOthers(r) ==
    /\ At(r, "delete", "revokeOthers")
    /\ LET others == OwnSessions(user[r].id) \ {sess[r].id}
       IN DeleteSessions(r, others, {sessions[i].token : i \in others})
    /\ Go(r, "done")

\* Mutant: the session from before a password change lives on.
DropOldSessionNot(r) ==
    /\ At(r, "delete", "password")
    /\ DeleteSessions(r, {}, {form[r].cookie})
    /\ Go(r, "start")

\* handlePasswordChange, between its UPDATE and startSession.
DropOldSession(r) ==
    /\ At(r, "delete", "password")
    /\ DeleteSessions(r, {sess[r].id}, {form[r].cookie})
    /\ Go(r, "start")

UpdatePasswordHash(r, u) ==
    /\ users' = [users EXCEPT ![u].pw = form[r].new]
    /\ Observe(users')
    /\ acted' = acted \cup {r}
    /\ UNCHANGED <<sessions, resets, copies, env, born, ended, spent, late>>

\* The current password was compared with the user's copy on entry.
ChangePassword(r) ==
    /\ At(r, "write", "password")
    /\ UpdatePasswordHash(r, user[r].id)
    /\ Go(r, "delete")

(* handleUserDeactivate *)
DeactivateLookup(r) ==
    /\ At(r, "lookup", "deactivate")
    /\ IF form[r].id \in DOMAIN users
       THEN /\ copy' = [copy EXCEPT ![r] = [active |-> ~users[form[r].id].active]]
            /\ Go(r, "activate")
       ELSE Go(r, "done") /\ UNCHANGED copy
    /\ UNCHANGED <<tables, form, sess, user, env, history>>

SetUserActive(r) ==
    /\ pc[r] = "activate"
    /\ users' = [users EXCEPT ![form[r].id].active = copy[r].active]
    /\ Observe(users')
    /\ acted' = acted \cup {r}
    /\ Go(r, "done")
    /\ UNCHANGED <<sessions, resets, copies, env, born, ended, spent, late>>

-----------------------------------------------------------------------------
(* handleResetPassword, consumeResetToken *)
ResetLookup(r) ==
    /\ At(r, "lookup", "reset")
    /\ LET stored == IF form[r].id \in UserIds THEN resets[form[r].id] ELSE None
       IN IF stored = None THEN Go(r, "done") /\ UNCHANGED acted
          ELSE IF clock > stored.expires THEN Go(r, "forget") /\ UNCHANGED acted
          ELSE IF stored.token # form[r].tok THEN Go(r, "done") /\ UNCHANGED acted
          ELSE Go(r, "consume") /\ acted' = acted \cup {r}
    /\ UNCHANGED <<tables, copies, env, born, ended, spent, late, seen>>

ResetPassword(r) ==
    /\ At(r, "write", "reset")
    /\ UpdatePasswordHash(r, form[r].id)
    /\ Go(r, "clear")

\* What follows each of the handler's DeleteSetting calls, done or failed.
AfterDeleteSetting(r) ==
    /\ Go(r, IF pc[r] = "consume" /\ form[r].valid THEN "write" ELSE "done")
    /\ spent' = IF pc[r] = "forget" \/ (pc[r] = "consume" /\ form[r].valid)
                THEN spent ELSE spent \cup {form[r].tok}

\* Mutant: only a completed reset deletes the token.
DeleteSettingLate(r) ==
    /\ pc[r] \in {"forget", "consume", "clear"}
    /\ resets' = IF pc[r] = "consume" THEN resets
                 ELSE [resets EXCEPT ![form[r].id] = None]
    /\ AfterDeleteSetting(r)
    /\ UNCHANGED <<users, sessions, copies, env, born, ended, late, seen, acted>>

DeleteSetting(r) ==
    /\ pc[r] \in {"forget", "consume", "clear"}
    /\ resets' = [resets EXCEPT ![form[r].id] = None]
    /\ AfterDeleteSetting(r)
    /\ UNCHANGED <<users, sessions, copies, env, born, ended, late, seen, acted>>

\* console reset-password <email>
RunResetPassword ==
    \E u \in DOMAIN users :
        /\ minted < MaxResets
        /\ minted' = minted + 1
        /\ resets' = [resets EXCEPT ![u] =
                        [token |-> minted + 1, expires |-> clock + ResetTTL]]
        /\ UNCHANGED <<users, sessions, pc, copies, clock, faults,
                       crashes, history>>

-----------------------------------------------------------------------------
(* A statement returns an error.  withSession goes on as an anonymous        *)
(* request, GetUserByEmail's error passes for an unknown email, errors of    *)
(* DeleteSession, TouchSession and DeleteSetting are ignored, and every      *)
(* other error ends the handler.                                             *)
StatementFails(r) ==
    /\ faults < MaxFaults
    /\ faults' = faults + 1
    /\ \/ /\ pc[r] \in {"session", "drop", "user"}
          /\ sess' = [sess EXCEPT ![r] = None]
          /\ Enter(r, form[r], None)
          /\ UNCHANGED spent
       \/ /\ pc[r] \in {"consume", "forget", "clear"}
          /\ AfterDeleteSetting(r)
          /\ UNCHANGED sess
       \/ /\ pc[r] \in {"touch", "lookup", "count", "insert", "start", "delete",
                        "write", "activate"}
          /\ Go(r, CASE pc[r] = "touch" -> "user"
                     [] pc[r] = "lookup" /\ form[r].op = "signup" -> "count"
                     [] pc[r] = "lookup" /\ form[r].op = "create" -> "insert"
                     [] pc[r] = "delete" /\ form[r].op = "password" -> "start"
                     [] OTHER -> "done")
          /\ UNCHANGED <<sess, spent>>
    /\ UNCHANGED <<tables, form, user, copy, clock, minted, crashes,
                   born, ended, late, seen, acted>>

\* The Console dies and comes back on its database.
Restart ==
    /\ crashes < MaxCrashes
    /\ crashes' = crashes + 1
    /\ pc' = [r \in Requests |-> IF InFlight(r) THEN "cut" ELSE pc[r]]
    /\ UNCHANGED <<tables, copies, clock, minted, faults, history>>

Tick ==
    /\ clock < MaxClock
    /\ clock' = clock + 1
    /\ UNCHANGED <<tables, pc, copies, minted, faults, crashes, history>>

WithSession(r) ==
    GetSession(r) \/ DropExpired(r) \/ TouchSession(r) \/ GetUser(r)

Handle(r) ==
    \/ LookupEmail(r) \/ CountUsers(r) \/ SignUp(r) \/ Invite(r)
    \/ LoginLookup(r) \/ StartSession(r) \/ Logout(r)
    \/ FindOwnedSession(r) \/ RevokeSession(r) \/ RevokeAllOthers(r)
    \/ ChangePassword(r) \/ DropOldSession(r)
    \/ DeactivateLookup(r) \/ SetUserActive(r)
    \/ ResetLookup(r) \/ ResetPassword(r) \/ DeleteSetting(r)

Next ==
    \/ \E r \in Requests : Arrive(r) \/ WithSession(r) \/ Handle(r) \/ StatementFails(r)
    \/ RunResetPassword
    \/ Restart
    \/ Tick

Spec == Init /\ [][Next]_vars

-----------------------------------------------------------------------------
\* However sign-ups, invitations and failures interleave, an instance that has
\* accounts has an administrator (handleSignup counts and inserts separately).
InstanceHasAdmin ==
    users # <<>> => \E i \in DOMAIN users : users[i].role = "admin"

\* Nobody gets in on a password or an account that was not valid at any time
\* since the request arrived: logins and password changes had a password that
\* was then the account's, and cookies an account that was then active, for all
\* the concurrent changes, resets and deactivations.
EntryIsJustified ==
    \A r \in Requests :
        /\ r \in acted /\ form[r].op = "login" =>
              [email |-> form[r].email, pw |-> form[r].pw] \in seen[r]
        /\ r \in acted /\ form[r].op = "password" =>
              [email |-> user[r].row.email, pw |-> form[r].pw] \in seen[r]
        /\ user[r] # None => \E a \in seen[r] : a.email = user[r].row.email

\* A session that was logged out, revoked or replaced by a password change stays
\* dead, and none outlives its absolute lifetime: whatever is in flight (a touch,
\* a stale copy, a row id that is in use again), no row has its token, every row is
\* its owner's with the expiry it was made with, and a request that arrives later
\* with such a cookie is anonymous.
SessionsEndForGood ==
    /\ \A i \in SessionIds : Live(i) =>
          LET row == sessions[i]
          IN /\ row.token \notin ended
             /\ row.user = born[row.token].user
             /\ row.expires = born[row.token].at + AbsoluteTimeout
    /\ \A r \in Requests : late[r] /\ form[r].op # "reset" => user[r] = None

\* Unless a statement failed, a reset token is refused from the moment that the
\* answer to a reset that used it is sent, a reset that was then rejected for
\* its new password included (consumeResetToken).
SpentTokensAreRefused ==
    faults = 0 => \A r \in acted : form[r].op = "reset" => ~late[r]

\* What a request changes on behalf of a session it changes for the user who
\* opened that session, from one of the Console's own forms, and accounts only
\* for an administrator (requireAuth, requireAdmin, requireCSRF).
EffectsAreAuthorised ==
    \A r \in acted :
        form[r].op \in NeedsLogin \cup {"logout"} =>
            /\ form[r].csrf
            /\ user[r] # None
            /\ born[form[r].cookie].user = user[r].id
            /\ form[r].op \in {"create", "deactivate"} =>
                   users[user[r].id].role = "admin"

-----------------------------------------------------------------------------
\* VIOLATED.  "handleSessionRevoke deletes one of the current user's own
\* sessions" (handlers_settings.go:138): the row found is deleted by its id,
\* which may by then be another user's.
RevokesOwnSessions ==
    \A r \in Requests :
        At(r, "delete", "revoke") /\ Live(copy[r].id) =>
            sessions[copy[r].id].user = user[r].id
=============================================================================
