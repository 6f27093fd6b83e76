--------------------------- MODULE AccountsProofs ----------------------------
(***************************************************************************)
(* Proofs about Accounts for any number of requests and accounts, any      *)
(* timeouts, and any number of failing statements and restarts.            *)
(*                                                                         *)
(* Three inductive invariants, each resting on the one before: AdminInv    *)
(* (types, and who administers), AccountsInv (what a request's cookie,     *)
(* session and copies of rows say of the tables it goes on to change) and  *)
(* ResetInv (which reset tokens are still to be accepted).                 *)
(***************************************************************************)
EXTENDS Accounts, SequenceTheorems, FiniteSetTheorems, TLAPS

-----------------------------------------------------------------------------
(* Updating a column other than role leaves the table a table, and every     *)
(* row and its role in place.                                                *)
LEMMA UpdatedTable ==
    ASSUME NEW s \in Seq(Users), NEW t \in Seq(Users),
           DOMAIN t = DOMAIN s,
           \A i \in DOMAIN s : t[i].role = s[i].role
    PROVE  /\ t = <<>> <=> s = <<>>
           /\ (\E i \in DOMAIN s : s[i].role = "admin") =>
              (\E i \in DOMAIN t : t[i].role = "admin")
<1>1. s = <<>> <=> Len(s) = 0
  BY EmptySeq
<1>2. t = <<>> <=> Len(t) = 0
  BY EmptySeq
<1>3. Len(s) = Len(t)
  BY LenProperties
<1> QED BY <1>1, <1>2, <1>3

LEMMA UpdatePw ==
    ASSUME NEW s \in Seq(Users), NEW u, NEW p \in Passwords
    PROVE  LET t == [s EXCEPT ![u].pw = p]
           IN /\ t \in Seq(Users) /\ DOMAIN t = DOMAIN s
              /\ \A i \in DOMAIN s : t[i].role = s[i].role /\ t[i].email = s[i].email
<1> DEFINE t == [s EXCEPT ![u].pw = p]
<1>1. DOMAIN t = DOMAIN s /\ DOMAIN s = 1..Len(s) /\ Len(s) \in Nat
  BY LenProperties
<1>2. \A i \in DOMAIN s : s[i] \in Users
  BY ElementOfSeq, LenProperties
<1>3. \A i \in DOMAIN s :
         t[i] \in Users /\ t[i].role = s[i].role /\ t[i].email = s[i].email
  BY <1>2 DEF Users
<1>4. t \in [1..Len(s) -> Users]
  BY <1>1, <1>3
<1>5. t \in Seq(Users)
  BY <1>1, <1>4
<1> QED BY <1>1, <1>3, <1>5

LEMMA UpdateActive ==
    ASSUME NEW s \in Seq(Users), NEW u, NEW b \in BOOLEAN
    PROVE  LET t == [s EXCEPT ![u].active = b]
           IN /\ t \in Seq(Users) /\ DOMAIN t = DOMAIN s
              /\ \A i \in DOMAIN s : t[i].role = s[i].role /\ t[i].email = s[i].email
<1> DEFINE t == [s EXCEPT ![u].active = b]
<1>1. DOMAIN t = DOMAIN s /\ DOMAIN s = 1..Len(s) /\ Len(s) \in Nat
  BY LenProperties
<1>2. \A i \in DOMAIN s : s[i] \in Users
  BY ElementOfSeq, LenProperties
<1>3. \A i \in DOMAIN s :
         t[i] \in Users /\ t[i].role = s[i].role /\ t[i].email = s[i].email
  BY <1>2 DEF Users
<1>4. t \in [1..Len(s) -> Users]
  BY <1>1, <1>3
<1>5. t \in Seq(Users)
  BY <1>1, <1>4
<1> QED BY <1>1, <1>3, <1>5

-----------------------------------------------------------------------------
(* The induction.  Typed keeps the table a table.  EmptyOK says what can be   *)
(* in flight while there is no account: nobody is logged in, nothing was      *)
(* minted, and whoever is about to insert is a sign-up that counted zero.     *)
Labels == {"new", "session", "drop", "touch", "user", "lookup", "count", "insert", "start",
           "delete", "write", "activate", "consume", "forget", "clear", "done", "cut"}

TypedAt(r) ==
    /\ pc[r] # "new" => form[r] \in Forms
    /\ pc[r] = "insert" =>
          form[r].op = "create" \/ (form[r].op = "signup" /\ copy[r].role \in {"admin", "member"})
    /\ pc[r] = "count" => form[r].op = "signup"
    /\ pc[r] = "activate" => copy[r].active \in BOOLEAN

Typed ==
    /\ users \in Seq(Users)
    /\ pc \in [Requests -> Labels]
    /\ form \in [Requests -> Forms \cup {None}]
    /\ sess = [r \in Requests |-> sess[r]]
    /\ user = [r \in Requests |-> user[r]]
    /\ copy = [r \in Requests |-> copy[r]]
    /\ \A r \in Requests : TypedAt(r)

Idle(r) ==
    /\ user[r] = None /\ sess[r] = None
    /\ pc[r] \in {"new", "session", "lookup", "count", "insert", "done", "cut"}
    /\ pc[r] = "lookup" => form[r].op # "create"
    /\ pc[r] = "insert" => form[r].op = "signup" /\ copy[r].role = "admin"

EmptyOK ==
    users = <<>> =>
        /\ \A i \in SessionIds : sessions[i] = None
        /\ \A u \in UserIds : resets[u] = None
        /\ \A r \in Requests : Idle(r)

AdminInv == Typed /\ EmptyOK /\ InstanceHasAdmin

LEMMA Entry ==
    ASSUME NEW f \in FormType, NEW u
    PROVE  LET next == IF Admitted(f, u) THEN FirstStatement[f.op] ELSE "done"
           IN /\ next \in {"done", "lookup", "delete", "write"}
              /\ u = None => /\ next \in {"done", "lookup"}
                             /\ next = "lookup" => f.op # "create"
<1>1. f.op \in Ops
  BY DEF FormType
<1>2. FirstStatement[f.op] \in {"done", "lookup", "delete", "write"}
  BY <1>1 DEF FirstStatement, Ops
<1>3. CASE u = None /\ Admitted(f, u)
  <2>1. f.op \notin NeedsLogin \cup {"logout"}
    BY <1>3 DEF Admitted
  <2>2. FirstStatement[f.op] \in {"done", "lookup"} /\ f.op # "create"
    BY <1>1, <2>1 DEF FirstStatement, Ops, NeedsLogin
  <2> QED BY <1>3, <2>2
<1> QED BY <1>2, <1>3

LEMMA AdminInvInit == Init => AdminInv
<1> SUFFICES ASSUME Init PROVE AdminInv
  OBVIOUS
<1>1. PICK db \in Databases : users = db.users /\ sessions = db.sessions
  BY DEF Init
<1>a. /\ resets = [u \in UserIds |-> None]
      /\ pc = [r \in Requests |-> "new"]
      /\ form = [r \in Requests |-> None]
      /\ sess = [r \in Requests |-> None]
      /\ user = [r \in Requests |-> None]
      /\ copy = [r \in Requests |-> None]
  BY DEF Init
<1>2. Typed
  <2>1. users \in Seq(Users)
    BY <1>1, AccountsAssumption
  <2>2. pc \in [Requests -> Labels] /\ form \in [Requests -> Forms \cup {None}]
    BY <1>a DEF Labels
  <2>3. \A r \in Requests : pc[r] = "new"
    BY <1>a
  <2>4. /\ sess = [r \in Requests |-> sess[r]]
        /\ user = [r \in Requests |-> user[r]]
        /\ copy = [r \in Requests |-> copy[r]]
    BY <1>a
  <2> QED BY <2>1, <2>2, <2>3, <2>4 DEF Typed, TypedAt
<1>3. EmptyOK
  <2>1. users = <<>> => DOMAIN users = {}
    OBVIOUS
  <2>2. users = <<>> => \A i \in SessionIds : sessions[i] = None
    BY <1>1, <2>1, AccountsAssumption
  <2> QED BY <1>a, <2>2 DEF EmptyOK, Idle
<1>4. InstanceHasAdmin
  BY <1>1, AccountsAssumption DEF InstanceHasAdmin
<1> QED BY <1>2, <1>3, <1>4 DEF AdminInv

\* A step of one request that leaves the accounts alone.
LEMMA OneRequest ==
    ASSUME AdminInv, NEW r \in Requests, users' = users,
           pc' \in [Requests -> Labels], form' \in [Requests -> Forms \cup {None}],
           sess' = [q \in Requests |-> sess'[q]],
           user' = [q \in Requests |-> user'[q]],
           copy' = [q \in Requests |-> copy'[q]],
           \A q \in Requests \ {r} :
              /\ pc'[q] = pc[q] /\ form'[q] = form[q] /\ sess'[q] = sess[q]
              /\ user'[q] = user[q] /\ copy'[q] = copy[q],
           TypedAt(r)',
           users = <<>> => /\ \A i \in SessionIds : sessions'[i] = None
                           /\ \A u \in UserIds : resets'[u] = None
                           /\ Idle(r)'
    PROVE  AdminInv'
<1>1. \A q \in Requests \ {r} : TypedAt(q)'
  BY DEF AdminInv, Typed, TypedAt
<1>2. Typed'
  BY <1>1 DEF AdminInv, Typed
<1>3. EmptyOK'
  <2> SUFFICES ASSUME users = <<>> PROVE \A q \in Requests \ {r} : Idle(q)'
    BY DEF EmptyOK
  <2> QED BY DEF AdminInv, EmptyOK, Idle
<1>4. InstanceHasAdmin'
  BY DEF AdminInv, InstanceHasAdmin
<1> QED BY <1>2, <1>3, <1>4 DEF AdminInv

LEMMA WithSessionKeeps ==
    ASSUME AdminInv, NEW r \in Requests, WithSession(r)
    PROVE  AdminInv'
<1>a. /\ pc \in [Requests -> Labels] /\ form \in [Requests -> Forms \cup {None}]
      /\ sess = [q \in Requests |-> sess[q]]
      /\ user = [q \in Requests |-> user[q]]
      /\ copy = [q \in Requests |-> copy[q]]
      /\ TypedAt(r)
  BY DEF AdminInv, Typed
<1>b. users = <<>> => /\ \A i \in SessionIds : sessions[i] = None
                      /\ \A u \in UserIds : resets[u] = None
                      /\ Idle(r)
  BY DEF AdminInv, EmptyOK
<1>c. ASSUME NEW u, pc[r] # "new", Enter(r, form[r], u),
             UNCHANGED <<form, copy>>
      PROVE  /\ pc' \in [Requests -> Labels]
             /\ \A q \in Requests \ {r} : pc'[q] = pc[q]
             /\ TypedAt(r)'
             /\ u = None => /\ pc'[r] \in {"done", "lookup"}
                            /\ pc'[r] = "lookup" => form[r].op # "create"
  <2> DEFINE next == IF Admitted(form[r], u) THEN FirstStatement[form[r].op] ELSE "done"
  <2>1. form[r] \in FormType
    BY <1>a, <1>c, AccountsAssumption DEF TypedAt
  <2>2. /\ next \in {"done", "lookup", "delete", "write"}
        /\ u = None => next \in {"done", "lookup"} /\ (next = "lookup" => form[r].op # "create")
    BY <2>1, Entry
  <2>3. pc' = [pc EXCEPT ![r] = next]
    BY <1>c DEF Enter, Go
  <2> HIDE DEF next
  <2> QED BY <1>a, <1>c, <2>2, <2>3 DEF TypedAt, Labels
<1>1. CASE GetSession(r)
  <2>1. CASE users = <<>>
    <3>1. {i \in SessionIds : Live(i) /\ sessions[i].token = form[r].cookie} = {}
      BY <1>b, <2>1 DEF Live
    <3>2. Enter(r, form[r], None) /\ UNCHANGED <<tables, copies>> /\ pc[r] = "session"
      BY <1>1, <3>1 DEF GetSession, tables, copies
    <3> QED BY <1>a, <1>b, <1>c, <3>2, OneRequest DEF tables, copies, Idle
  <2>2. CASE users # <<>>
    <3>1. UNCHANGED <<tables, form, user, copy>> /\ pc[r] = "session"
      BY <1>1 DEF GetSession, tables
    <3>2. sess' = [q \in Requests |-> sess'[q]] /\ \A q \in Requests \ {r} : sess'[q] = sess[q]
      BY <1>1, <1>a DEF GetSession
    <3>3. Enter(r, form[r], None) \/ \E l \in {"drop", "touch", "user"} : pc' = [pc EXCEPT ![r] = l]
      BY <1>1 DEF GetSession, Go
    <3>4. /\ pc' \in [Requests -> Labels] /\ TypedAt(r)'
          /\ \A q \in Requests \ {r} : pc'[q] = pc[q]
      <4>1. CASE Enter(r, form[r], None)
        BY <1>c, <3>1, <4>1
      <4>2. CASE \E l \in {"drop", "touch", "user"} : pc' = [pc EXCEPT ![r] = l]
        BY <1>a, <3>1, <4>2 DEF TypedAt, Labels
      <4> QED BY <3>3, <4>1, <4>2
    <3> QED BY <1>a, <2>2, <3>1, <3>2, <3>4, OneRequest DEF tables
  <2> QED BY <2>1, <2>2
<1>2. CASE DropExpired(r)
  <2>1. users # <<>> /\ pc[r] = "drop" /\ Enter(r, form[r], None)
    BY <1>2, <1>b DEF DropExpired, Idle
  <2> QED BY <1>2, <1>a, <1>c, <2>1, OneRequest DEF DropExpired
<1>3. CASE TouchSession(r)
  <2>1. users # <<>> /\ pc[r] = "touch" /\ pc' = [pc EXCEPT ![r] = "user"]
    BY <1>3, <1>b DEF TouchSession, Idle, Go
  <2>2. UNCHANGED <<users, resets, copies>>
    BY <1>3 DEF TouchSession
  <2>3. TypedAt(r)' /\ pc' \in [Requests -> Labels]
    BY <1>a, <2>1, <2>2 DEF TypedAt, Labels, copies
  <2> QED BY <1>a, <2>1, <2>2, <2>3, OneRequest DEF copies
<1>4. CASE GetUser(r)
  <2>1. users # <<>> /\ pc[r] = "user" /\ \E u : Enter(r, form[r], u)
    BY <1>4, <1>b DEF GetUser, Idle
  <2>2. UNCHANGED <<tables, form, copy>>
    BY <1>4 DEF GetUser
  <2>3. /\ sess' = [q \in Requests |-> sess'[q]] /\ user' = [q \in Requests |-> user'[q]]
        /\ \A q \in Requests \ {r} : sess'[q] = sess[q] /\ user'[q] = user[q]
    BY <1>4, <1>a DEF GetUser
  <2> QED BY <1>a, <1>c, <2>1, <2>2, <2>3, OneRequest DEF tables
<1> QED BY <1>1, <1>2, <1>3, <1>4 DEF WithSession

(* A step that goes from one label to another, copies something, and leaves  *)
(* the accounts, the form and what withSession found as they are.            *)
LEMMA HandlerStep ==
    ASSUME AdminInv, NEW r \in Requests, NEW label \in Labels,
           pc[r] # "new", pc' = [pc EXCEPT ![r] = label],
           UNCHANGED <<users, form, sess, user>>,
           copy' = copy \/ \E x : copy' = [copy EXCEPT ![r] = x],
           label = "insert" => form[r].op = "create"
                               \/ (form[r].op = "signup" /\ copy'[r].role \in {"admin", "member"}),
           label = "count" => form[r].op = "signup",
           label = "activate" => copy'[r].active \in BOOLEAN,
           users = <<>> => /\ UNCHANGED <<sessions, resets>>
                           /\ label \in {"count", "insert", "done"}
                           /\ label = "insert" => copy'[r].role = "admin" /\ form[r].op = "signup"
    PROVE  AdminInv'
<1>1. /\ pc' \in [Requests -> Labels] /\ form' \in [Requests -> Forms \cup {None}]
      /\ sess' = [q \in Requests |-> sess'[q]]
      /\ user' = [q \in Requests |-> user'[q]]
  BY DEF AdminInv, Typed
<1>2. copy = [q \in Requests |-> copy[q]] /\ pc \in [Requests -> Labels] /\ TypedAt(r)
  BY DEF AdminInv, Typed
<1>3. copy' = [q \in Requests |-> copy'[q]] /\ \A q \in Requests \ {r} : copy'[q] = copy[q]
  <2>1. CASE copy' = copy
    BY <1>2, <2>1
  <2>2. CASE \E x : copy' = [copy EXCEPT ![r] = x]
    BY <1>2, <2>2
  <2> QED BY <2>1, <2>2
<1>4. pc'[r] = label /\ \A q \in Requests \ {r} : pc'[q] = pc[q]
  BY <1>2
<1>5. TypedAt(r)'
  BY <1>2, <1>4 DEF TypedAt
<1>6. ASSUME users = <<>>
      PROVE  /\ \A i \in SessionIds : sessions'[i] = None
             /\ \A u \in UserIds : resets'[u] = None
             /\ Idle(r)'
  BY <1>4, <1>6 DEF AdminInv, EmptyOK, Idle
<1> QED BY <1>1, <1>3, <1>4, <1>5, <1>6, OneRequest

(* The insert that can find no account is a sign-up's, with role admin.      *)
LEMMA CreateUserKeeps ==
    ASSUME AdminInv, NEW r \in Requests, NEW role \in {"admin", "member"},
           NEW next \in {"start", "done"}, pc[r] = "insert",
           users = <<>> => role = "admin", CreateUser(r, role, next)
    PROVE  AdminInv'
<1>a. /\ users \in Seq(Users) /\ form[r] \in Forms /\ TypedAt(r)
      /\ form[r] \in FormType
  BY AccountsAssumption DEF AdminInv, Typed, TypedAt
<1>1. CASE UsersWithEmail(form[r].email) # {}
  <2>1. pc' = [pc EXCEPT ![r] = "done"] /\ UNCHANGED <<users, copy, form, sess, user, sessions, resets>>
    BY <1>1 DEF CreateUser, Go
  <2> QED BY <2>1, HandlerStep DEF Labels
<1>2. CASE UsersWithEmail(form[r].email) = {}
  <2> DEFINE new == [email |-> form[r].email, pw |-> form[r].pw, role |-> role, active |-> TRUE]
  <2>1. /\ users' = Append(users, new) /\ pc' = [pc EXCEPT ![r] = next]
        /\ copy' = [copy EXCEPT ![r] = [id |-> Len(users) + 1]]
        /\ UNCHANGED <<form, sess, user>>
    BY <1>2 DEF CreateUser, Go
  <2>2. new \in Users
    BY <1>a DEF Users, FormType
  <2> HIDE DEF new
  <2>3. /\ users' \in Seq(Users) /\ users' # <<>> /\ Len(users') = Len(users) + 1
        /\ \A i \in 1..Len(users) : users'[i] = users[i]
        /\ users'[Len(users) + 1] = new
    BY <1>a, <2>1, <2>2, AppendProperties
  <2>4. /\ DOMAIN users = 1..Len(users) /\ DOMAIN users' = 1..Len(users')
        /\ Len(users) \in Nat /\ (users = <<>> \/ Len(users) # 0)
    BY <1>a, <2>3, LenProperties, EmptySeq
  <2>5. InstanceHasAdmin'
    <3>1. CASE users = <<>>
      <4>1. new.role = "admin" /\ Len(users) + 1 \in DOMAIN users'
        BY <2>3, <2>4, <3>1 DEF new
      <4> QED BY <2>3, <4>1 DEF InstanceHasAdmin
    <3>2. CASE users # <<>>
      BY <2>3, <2>4, <3>2 DEF InstanceHasAdmin, AdminInv
    <3> QED BY <3>1, <3>2
  <2>6. Typed'
    <3>1. /\ pc \in [Requests -> Labels] /\ copy = [q \in Requests |-> copy[q]]
          /\ \A q \in Requests : TypedAt(q)
      BY DEF AdminInv, Typed
    <3>2. pc' \in [Requests -> Labels] /\ copy' = [q \in Requests |-> copy'[q]]
      BY <2>1, <3>1 DEF Labels
    <3>3. \A q \in Requests : TypedAt(q)'
      BY <2>1, <3>1 DEF TypedAt
    <3> QED BY <2>1, <2>3, <3>2, <3>3 DEF AdminInv, Typed
  <2>7. EmptyOK'
    BY <2>3 DEF EmptyOK
  <2> QED BY <2>5, <2>6, <2>7 DEF AdminInv
<1> QED BY <1>1, <1>2

(* Updating an account neither empties the table nor changes a role.         *)
LEMMA UpdateKeeps ==
    ASSUME AdminInv, NEW r \in Requests, users # <<>>,
           users' \in Seq(Users), DOMAIN users' = DOMAIN users,
           \A i \in DOMAIN users : users'[i].role = users[i].role,
           pc[r] # "new", NEW label \in {"delete", "clear", "done"},
           pc' = [pc EXCEPT ![r] = label], UNCHANGED copies
    PROVE  AdminInv'
<1>1. users' # <<>> /\ InstanceHasAdmin'
  BY UpdatedTable DEF AdminInv, Typed, InstanceHasAdmin
<1>2. /\ pc \in [Requests -> Labels] /\ \A q \in Requests : TypedAt(q)
  BY DEF AdminInv, Typed
<1>3. pc' \in [Requests -> Labels] /\ \A q \in Requests : TypedAt(q)'
  BY <1>2 DEF Labels, TypedAt, copies
<1>4. Typed'
  BY <1>3 DEF AdminInv, Typed, copies
<1> QED BY <1>1, <1>4 DEF AdminInv, EmptyOK

LEMMA SignUpsKeep ==
    ASSUME AdminInv, NEW r \in Requests,
           LookupEmail(r) \/ CountUsers(r) \/ SignUp(r) \/ Invite(r)
    PROVE  AdminInv'
<1>a. /\ TypedAt(r)
      /\ users = <<>> => Idle(r)
      /\ pc[r] # "new" => form[r] \in FormType
  BY AccountsAssumption DEF AdminInv, Typed, TypedAt, EmptyOK
<1>1. CASE LookupEmail(r)
  <2>1. PICK label \in {"done", "count", "insert"} :
          /\ pc' = [pc EXCEPT ![r] = label]
          /\ label = "count" => form[r].op = "signup"
          /\ label = "insert" => form[r].op = "create"
    BY <1>1 DEF LookupEmail, Go
  <2>2. pc[r] = "lookup" /\ UNCHANGED <<users, sessions, resets, form, sess, user, copy>>
    BY <1>1 DEF LookupEmail, tables, copies
  <2>3. users = <<>> => label # "insert"
    BY <1>a, <2>1, <2>2 DEF Idle
  <2> QED BY <2>1, <2>2, <2>3, HandlerStep DEF Labels
<1>2. CASE CountUsers(r)
  <2>1. /\ pc[r] = "count" /\ pc' = [pc EXCEPT ![r] = "insert"]
        /\ copy' = [copy EXCEPT ![r] = [role |-> IF users = <<>> THEN "admin" ELSE "member"]]
        /\ UNCHANGED <<users, sessions, resets, form, sess, user>>
    BY <1>2 DEF CountUsers, Go, tables
  <2>2. copy'[r] = [role |-> IF users = <<>> THEN "admin" ELSE "member"]
    BY <2>1 DEF AdminInv, Typed
  <2>3. /\ form[r].op = "signup" /\ copy'[r].role \in {"admin", "member"}
        /\ users = <<>> => copy'[r].role = "admin"
    BY <1>a, <2>1, <2>2 DEF TypedAt
  <2>4. \E x : copy' = [copy EXCEPT ![r] = x]
    BY <2>1
  <2> QED BY <2>1, <2>3, <2>4, HandlerStep DEF Labels
<1>3. CASE SignUp(r)
  <2>1. pc[r] = "insert" /\ form[r].op = "signup" /\ CreateUser(r, copy[r].role, "start")
    BY <1>3 DEF SignUp, At
  <2>2. copy[r].role \in {"admin", "member"} /\ (users = <<>> => copy[r].role = "admin")
    BY <1>a, <2>1 DEF TypedAt, Idle
  <2> QED BY <2>1, <2>2, CreateUserKeeps
<1>4. CASE Invite(r)
  <2>1. pc[r] = "insert" /\ form[r].op = "create" /\ CreateUser(r, form[r].role, "done")
    BY <1>4 DEF Invite, At
  <2>2. form[r].role \in {"admin", "member"} /\ users # <<>>
    BY <1>a, <2>1 DEF FormType, Idle
  <2> QED BY <2>1, <2>2, CreateUserKeeps
<1> QED BY <1>1, <1>2, <1>3, <1>4

LEMMA SessionHandlersKeep ==
    ASSUME AdminInv, NEW r \in Requests,
           \/ LoginLookup(r) \/ StartSession(r) \/ Logout(r)
           \/ FindOwnedSession(r) \/ RevokeSession(r) \/ RevokeAllOthers(r)
           \/ DropOldSession(r)
    PROVE  AdminInv'
<1>a. users = <<>> => Idle(r) /\ (\A i \in SessionIds : sessions[i] = None)
  BY DEF AdminInv, EmptyOK
<1>1. CASE LoginLookup(r)
  <2>1. PICK label \in {"done", "start"} :
          /\ pc' = [pc EXCEPT ![r] = label]
          /\ users = <<>> => label = "done"
    BY <1>1 DEF LoginLookup, Go, UsersWithEmail
  <2>2. /\ pc[r] = "lookup" /\ UNCHANGED <<users, sessions, resets, form, sess, user>>
        /\ copy' = copy \/ \E x : copy' = [copy EXCEPT ![r] = x]
    BY <1>1 DEF LoginLookup, tables, At
  <2> QED BY <2>1, <2>2, HandlerStep DEF Labels
<1>2. CASE StartSession(r)
  <2>1. /\ pc[r] = "start" /\ pc' = [pc EXCEPT ![r] = "done"]
        /\ UNCHANGED <<users, form, sess, user, copy>>
    BY <1>2 DEF StartSession, Go, copies
  <2>2. users # <<>>
    BY <1>a, <2>1 DEF Idle
  <2> QED BY <2>1, <2>2, HandlerStep DEF Labels
<1>3. CASE FindOwnedSession(r)
  <2>1. PICK label \in {"done", "delete"} :
          /\ pc' = [pc EXCEPT ![r] = label]
          /\ label = "delete" => form[r].id \in OwnSessions(user[r].id)
    BY <1>3 DEF FindOwnedSession, Go
  <2>2. /\ pc[r] = "lookup" /\ UNCHANGED <<users, sessions, resets, form, sess, user>>
        /\ copy' = copy \/ \E x : copy' = [copy EXCEPT ![r] = x]
    BY <1>3 DEF FindOwnedSession, tables, At
  <2>3. users = <<>> => label = "done"
    BY <1>a, <2>1 DEF OwnSessions, Live
  <2> QED BY <2>1, <2>2, <2>3, HandlerStep DEF Labels
<1>4. CASE Logout(r) \/ RevokeSession(r) \/ RevokeAllOthers(r) \/ DropOldSession(r)
  <2>1. /\ pc[r] = "delete" /\ \E l \in {"done", "start"} : pc' = [pc EXCEPT ![r] = l]
        /\ UNCHANGED <<users, form, sess, user, copy>>
    BY <1>4 DEF Logout, RevokeSession, RevokeAllOthers, DropOldSession, At, Go,
                DeleteSessions, copies
  <2>2. users # <<>>
    BY <1>a, <2>1 DEF Idle
  <2> QED BY <2>1, <2>2, HandlerStep DEF Labels
<1> QED BY <1>1, <1>2, <1>3, <1>4

LEMMA AccountHandlersKeep ==
    ASSUME AdminInv, NEW r \in Requests,
           \/ ChangePassword(r) \/ DeactivateLookup(r) \/ SetUserActive(r)
           \/ ResetLookup(r) \/ ResetPassword(r) \/ DeleteSetting(r)
    PROVE  AdminInv'
<1>a. /\ users = <<>> => Idle(r) /\ (\A u \in UserIds : resets[u] = None)
      /\ users \in Seq(Users) /\ TypedAt(r)
      /\ pc[r] # "new" => form[r] \in FormType
  BY AccountsAssumption DEF AdminInv, Typed, TypedAt, EmptyOK
<1>b. ASSUME NEW u, pc[r] = "write", UpdatePasswordHash(r, u),
             NEW label \in {"delete", "clear"}, pc' = [pc EXCEPT ![r] = label]
      PROVE  AdminInv'
  <2>1. users' = [users EXCEPT ![u].pw = form[r].new] /\ UNCHANGED copies
    BY <1>b DEF UpdatePasswordHash
  <2>2. users # <<>> /\ form[r].new \in Passwords
    BY <1>a, <1>b DEF Idle, FormType
  <2>3. /\ users' \in Seq(Users) /\ DOMAIN users' = DOMAIN users
        /\ \A i \in DOMAIN users : users'[i].role = users[i].role
    BY <1>a, <2>1, <2>2, UpdatePw
  <2> QED BY <1>b, <2>1, <2>2, <2>3, UpdateKeeps
<1>1. CASE ChangePassword(r)
  BY <1>1, <1>b DEF ChangePassword, At, Go
<1>2. CASE ResetPassword(r)
  BY <1>2, <1>b DEF ResetPassword, At, Go
<1>3. CASE DeactivateLookup(r)
  <2>1. CASE form[r].id \in DOMAIN users
    <3>1. /\ pc[r] = "lookup" /\ pc' = [pc EXCEPT ![r] = "activate"]
          /\ copy' = [copy EXCEPT ![r] = [active |-> ~users[form[r].id].active]]
          /\ UNCHANGED <<users, form, sess, user>>
      BY <1>3, <2>1 DEF DeactivateLookup, At, Go, tables
    <3>2. copy'[r].active \in BOOLEAN
      BY <3>1 DEF AdminInv, Typed
    <3>3. users # <<>>
      BY <2>1
    <3> QED BY <3>1, <3>2, <3>3, HandlerStep DEF Labels
  <2>2. CASE form[r].id \notin DOMAIN users
    BY <1>3, <2>2, HandlerStep DEF DeactivateLookup, At, Go, tables, Labels
  <2> QED BY <2>1, <2>2
<1>4. CASE SetUserActive(r)
  <2>1. /\ pc[r] = "activate" /\ pc' = [pc EXCEPT ![r] = "done"] /\ UNCHANGED copies
        /\ users' = [users EXCEPT ![form[r].id].active = copy[r].active]
    BY <1>4 DEF SetUserActive, Go
  <2>2. users # <<>> /\ copy[r].active \in BOOLEAN
    BY <1>a, <2>1 DEF Idle, TypedAt
  <2>3. /\ users' \in Seq(Users) /\ DOMAIN users' = DOMAIN users
        /\ \A i \in DOMAIN users : users'[i].role = users[i].role
    <3> DEFINE u == form[r].id
               b == copy[r].active
    <3>1. users' = [users EXCEPT ![u].active = b]
      BY <2>1
    <3>2. b \in BOOLEAN /\ users \in Seq(Users)
      BY <1>a, <2>2
    <3> HIDE DEF u, b
    <3> QED BY <3>1, <3>2, UpdateActive
  <2> QED BY <2>1, <2>2, <2>3, UpdateKeeps
<1>5. CASE ResetLookup(r)
  <2>1. /\ pc[r] = "lookup" /\ UNCHANGED <<users, sessions, resets, form, sess, user, copy>>
        /\ \E l \in {"done", "forget", "consume"} :
              pc' = [pc EXCEPT ![r] = l] /\ (users = <<>> => l = "done")
    BY <1>5, <1>a DEF ResetLookup, At, Go, tables, copies
  <2> QED BY <2>1, HandlerStep DEF Labels
<1>6. CASE DeleteSetting(r)
  <2>1. /\ pc[r] \in {"forget", "consume", "clear"}
        /\ UNCHANGED <<users, form, sess, user, copy>>
        /\ \E l \in {"done", "write"} : pc' = [pc EXCEPT ![r] = l]
    BY <1>6 DEF DeleteSetting, AfterDeleteSetting, Go, copies
  <2>2. users # <<>>
    BY <1>a, <2>1 DEF Idle
  <2> QED BY <2>1, <2>2, HandlerStep DEF Labels
<1> QED BY <1>1, <1>2, <1>3, <1>4, <1>5, <1>6

LEMMA FailuresKeep ==
    ASSUME AdminInv, NEW r \in Requests, StatementFails(r)
    PROVE  AdminInv'
<1>a. /\ users = <<>> => Idle(r) /\ UNCHANGED <<sessions, resets>>
      /\ TypedAt(r) /\ form[r] \in FormType
      /\ pc \in [Requests -> Labels] /\ pc[r] # "new"
      /\ UNCHANGED <<tables, form, user, copy>>
  <2>1. pc[r] # "new" /\ UNCHANGED <<tables, form, user, copy>>
    BY DEF StatementFails
  <2> QED BY <2>1, AccountsAssumption DEF AdminInv, Typed, TypedAt, EmptyOK, tables
<1>1. CASE /\ pc[r] \in {"session", "drop", "user"}
           /\ sess' = [sess EXCEPT ![r] = None]
           /\ Enter(r, form[r], None)
  <2> DEFINE next == IF Admitted(form[r], None) THEN FirstStatement[form[r].op] ELSE "done"
  <2>1. next \in {"done", "lookup"} /\ (next = "lookup" => form[r].op # "create")
    BY <1>a, Entry
  <2>2. pc' = [pc EXCEPT ![r] = next]
    BY <1>1 DEF Enter, Go
  <2> HIDE DEF next
  <2>3. /\ sess' = [q \in Requests |-> sess'[q]] /\ sess'[r] = None
        /\ \A q \in Requests \ {r} : sess'[q] = sess[q]
    BY <1>1 DEF AdminInv, Typed
  <2>4. /\ pc' \in [Requests -> Labels] /\ pc'[r] = next
        /\ \A q \in Requests \ {r} : pc'[q] = pc[q]
    BY <1>a, <2>1, <2>2 DEF Labels
  <2>5. TypedAt(r)'
    BY <1>a, <2>1, <2>4 DEF TypedAt
  <2>6. users = <<>> => Idle(r)'
    BY <1>a, <2>1, <2>3, <2>4 DEF Idle
  <2>7. /\ form' \in [Requests -> Forms \cup {None}]
        /\ user' = [q \in Requests |-> user'[q]]
        /\ copy' = [q \in Requests |-> copy'[q]]
    BY <1>a DEF AdminInv, Typed
  <2>8. users = <<>> => /\ \A i \in SessionIds : sessions'[i] = None
                        /\ \A u \in UserIds : resets'[u] = None
    BY <1>a DEF AdminInv, EmptyOK
  <2> QED BY <1>a, <2>3, <2>4, <2>5, <2>6, <2>7, <2>8, OneRequest DEF tables
<1>2. CASE /\ pc[r] \in {"consume", "forget", "clear"}
           /\ AfterDeleteSetting(r)
           /\ UNCHANGED sess
  <2>1. \E l \in {"done", "write"} : pc' = [pc EXCEPT ![r] = l]
    BY <1>2 DEF AfterDeleteSetting, Go
  <2>2. users # <<>>
    BY <1>a, <1>2 DEF Idle
  <2> QED BY <1>a, <1>2, <2>1, <2>2, HandlerStep DEF Labels, tables
<1>3. CASE /\ pc[r] \in {"touch", "lookup", "count", "insert", "start", "delete",
                          "write", "activate"}
           /\ Go(r, CASE pc[r] = "touch" -> "user"
                      [] pc[r] = "lookup" /\ form[r].op = "signup" -> "count"
                      [] pc[r] = "lookup" /\ form[r].op = "create" -> "insert"
                      [] pc[r] = "delete" /\ form[r].op = "password" -> "start"
                      [] OTHER -> "done")
           /\ UNCHANGED sess
  <2>1. PICK label \in {"user", "count", "insert", "start", "done"} :
          /\ pc' = [pc EXCEPT ![r] = label]
          /\ label = "count" => form[r].op = "signup"
          /\ label = "insert" => form[r].op = "create" /\ pc[r] = "lookup"
          /\ label = "user" => pc[r] = "touch"
          /\ label = "start" => pc[r] = "delete"
    BY <1>3 DEF Go
  <2>2. users = <<>> => label \in {"count", "done"}
    BY <1>a, <2>1 DEF Idle
  <2> QED BY <1>a, <1>3, <2>1, <2>2, HandlerStep DEF Labels, tables
<1> QED BY <1>1, <1>2, <1>3 DEF StatementFails

LEMMA AdminInvStep == AdminInv /\ [Next]_vars => AdminInv'
<1> SUFFICES ASSUME AdminInv, [Next]_vars PROVE AdminInv'
  OBVIOUS
<1>1. ASSUME NEW r \in Requests, Arrive(r) PROVE AdminInv'
  <2>1. PICK f \in Forms :
          /\ pc[r] = "new" /\ form' = [form EXCEPT ![r] = f]
          /\ (Enter(r, f, None) \/ Go(r, "session"))
          /\ UNCHANGED <<tables, sess, user, copy>>
    BY <1>1 DEF Arrive
  <2>2. /\ pc \in [Requests -> Labels] /\ form \in [Requests -> Forms \cup {None}]
        /\ sess = [q \in Requests |-> sess[q]] /\ user = [q \in Requests |-> user[q]]
        /\ copy = [q \in Requests |-> copy[q]]
    BY DEF AdminInv, Typed
  <2>3. PICK l \in {"done", "lookup", "session"} :
          pc' = [pc EXCEPT ![r] = l] /\ (l = "lookup" => f.op # "create")
    <3>1. CASE Go(r, "session")
      BY <3>1 DEF Go
    <3>2. CASE Enter(r, f, None)
      <4> DEFINE next == IF Admitted(f, None) THEN FirstStatement[f.op] ELSE "done"
      <4>1. next \in {"done", "lookup"} /\ (next = "lookup" => f.op # "create")
        BY Entry, AccountsAssumption
      <4> QED BY <3>2, <4>1 DEF Enter, Go
    <3> QED BY <2>1, <3>1, <3>2
  <2>4. /\ form' \in [Requests -> Forms \cup {None}] /\ form'[r] = f
        /\ pc' \in [Requests -> Labels] /\ pc'[r] = l
        /\ \A q \in Requests \ {r} : pc'[q] = pc[q] /\ form'[q] = form[q]
    BY <2>1, <2>2, <2>3 DEF Labels
  <2>5. TypedAt(r)'
    BY <2>3, <2>4 DEF TypedAt
  <2>6. users = <<>> => /\ \A i \in SessionIds : sessions'[i] = None
                        /\ \A u \in UserIds : resets'[u] = None
                        /\ Idle(r)'
    BY <2>1, <2>3, <2>4 DEF AdminInv, EmptyOK, Idle, tables
  <2> QED BY <2>1, <2>2, <2>4, <2>5, <2>6, OneRequest DEF tables
<1>2. ASSUME NEW r \in Requests, WithSession(r) PROVE AdminInv'
  BY <1>2, WithSessionKeeps
<1>3. ASSUME NEW r \in Requests, Handle(r) PROVE AdminInv'
  BY <1>3, SignUpsKeep, SessionHandlersKeep, AccountHandlersKeep DEF Handle
<1>4. ASSUME NEW r \in Requests, StatementFails(r) PROVE AdminInv'
  BY <1>4, FailuresKeep
<1>5. CASE RunResetPassword
  <2>1. users # <<>> /\ UNCHANGED <<users, pc, copies>>
    BY <1>5 DEF RunResetPassword
  <2> QED BY <2>1 DEF AdminInv, Typed, TypedAt, EmptyOK, InstanceHasAdmin, copies
<1>6. CASE Restart
  <2>1. /\ pc' = [q \in Requests |-> IF InFlight(q) THEN "cut" ELSE pc[q]]
        /\ UNCHANGED <<tables, copies>>
    BY <1>6 DEF Restart
  <2>2. /\ pc \in [Requests -> Labels] /\ \A q \in Requests : TypedAt(q)
    BY DEF AdminInv, Typed
  <2>3. pc' \in [Requests -> Labels] /\ \A q \in Requests : TypedAt(q)'
    BY <2>1, <2>2 DEF TypedAt, InFlight, Labels, copies
  <2>4. Typed'
    BY <2>1, <2>3 DEF AdminInv, Typed, tables, copies
  <2>5. EmptyOK'
    BY <2>1, <2>2 DEF AdminInv, EmptyOK, Idle, tables, copies
  <2> QED BY <2>1, <2>4, <2>5 DEF AdminInv, InstanceHasAdmin, tables
<1>7. CASE Tick \/ UNCHANGED vars
  <2>1. UNCHANGED <<tables, pc, copies>>
    BY <1>7 DEF Tick, vars
  <2> QED BY <2>1 DEF AdminInv, Typed, TypedAt, EmptyOK, Idle, InstanceHasAdmin, tables, copies
<1> QED BY <1>1, <1>2, <1>3, <1>4, <1>5, <1>6, <1>7 DEF Next

(* InstanceHasAdmin: handleSignup's count and insert are two statements, and  *)
(* still the first account to be inserted is an administrator's, however      *)
(* many sign-ups race, statements fail and processes die.                     *)
THEOREM InstanceHasAdminHolds == Spec => []InstanceHasAdmin
<1>1. Init => AdminInv
  BY AdminInvInit
<1>2. AdminInv /\ [Next]_vars => AdminInv'
  BY AdminInvStep
<1>3. AdminInv => InstanceHasAdmin
  BY DEF AdminInv
<1> QED BY <1>1, <1>2, <1>3, PTL DEF Spec
-----------------------------------------------------------------------------
(* Sessions and who a request acts for.  AccountsInv has a part about the     *)
(* tables and one about each request: what the copies it holds on to still    *)
(* have to do with the tables, whatever other requests did in between.        *)
Before == {"new", "session", "drop", "touch", "user"}
Handling == {"lookup", "count", "insert", "start", "delete", "write", "activate",
             "consume", "forget", "clear"}

\* The row with token t is row i, if there is one.
OnlyAt(i, t) == \A j \in SessionIds : Live(j) /\ sessions[j].token = t => j = i

UsersOK == \A i, j \in DOMAIN users : users[i].email = users[j].email => i = j

RowOK(row) ==
    /\ row \in Sessions
    /\ born[row.token] # None /\ row.token \notin ended
    /\ row.user = born[row.token].user
    /\ row.expires = born[row.token].at + AbsoluteTimeout

TableOK ==
    /\ clock \in Nat
    /\ sessions \in [SessionIds -> Sessions \cup {None}]
    /\ born \in [Tokens -> Births \cup {None}]
    /\ \A t \in Tokens : born[t] # None => born[t].user \in DOMAIN users
    /\ ended \subseteq {t \in Tokens : born[t] # None}
    /\ \A i \in SessionIds : Live(i) => RowOK(sessions[i])
    /\ \A i \in SessionIds : Live(i) => OnlyAt(i, sessions[i].token)

CookieOK(r) ==
    /\ pc[r] = "new" => ~late[r] /\ user[r] = None /\ sess[r] = None
    /\ pc[r] # "new" =>
          /\ form[r] \in FormType
          /\ form[r].cookie # None => born[form[r].cookie] # None
    /\ pc[r] \in Before \ {"new"} => form[r].cookie # None
    /\ born[r] # None => pc[r] = "done"

SessOK(r) ==
    /\ sess[r] # None =>
          /\ pc[r] # "new" /\ sess[r] \in SessionCopies
          /\ sess[r].row.token = form[r].cookie /\ form[r].cookie # None
          /\ sess[r].row.user = born[form[r].cookie].user
          /\ OnlyAt(sess[r].id, form[r].cookie)
    /\ pc[r] \in {"drop", "touch", "user"} => sess[r] # None

UserOK(r) ==
    user[r] # None =>
       /\ pc[r] \notin Before
       /\ sess[r] # None /\ user[r] \in UserCopies
       /\ user[r].id = born[form[r].cookie].user
       /\ users[user[r].id].role = user[r].row.role
       /\ [email |-> user[r].row.email, pw |-> user[r].row.pw] \in seen[r]

\* What requireAuth, requireAdmin, requireCSRF and the password check established.
Authorised(r) ==
    /\ form[r].op \in NeedsLogin \cup {"logout"} => user[r] # None /\ form[r].csrf
    /\ form[r].op \in {"create", "deactivate"} => user[r].row.role = "admin"
    /\ form[r].op = "password" => form[r].pw = user[r].row.pw

LetIn(r) ==
    /\ pc[r] \in Handling => Authorised(r)
    /\ r \in acted => pc[r] \notin Before /\ Authorised(r)

CopyOK(r) ==
    /\ pc[r] = "start" =>
          /\ form[r].op \in {"signup", "login", "password"}
          /\ form[r].op # "password" => copy[r].id \in DOMAIN users
    /\ pc[r] = "activate" => form[r].op = "deactivate"
    /\ pc[r] = "delete" =>
          /\ form[r].op \in {"logout", "password", "revoke", "revokeOthers"}
          /\ form[r].op = "revoke" =>
                /\ copy[r] \in [id : SessionIds, token : Tokens]
                /\ born[copy[r].token] # None /\ OnlyAt(copy[r].id, copy[r].token)

LateOK(r) ==
    late[r] /\ form[r].op # "reset" =>
       /\ pc[r] # "new" /\ form[r].cookie # None
       /\ form[r].cookie \in ended \/ clock > born[form[r].cookie].at + AbsoluteTimeout
       /\ user[r] = None /\ pc[r] \notin {"touch", "user"}

SeenOK(r) ==
    /\ InFlight(r) => ActiveAccounts(users) \subseteq seen[r]
    /\ r \in acted /\ form[r].op = "login" =>
          [email |-> form[r].email, pw |-> form[r].pw] \in seen[r]

RequestOK(r) ==
    /\ CookieOK(r) /\ SessOK(r) /\ UserOK(r) /\ LetIn(r) /\ CopyOK(r)
    /\ LateOK(r) /\ SeenOK(r)

AccountsInv ==
    /\ late \in [Requests -> BOOLEAN] /\ seen = [r \in Requests |-> seen[r]]
    /\ acted \subseteq Requests
    /\ UsersOK /\ TableOK
    /\ \A r \in Requests : RequestOK(r)

\* What any step does to the shared tables, and what it leaves to requests not its own.
TableStep ==
    /\ \A t \in Tokens : born[t] # None => born'[t] = born[t]
    /\ \A i \in SessionIds : sessions'[i] # None =>
          \/ sessions[i] # None /\ sessions'[i].token = sessions[i].token
          \/ born[sessions'[i].token] = None
    /\ ended \subseteq ended' /\ clock' \in Nat /\ clock <= clock'
    /\ \A i \in DOMAIN users : i \in DOMAIN users' /\ users'[i].role = users[i].role

\* The request keeps what it came with and what withSession found for it.
Keeps(q) ==
    /\ form'[q] = form[q] /\ sess'[q] = sess[q] /\ user'[q] = user[q] /\ late'[q] = late[q]
    /\ pc'[q] = pc[q] \/ (pc[q] # "new" /\ pc'[q] \notin Before)
    /\ seen[q] \subseteq seen'[q]

Bystander(q) ==
    /\ Keeps(q) /\ pc'[q] = pc[q] /\ copy'[q] = copy[q] /\ born'[q] = born[q]
    /\ q \in acted' => q \in acted
    /\ InFlight(q) => ActiveAccounts(users') \subseteq seen'[q]

LEMMA OnlyAtStable ==
    ASSUME TableStep, NEW i, NEW t \in Tokens, born[t] # None, OnlyAt(i, t)
    PROVE  \A j \in SessionIds : sessions'[j] # None /\ sessions'[j].token = t => j = i
  BY DEF TableStep, OnlyAt, Live

LEMMA CookieTyped == ASSUME NEW f \in FormType, f.cookie # None PROVE f.cookie \in Tokens
  BY DEF FormType

LEMMA CookieStable ==
    ASSUME AccountsInv, TableStep, NEW q \in Requests, pc[q] # "new", form[q].cookie # None
    PROVE  /\ form[q].cookie \in Tokens /\ born[form[q].cookie] \in Births
           /\ born[form[q].cookie] # None /\ born[form[q].cookie].user \in DOMAIN users
           /\ born'[form[q].cookie] = born[form[q].cookie]
<1>1. form[q] \in FormType /\ born[form[q].cookie] # None /\ form[q].cookie \in Tokens
  BY CookieTyped DEF AccountsInv, RequestOK, CookieOK
<1>2. TableOK
  BY DEF AccountsInv
<1> QED BY <1>1, <1>2 DEF TableOK, TableStep

\* A credential that was dead on arrival stays dead, and its bearer anonymous.
LEMMA LateKeeps ==
    ASSUME AccountsInv, NEW q \in Requests, TableStep,
           form'[q] = form[q], user'[q] = user[q], late'[q] = late[q],
           pc'[q] = pc[q] \/ (pc[q] # "new" /\ pc'[q] \notin {"new", "touch", "user"})
    PROVE  LateOK(q)'
<1> SUFFICES ASSUME late[q], form[q].op # "reset" PROVE LateOK(q)'
  BY DEF LateOK
<1>0. LateOK(q) /\ TableOK
  BY DEF AccountsInv, RequestOK
<1>1. /\ pc[q] # "new" /\ form[q].cookie # None /\ user[q] = None
      /\ pc[q] \notin {"touch", "user"}
      /\ form[q].cookie \in ended \/ clock > born[form[q].cookie].at + AbsoluteTimeout
  BY <1>0 DEF LateOK
<1>2. born[form[q].cookie] \in Births /\ born'[form[q].cookie] = born[form[q].cookie]
  BY <1>1, CookieStable
<1>3. /\ born[form[q].cookie].at + AbsoluteTimeout \in Int /\ clock \in Int
      /\ clock' \in Int /\ clock <= clock'
  BY <1>0, <1>2, AccountsAssumption DEF Births, Times, TableOK, TableStep
<1>4. form[q].cookie \in ended' \/ clock' > born[form[q].cookie].at + AbsoluteTimeout
  BY <1>1, <1>3 DEF TableStep
<1> QED BY <1>1, <1>2, <1>4 DEF LateOK

(* What holds of a request's cookie, session, user and credentials survives   *)
(* every step that leaves the request's own variables alone.                  *)
LEMMA CredentialsKeep ==
    ASSUME AccountsInv, NEW q \in Requests, TableStep, Keeps(q)
    PROVE  SessOK(q)' /\ UserOK(q)' /\ LateOK(q)'
<1>0. RequestOK(q) /\ TableOK
  BY DEF AccountsInv
<1>1. pc'[q] # "new" => pc[q] # "new"
  BY DEF Keeps
<1>2. SessOK(q)'
  <2>1. ASSUME sess[q] # None
        PROVE  /\ born'[form[q].cookie] = born[form[q].cookie]
               /\ OnlyAt(sess[q].id, form[q].cookie)'
    <3>1. /\ pc[q] # "new" /\ form[q].cookie # None /\ OnlyAt(sess[q].id, form[q].cookie)
          /\ sess'[q] = sess[q] /\ form'[q] = form[q]
      BY <1>0, <2>1 DEF RequestOK, SessOK, Keeps
    <3>2. /\ form[q].cookie \in Tokens /\ born[form[q].cookie] # None
          /\ born'[form[q].cookie] = born[form[q].cookie]
      BY <3>1, CookieStable
    <3>3. \A j \in SessionIds : sessions'[j] # None /\ sessions'[j].token = form[q].cookie
                                => j = sess[q].id
      BY <3>1, <3>2, OnlyAtStable
    <3> QED BY <3>1, <3>2, <3>3 DEF OnlyAt, Live
  <2> QED BY <1>0, <2>1 DEF RequestOK, SessOK, Keeps, Before
<1>3. UserOK(q)'
  <2> SUFFICES ASSUME user[q] # None PROVE UserOK(q)'
    BY DEF UserOK, Keeps
  <2>1. pc[q] # "new" /\ form[q].cookie # None /\ user[q].id = born[form[q].cookie].user
    BY <1>0 DEF RequestOK, UserOK, SessOK
  <2>2. user[q].id \in DOMAIN users /\ user[q].id = born'[form[q].cookie].user
    BY <2>1, CookieStable
  <2>3. users'[user[q].id].role = user[q].row.role
    BY <1>0, <2>2 DEF RequestOK, UserOK, TableStep
  <2> QED BY <1>0, <2>2, <2>3 DEF RequestOK, UserOK, Keeps
<1>4. LateOK(q)'
  BY LateKeeps DEF Keeps, Before
<1> QED BY <1>2, <1>3, <1>4

LEMMA BystanderKeeps ==
    ASSUME AccountsInv, NEW q \in Requests, TableStep, Bystander(q)
    PROVE  RequestOK(q)'
<1>0. RequestOK(q) /\ Keeps(q)
  BY DEF AccountsInv, Bystander
<1>1. SessOK(q)' /\ UserOK(q)' /\ LateOK(q)'
  BY <1>0, CredentialsKeep
<1>2. CookieOK(q)'
  <2>1. pc[q] # "new" /\ form[q].cookie # None => born'[form[q].cookie] # None
    BY CookieStable
  <2> QED BY <1>0, <2>1 DEF RequestOK, CookieOK, Bystander, Keeps
<1>3. LetIn(q)'
  BY <1>0 DEF RequestOK, LetIn, Authorised, Bystander, Keeps
<1>4. CopyOK(q)'
  <2>1. ASSUME pc[q] = "delete", form[q].op = "revoke"
        PROVE  born'[copy[q].token] # None /\ OnlyAt(copy[q].id, copy[q].token)'
    <3>1. /\ copy[q].token \in Tokens /\ born[copy[q].token] # None
          /\ OnlyAt(copy[q].id, copy[q].token)
      BY <1>0, <2>1 DEF RequestOK, CopyOK
    <3> QED BY <3>1, OnlyAtStable DEF TableStep, OnlyAt, Live, Bystander
  <2>2. copy[q].id \in DOMAIN users => copy[q].id \in DOMAIN users'
    BY DEF TableStep
  <2> QED BY <1>0, <2>1, <2>2 DEF RequestOK, CopyOK, Bystander, Keeps
<1>5. SeenOK(q)'
  BY <1>0 DEF RequestOK, SeenOK, Bystander, Keeps, InFlight
<1> QED BY <1>1, <1>2, <1>3, <1>4, <1>5 DEF RequestOK

(* A step of one request.                                                     *)
LEMMA RequestStep ==
    ASSUME AccountsInv, NEW r \in Requests,
           late' \in [Requests -> BOOLEAN], seen' = [q \in Requests |-> seen'[q]],
           acted' \subseteq acted \cup {r},
           UsersOK', TableOK', TableStep,
           \A q \in Requests \ {r} : Bystander(q), RequestOK(r)'
    PROVE  AccountsInv'
<1>1. \A q \in Requests \ {r} : RequestOK(q)'
  BY BystanderKeeps
<1> QED BY <1>1 DEF AccountsInv

(* A step of a handler, past requireAuth and its like.                        *)
LEMMA HandlerKeeps ==
    ASSUME AdminInv, AccountsInv, NEW r \in Requests, NEW label \in Handling \cup {"done"},
           pc[r] \in Handling, pc' = [pc EXCEPT ![r] = label],
           UNCHANGED <<form, sess, user, late>>,
           copy' = copy \/ \E x : copy' = [copy EXCEPT ![r] = x],
           acted' = acted \/ acted' = acted \cup {r},
           UsersOK', TableOK', TableStep,
           \A q \in Requests \ {r} : born'[q] = born[q],
           label # "done" => born'[r] = born[r],
           seen' = [q \in Requests |-> seen'[q]],
           \A q \in Requests : /\ seen[q] \subseteq seen'[q]
                               /\ InFlight(q) => ActiveAccounts(users') \subseteq seen'[q],
           CopyOK(r)',
           r \in acted' /\ form[r].op = "login" =>
              [email |-> form[r].email, pw |-> form[r].pw] \in seen[r]
    PROVE  AccountsInv'
<1>a. /\ pc \in [Requests -> Labels] /\ copy = [q \in Requests |-> copy[q]]
      /\ RequestOK(r) /\ late \in [Requests -> BOOLEAN]
  BY DEF AdminInv, Typed, AccountsInv
<1>b. pc'[r] = label /\ label \notin Before /\ pc[r] \notin {"new", "done"}
  BY <1>a DEF Handling, Before
<1>1. \A q \in Requests \ {r} : Bystander(q)
  <2>1. \A q \in Requests \ {r} : pc'[q] = pc[q] /\ copy'[q] = copy[q]
    BY <1>a
  <2> QED BY <2>1 DEF Bystander, Keeps
<1>2. RequestOK(r)'
  <2>1. SessOK(r)' /\ UserOK(r)' /\ LateOK(r)'
    BY <1>b, CredentialsKeep DEF Keeps
  <2>2. CookieOK(r)'
    <3>1. form[r].cookie # None => born'[form[r].cookie] # None
      BY <1>b, CookieStable
    <3> QED BY <1>a, <1>b, <3>1 DEF RequestOK, CookieOK, Before
  <2>3. LetIn(r)'
    BY <1>a, <1>b DEF RequestOK, LetIn, Authorised
  <2>4. SeenOK(r)'
    <3>1. InFlight(r) /\ ActiveAccounts(users') \subseteq seen'[r] /\ seen[r] \subseteq seen'[r]
      BY <1>b DEF InFlight, Handling
    <3> QED BY <1>a, <3>1 DEF RequestOK, SeenOK
  <2> QED BY <2>1, <2>2, <2>3, <2>4 DEF RequestOK
<1> QED BY <1>a, <1>1, <1>2, RequestStep

\* Rows go, or keep all but their lastSeen.
LEMMA ShrunkTables ==
    ASSUME AdminInv, AccountsInv, UNCHANGED <<users, clock, born, ended>>,
           sessions' \in [SessionIds -> Sessions \cup {None}],
           \A i \in SessionIds : sessions'[i] # None =>
              /\ Live(i) /\ sessions'[i].token = sessions[i].token
              /\ sessions'[i].user = sessions[i].user
              /\ sessions'[i].expires = sessions[i].expires
    PROVE  UsersOK' /\ TableOK' /\ TableStep
<1>1. UsersOK /\ TableOK
  BY DEF AccountsInv
<1>2. UsersOK'
  BY <1>1 DEF UsersOK
<1>3. TableOK'
  <2>1. ASSUME NEW i \in SessionIds, sessions'[i] # None
        PROVE  RowOK(sessions[i])' /\ OnlyAt(i, sessions[i].token)'
    <3>1. RowOK(sessions[i]) /\ OnlyAt(i, sessions[i].token) /\ sessions'[i] \in Sessions
      BY <1>1, <2>1 DEF TableOK
    <3> QED BY <2>1, <3>1 DEF RowOK, OnlyAt, Live
  <2> QED BY <1>1, <2>1 DEF TableOK, Live
<1>4. TableStep
  BY <1>1 DEF TableOK, TableStep, Live
<1> QED BY <1>2, <1>3, <1>4

LEMMA SameTables ==
    ASSUME AdminInv, AccountsInv, UNCHANGED <<users, sessions, clock, born, ended>>
    PROVE  UsersOK' /\ TableOK' /\ TableStep
<1>1. sessions \in [SessionIds -> Sessions \cup {None}]
  BY DEF AccountsInv, TableOK
<1> QED BY <1>1, ShrunkTables DEF Live

\* A handler's statement that reads, or fails.
LEMMA QuietStep ==
    ASSUME AdminInv, AccountsInv, NEW r \in Requests, NEW label \in Handling \cup {"done"},
           pc[r] \in Handling, pc' = [pc EXCEPT ![r] = label],
           UNCHANGED <<users, sessions, clock, born, ended, form, sess, user, late, seen>>,
           copy' = copy \/ \E x : copy' = [copy EXCEPT ![r] = x],
           acted' = acted \/ acted' = acted \cup {r},
           CopyOK(r)',
           r \in acted' /\ form[r].op = "login" =>
              [email |-> form[r].email, pw |-> form[r].pw] \in seen[r]
    PROVE  AccountsInv'
<1>1. UsersOK' /\ TableOK' /\ TableStep
  BY SameTables
<1>2. seen' = [q \in Requests |-> seen'[q]]
  BY DEF AccountsInv
<1>3. \A q \in Requests : /\ seen[q] \subseteq seen'[q]
                          /\ InFlight(q) => ActiveAccounts(users') \subseteq seen'[q]
  BY DEF AccountsInv, RequestOK, SeenOK
<1> QED BY <1>1, <1>2, <1>3, HandlerKeeps

\* The same, going on to a statement that needs nothing of what was copied.
LEMMA PlainStep ==
    ASSUME AdminInv, AccountsInv, NEW r \in Requests,
           NEW label \in (Handling \ {"start", "delete"}) \cup {"done"}, pc[r] \in Handling,
           label = "activate" => form[r].op = "deactivate",
           pc' = [pc EXCEPT ![r] = label],
           UNCHANGED <<users, sessions, clock, born, ended, form, sess, user, late, seen>>,
           copy' = copy \/ \E x : copy' = [copy EXCEPT ![r] = x],
           acted' = acted \/ (form[r].op # "login" /\ acted' = acted \cup {r})
    PROVE  AccountsInv'
<1>1. pc'[r] = label
  BY DEF AdminInv, Typed
<1>2. CopyOK(r)'
  BY <1>1 DEF CopyOK
<1>3. r \in acted' /\ form[r].op = "login" =>
         [email |-> form[r].email, pw |-> form[r].pw] \in seen[r]
  BY DEF AccountsInv, RequestOK, SeenOK
<1> QED BY <1>2, <1>3, QuietStep

LEMMA ReadsKeep ==
    ASSUME AdminInv, AccountsInv, NEW r \in Requests,
           \/ LookupEmail(r) \/ CountUsers(r) \/ DeactivateLookup(r)
           \/ ResetLookup(r) \/ DeleteSetting(r)
    PROVE  AccountsInv'
<1> USE DEF tables, copies, env, history, At, Go
<1>1. CASE LookupEmail(r)
  <2>1. PICK label \in {"done", "count", "insert"} : pc' = [pc EXCEPT ![r] = label]
    BY <1>1 DEF LookupEmail
  <2> QED BY <1>1, <2>1, PlainStep DEF LookupEmail, Handling
<1>2. CASE CountUsers(r)
  BY <1>2, PlainStep DEF CountUsers, Handling
<1>3. CASE DeactivateLookup(r)
  <2>1. PICK label \in {"done", "activate"} : pc' = [pc EXCEPT ![r] = label]
    BY <1>3 DEF DeactivateLookup
  <2>2. copy' = copy \/ \E x : copy' = [copy EXCEPT ![r] = x]
    BY <1>3 DEF DeactivateLookup
  <2> QED BY <1>3, <2>1, <2>2, PlainStep DEF DeactivateLookup, Handling
<1>4. CASE ResetLookup(r)
  <2>1. PICK label \in {"done", "forget", "consume"} : pc' = [pc EXCEPT ![r] = label]
    BY <1>4 DEF ResetLookup
  <2>2. acted' = acted \/ acted' = acted \cup {r}
    BY <1>4 DEF ResetLookup
  <2> QED BY <1>4, <2>1, <2>2, PlainStep DEF ResetLookup, Handling
<1>5. CASE DeleteSetting(r)
  <2>1. PICK label \in {"done", "write"} : pc' = [pc EXCEPT ![r] = label]
    BY <1>5 DEF DeleteSetting, AfterDeleteSetting
  <2> QED BY <1>5, <2>1, PlainStep DEF DeleteSetting, Handling
<1> QED BY <1>1, <1>2, <1>3, <1>4, <1>5

LEMMA LoginKeeps ==
    ASSUME AdminInv, AccountsInv, NEW r \in Requests, LoginLookup(r)
    PROVE  AccountsInv'
<1> DEFINE f == form[r]
           found == {i \in UsersWithEmail(f.email) : users[i].active /\ users[i].pw = f.pw}
           i == CHOOSE k \in found : TRUE
<1>0. /\ pc[r] = "lookup" /\ f.op = "login" /\ pc \in [Requests -> Labels]
      /\ UNCHANGED <<users, sessions, clock, born, ended, form, sess, user, late, seen>>
      /\ copy = [q \in Requests |-> copy[q]]
  BY DEF LoginLookup, At, tables, env, AdminInv, Typed
<1>1. CASE found = {}
  <2>1. pc' = [pc EXCEPT ![r] = "done"] /\ UNCHANGED <<copy, acted>>
    BY <1>1 DEF LoginLookup, Go
  <2> HIDE DEF f, found
  <2> QED BY <1>0, <2>1, PlainStep DEF Handling
<1>2. CASE found # {}
  <2>1. /\ pc' = [pc EXCEPT ![r] = "start"] /\ copy' = [copy EXCEPT ![r] = [id |-> i]]
        /\ acted' = acted \cup {r}
    BY <1>2 DEF LoginLookup, Go
  <2>2. i \in found
    BY <1>2
  <2>3. i \in DOMAIN users /\ [email |-> f.email, pw |-> f.pw] \in ActiveAccounts(users)
    BY <2>2 DEF UsersWithEmail, ActiveAccounts
  <2>4. [email |-> f.email, pw |-> f.pw] \in seen[r]
    BY <1>0, <2>3 DEF AccountsInv, RequestOK, SeenOK, InFlight
  <2> HIDE DEF i, found
  <2>5. CopyOK(r)'
    BY <1>0, <2>1, <2>3 DEF CopyOK
  <2>6. \E x : copy' = [copy EXCEPT ![r] = x]
    BY <2>1
  <2>7. pc[r] \in Handling /\ "start" \in Handling
    BY <1>0 DEF Handling
  <2> QED BY <1>0, <2>1, <2>4, <2>5, <2>6, <2>7, QuietStep
<1> QED BY <1>1, <1>2

LEMMA FindOwnedKeeps ==
    ASSUME AdminInv, AccountsInv, NEW r \in Requests, FindOwnedSession(r)
    PROVE  AccountsInv'
<1> DEFINE i == form[r].id
<1>0. /\ pc[r] = "lookup" /\ form[r].op = "revoke" /\ pc \in [Requests -> Labels]
      /\ UNCHANGED <<users, sessions, clock, born, ended, form, sess, user, late, seen, acted>>
      /\ copy = [q \in Requests |-> copy[q]] /\ TableOK
  BY DEF FindOwnedSession, At, tables, env, history, AdminInv, Typed, AccountsInv
<1>1. CASE i \notin OwnSessions(user[r].id)
  <2>1. pc' = [pc EXCEPT ![r] = "done"] /\ UNCHANGED copy
    BY <1>1 DEF FindOwnedSession, Go
  <2> QED BY <1>0, <2>1, PlainStep DEF Handling
<1>2. CASE i \in OwnSessions(user[r].id)
  <2>1. /\ pc' = [pc EXCEPT ![r] = "delete"]
        /\ copy' = [copy EXCEPT ![r] = [id |-> i, token |-> sessions[i].token]]
    BY <1>2 DEF FindOwnedSession, Go
  <2>2. i \in SessionIds /\ Live(i)
    BY <1>2 DEF OwnSessions
  <2>3. /\ sessions[i].token \in Tokens /\ born[sessions[i].token] # None
        /\ OnlyAt(i, sessions[i].token)
    BY <1>0, <2>2 DEF TableOK, RowOK, Sessions
  <2> HIDE DEF i
  <2>4. /\ pc'[r] = "delete" /\ copy'[r] = [id |-> i, token |-> sessions[i].token]
    BY <1>0, <2>1
  <2>5. OnlyAt(copy[r].id, copy[r].token)'
    BY <1>0, <2>3, <2>4 DEF OnlyAt, Live
  <2>6. CopyOK(r)'
    BY <1>0, <2>2, <2>3, <2>4, <2>5 DEF CopyOK
  <2>7. \E x : copy' = [copy EXCEPT ![r] = x]
    BY <2>1
  <2>8. pc[r] \in Handling /\ "delete" \in Handling
    BY <1>0 DEF Handling
  <2> QED BY <1>0, <2>1, <2>6, <2>7, <2>8, QuietStep
<1> QED BY <1>1, <1>2

(* Statements that delete rows, by ids that may be stale by now, and end      *)
(* tokens: no row left may have one of them.                                  *)
LEMMA DeletedTables ==
    ASSUME AdminInv, AccountsInv, NEW r \in Requests, NEW ids, NEW meant,
           DeleteSessions(r, ids, meant),
           \A t \in meant : /\ t \in Tokens /\ born[t] # None
                            /\ \A i \in SessionIds : Live(i) /\ sessions[i].token = t => i \in ids
    PROVE  UsersOK' /\ TableOK' /\ TableStep
<1>0. /\ sessions' = [i \in SessionIds |-> IF i \in ids THEN None ELSE sessions[i]]
      /\ ended' = ended \cup meant /\ UNCHANGED <<users, clock, born>>
      /\ UsersOK /\ TableOK
  BY DEF DeleteSessions, env, AccountsInv
<1>1. \A i \in SessionIds : sessions'[i] # None => Live(i) /\ sessions'[i] = sessions[i] /\ i \notin ids
  BY <1>0 DEF Live
<1>2. UsersOK'
  BY <1>0 DEF UsersOK
<1>3. TableStep
  BY <1>0, <1>1 DEF TableStep, TableOK, Live
<1>4. TableOK'
  <2>1. sessions' \in [SessionIds -> Sessions \cup {None}]
    BY <1>0 DEF TableOK
  <2>2. ended' \subseteq {t \in Tokens : born'[t] # None}
    BY <1>0 DEF TableOK
  <2>3. ASSUME NEW i \in SessionIds, sessions'[i] # None
        PROVE  RowOK(sessions[i])' /\ OnlyAt(i, sessions[i].token)'
    <3>1. RowOK(sessions[i]) /\ OnlyAt(i, sessions[i].token)
      BY <1>0, <1>1, <2>3 DEF TableOK
    <3>2. sessions[i].token \notin meant
      BY <1>1, <2>3
    <3> QED BY <1>0, <1>1, <2>3, <3>1, <3>2 DEF RowOK, OnlyAt, Live
  <2> QED BY <1>0, <2>1, <2>2, <2>3 DEF TableOK, Live
<1> QED BY <1>2, <1>3, <1>4

LEMMA DeleteKeeps ==
    ASSUME AdminInv, AccountsInv, NEW r \in Requests,
           NEW label \in {"start", "done"}, NEW ids, NEW meant,
           pc[r] = "delete", pc' = [pc EXCEPT ![r] = label],
           label = "start" => form[r].op = "password", form[r].op # "login",
           DeleteSessions(r, ids, meant),
           \A t \in meant : /\ t \in Tokens /\ born[t] # None
                            /\ \A i \in SessionIds : Live(i) /\ sessions[i].token = t => i \in ids
    PROVE  AccountsInv'
<1>1. UsersOK' /\ TableOK' /\ TableStep
  BY DeletedTables
<1>2. /\ UNCHANGED <<users, born, form, sess, user, copy, late, seen>>
      /\ acted' = acted \cup {r} /\ pc'[r] = label
  BY DEF DeleteSessions, copies, AdminInv, Typed
<1>3. \A q \in Requests : /\ seen[q] \subseteq seen'[q]
                          /\ InFlight(q) => ActiveAccounts(users') \subseteq seen'[q]
  BY <1>2 DEF AccountsInv, RequestOK, SeenOK
<1>4. CopyOK(r)'
  BY <1>2 DEF CopyOK
<1>5. seen' = [q \in Requests |-> seen'[q]]
  BY <1>2 DEF AccountsInv
<1>6. pc[r] \in Handling /\ label \in Handling \cup {"done"}
  BY DEF Handling
<1> QED BY <1>1, <1>2, <1>3, <1>4, <1>5, <1>6, HandlerKeeps

LEMMA EndingsKeep ==
    ASSUME AdminInv, AccountsInv, NEW r \in Requests,
           Logout(r) \/ RevokeSession(r) \/ RevokeAllOthers(r) \/ DropOldSession(r)
    PROVE  AccountsInv'
<1>0. pc[r] = "delete" /\ RequestOK(r) /\ TableOK
  BY DEF Logout, RevokeSession, RevokeAllOthers, DropOldSession, At, AccountsInv
<1>a. ASSUME form[r].op \in {"logout", "password"}, NEW label \in {"start", "done"},
             label = "start" => form[r].op = "password",
             DeleteSessions(r, {sess[r].id}, {form[r].cookie}), Go(r, label)
      PROVE  AccountsInv'
  <2> DEFINE ids == {sess[r].id}
             meant == {form[r].cookie}
  <2>1. user[r] # None /\ form[r].op # "login"
    BY <1>0, <1>a DEF RequestOK, LetIn, Authorised, NeedsLogin, Handling
  <2>2. /\ form[r] \in FormType /\ form[r].cookie # None /\ born[form[r].cookie] # None
        /\ OnlyAt(sess[r].id, form[r].cookie)
    BY <1>0, <2>1 DEF RequestOK, UserOK, SessOK, CookieOK
  <2>3. form[r].cookie \in Tokens
    BY <2>2, CookieTyped
  <2>4. \A t \in meant :
           /\ t \in Tokens /\ born[t] # None
           /\ \A i \in SessionIds : Live(i) /\ sessions[i].token = t => i \in ids
    BY <2>2, <2>3 DEF OnlyAt
  <2>5. pc' = [pc EXCEPT ![r] = label] /\ DeleteSessions(r, ids, meant)
    BY <1>a DEF Go
  <2> HIDE DEF ids, meant
  <2> QED BY <1>0, <1>a, <2>1, <2>2, <2>3, <2>4, <2>5, DeleteKeeps
<1>1. CASE Logout(r)
  BY <1>1, <1>a DEF Logout, At
<1>2. CASE DropOldSession(r)
  BY <1>2, <1>a DEF DropOldSession, At
<1>3. CASE RevokeSession(r)
  <2> DEFINE ids == {copy[r].id}
             meant == {copy[r].token}
  <2>1. form[r].op = "revoke" /\ DeleteSessions(r, ids, meant)
    BY <1>3 DEF RevokeSession, At
  <2>2. /\ copy[r].token \in Tokens /\ born[copy[r].token] # None
        /\ OnlyAt(copy[r].id, copy[r].token)
    BY <1>0, <2>1 DEF RequestOK, CopyOK
  <2>3. \A t \in meant :
           /\ t \in Tokens /\ born[t] # None
           /\ \A i \in SessionIds : Live(i) /\ sessions[i].token = t => i \in ids
    BY <2>2 DEF OnlyAt
  <2>4. pc' = [pc EXCEPT ![r] = "done"]
    BY <1>3 DEF RevokeSession, Go
  <2> HIDE DEF ids, meant
  <2> QED BY <1>0, <2>1, <2>2, <2>3, <2>4, DeleteKeeps
<1>4. CASE RevokeAllOthers(r)
  <2> DEFINE others == OwnSessions(user[r].id) \ {sess[r].id}
             meant == {sessions[i].token : i \in others}
  <2>1. form[r].op = "revokeOthers" /\ DeleteSessions(r, others, meant)
    BY <1>4 DEF RevokeAllOthers, At
  <2>2. others \subseteq {i \in SessionIds : Live(i)}
    BY DEF OwnSessions
  <2>3. ASSUME NEW t \in meant
        PROVE  /\ t \in Tokens /\ born[t] # None
               /\ \A i \in SessionIds : Live(i) /\ sessions[i].token = t => i \in others
    <3>1. PICK i \in others : t = sessions[i].token
      OBVIOUS
    <3>2. RowOK(sessions[i]) /\ OnlyAt(i, t)
      BY <1>0, <2>2, <3>1 DEF TableOK
    <3> HIDE DEF others
    <3> QED BY <3>1, <3>2 DEF RowOK, Sessions, OnlyAt
  <2>4. pc' = [pc EXCEPT ![r] = "done"]
    BY <1>4 DEF RevokeAllOthers, Go
  <2> HIDE DEF others, meant
  <2> QED BY <1>0, <2>1, <2>3, <2>4, DeleteKeeps
<1> QED BY <1>1, <1>2, <1>3, <1>4

(* startSession: the token is new, wherever the row goes.                     *)
LEMMA StartSessionKeeps ==
    ASSUME AdminInv, AccountsInv, NEW r \in Requests, StartSession(r),
           DOMAIN users \subseteq UserIds
    PROVE  AccountsInv'
<1> DEFINE u == IF form[r].op = "password" THEN user[r].id ELSE copy[r].id
           n == NextSessionId
           row == [token |-> r, user |-> u, lastSeen |-> clock, expires |-> clock + AbsoluteTimeout]
           birth == [user |-> u, at |-> clock]
<1>0. /\ pc[r] = "start" /\ pc' = [pc EXCEPT ![r] = "done"]
      /\ sessions' = [sessions EXCEPT ![n] = row] /\ born' = [born EXCEPT ![r] = birth]
      /\ UNCHANGED <<users, clock, form, sess, user, copy, ended, late, seen, acted>>
      /\ RequestOK(r) /\ TableOK /\ UsersOK /\ pc \in [Requests -> Labels]
  BY DEF StartSession, Go, copies, env, AccountsInv, AdminInv, Typed
<1>1. born[r] = None /\ r \in Tokens
  BY <1>0 DEF RequestOK, CookieOK, Tokens
<1>2. u \in DOMAIN users
  <2>1. CASE form[r].op = "password"
    <3>1. user[r] # None
      BY <1>0, <2>1 DEF RequestOK, LetIn, Authorised, NeedsLogin, Handling
    <3>2. form[r].cookie # None /\ user[r].id = born[form[r].cookie].user
      BY <1>0, <3>1 DEF RequestOK, UserOK, SessOK
    <3>3. form[r].cookie \in Tokens /\ born[form[r].cookie] # None
      BY <1>0, <3>2, CookieTyped DEF RequestOK, CookieOK
    <3> QED BY <1>0, <2>1, <3>2, <3>3 DEF TableOK
  <2>2. CASE form[r].op # "password"
    BY <1>0, <2>2 DEF RequestOK, CopyOK
  <2> QED BY <2>1, <2>2
<1>3. clock \in Nat /\ AbsoluteTimeout \in Nat
  BY <1>0, AccountsAssumption DEF TableOK
<1> HIDE DEF u, n
<1>4. row \in Sessions /\ birth \in Births /\ birth # None
  BY <1>1, <1>2, <1>3, AccountsAssumption DEF Sessions, Births, Times
<1>5. /\ born' \in [Tokens -> Births \cup {None}] /\ born'[r] = birth
      /\ \A t \in Tokens \ {r} : born'[t] = born[t]
  BY <1>0, <1>1, <1>4 DEF TableOK
<1>6. ASSUME NEW i \in SessionIds
      PROVE  (i = n /\ sessions'[i] = row) \/ (i # n /\ sessions'[i] = sessions[i])
  BY <1>0 DEF TableOK
<1>7. TableStep
  BY <1>0, <1>1, <1>3, <1>5, <1>6 DEF TableStep
<1>8. TableOK'
  <2>1. sessions' \in [SessionIds -> Sessions \cup {None}]
    BY <1>0, <1>4 DEF TableOK
  <2>2. \A t \in Tokens : born'[t] # None => born'[t].user \in DOMAIN users'
    BY <1>0, <1>2, <1>5 DEF TableOK
  <2>3. r \notin ended /\ ended' \subseteq {t \in Tokens : born'[t] # None}
    BY <1>0, <1>1, <1>5 DEF TableOK
  <2>4. \A i \in SessionIds : Live(i) => sessions[i].token \in Tokens \ {r} /\ RowOK(sessions[i])
    BY <1>0, <1>1 DEF TableOK, RowOK, Sessions
  <2>5. ASSUME NEW i \in SessionIds, sessions'[i] # None
        PROVE  RowOK(sessions[i])'
    <3>1. CASE sessions'[i] = row
      BY <1>0, <1>4, <1>5, <2>3, <3>1 DEF RowOK
    <3>2. CASE sessions'[i] = sessions[i]
      BY <1>0, <1>5, <2>4, <2>5, <3>2 DEF RowOK, Live
    <3> QED BY <1>6, <3>1, <3>2
  <2>6. ASSUME NEW i \in SessionIds, sessions'[i] # None
        PROVE  OnlyAt(i, sessions[i].token)'
    <3> SUFFICES ASSUME NEW j \in SessionIds, sessions'[j] # None,
                        sessions'[j].token = sessions'[i].token
                 PROVE  j = i
      BY DEF OnlyAt, Live
    <3>1. CASE sessions'[i] = row /\ sessions'[j] = row
      <4>1. \A k \in SessionIds : Live(k) => sessions[k] # row
        BY <2>4
      <4>2. \A k \in SessionIds : sessions'[k] = row => k = n
        BY <1>4, <1>6, <4>1, AccountsAssumption DEF Live
      <4> QED BY <3>1, <4>2
    <3>2. CASE sessions'[i] # row /\ sessions'[j] # row
      BY <1>0, <1>6, <2>6, <3>2 DEF TableOK, OnlyAt, Live
    <3>3. CASE (sessions'[i] = row) # (sessions'[j] = row)
      BY <1>6, <2>4, <2>6, <3>3 DEF Live
    <3> QED BY <3>1, <3>2, <3>3
  <2> QED BY <1>0, <1>5, <2>1, <2>2, <2>3, <2>5, <2>6 DEF TableOK, Live
<1>9. UsersOK'
  BY <1>0 DEF UsersOK
<1>10. CopyOK(r)'
  BY <1>0 DEF CopyOK
<1>11. \A q \in Requests : /\ seen[q] \subseteq seen'[q]
                           /\ InFlight(q) => ActiveAccounts(users') \subseteq seen'[q]
  BY <1>0 DEF AccountsInv, RequestOK, SeenOK
<1>12. seen' = [q \in Requests |-> seen'[q]] /\ \A q \in Requests \ {r} : born'[q] = born[q]
  BY <1>0, <1>5 DEF AccountsInv, Tokens
<1>13. r \in acted' /\ form[r].op = "login" =>
          [email |-> form[r].email, pw |-> form[r].pw] \in seen[r]
  BY <1>0 DEF RequestOK, SeenOK
<1> QED BY <1>0, <1>7, <1>8, <1>9, <1>10, <1>11, <1>12, <1>13, HandlerKeeps DEF Handling

(* A change of the accounts, seen by every request in flight.                 *)
LEMMA AccountsStep ==
    ASSUME AdminInv, AccountsInv, NEW r \in Requests, NEW label \in Handling \cup {"done"},
           pc[r] \in Handling, pc' = [pc EXCEPT ![r] = label],
           UNCHANGED <<sessions, clock, born, ended, form, sess, user, late>>,
           Observe(users'), UsersOK',
           \A i \in DOMAIN users : i \in DOMAIN users' /\ users'[i].role = users[i].role,
           copy' = copy \/ \E x : copy' = [copy EXCEPT ![r] = x],
           acted' = acted \cup {r}, form[r].op # "login",
           CopyOK(r)'
    PROVE  AccountsInv'
<1>1. TableOK
  BY DEF AccountsInv
<1>2. TableOK'
  BY <1>1 DEF TableOK, RowOK, OnlyAt, Live
<1>3. TableStep
  BY <1>1 DEF TableOK, TableStep
<1>4. /\ seen' = [q \in Requests |-> seen'[q]]
      /\ \A q \in Requests : /\ seen[q] \subseteq seen'[q]
                             /\ InFlight(q) => ActiveAccounts(users') \subseteq seen'[q]
  <2> DEFINE new == ActiveAccounts(users')
  <2>1. seen' = [q \in Requests |-> IF InFlight(q) THEN seen[q] \cup new ELSE seen[q]]
    BY DEF Observe
  <2> HIDE DEF new
  <2>2. /\ seen' = [q \in Requests |-> seen'[q]]
        /\ \A q \in Requests : seen[q] \subseteq seen'[q] /\ (InFlight(q) => new \subseteq seen'[q])
    BY <2>1
  <2> QED BY <2>2 DEF new
<1> QED BY <1>2, <1>3, <1>4, HandlerKeeps

LEMMA UpdateAccountKeeps ==
    ASSUME AdminInv, AccountsInv, NEW r \in Requests,
           ChangePassword(r) \/ ResetPassword(r) \/ SetUserActive(r)
    PROVE  AccountsInv'
<1>0. /\ UsersOK /\ users \in Seq(Users) /\ TypedAt(r) /\ RequestOK(r) /\ pc \in [Requests -> Labels]
  BY DEF AccountsInv, AdminInv, Typed
<1>1. PICK label \in {"delete", "clear", "done"} :
        /\ pc' = [pc EXCEPT ![r] = label]
        /\ label = "delete" => form[r].op = "password"
        /\ pc[r] \in {"write", "activate"}
        /\ pc[r] = "write" => form[r].op \in {"password", "reset"}
  BY DEF ChangePassword, ResetPassword, SetUserActive, At, Go
<1>2. /\ Observe(users') /\ acted' = acted \cup {r}
      /\ UNCHANGED <<sessions, clock, born, ended, form, sess, user, copy, late>>
  BY DEF ChangePassword, ResetPassword, SetUserActive, UpdatePasswordHash, copies, env
<1>3. /\ DOMAIN users' = DOMAIN users
      /\ \A i \in DOMAIN users : /\ users'[i].role = users[i].role
                                 /\ users'[i].email = users[i].email
  <2>1. form[r] \in FormType
    BY <1>0, <1>1 DEF RequestOK, CookieOK
  <2>2. CASE ChangePassword(r) \/ ResetPassword(r)
    <3>1. PICK u : users' = [users EXCEPT ![u].pw = form[r].new]
      BY <2>2 DEF ChangePassword, ResetPassword, UpdatePasswordHash
    <3>2. form[r].new \in Passwords
      BY <2>1 DEF FormType
    <3> QED BY <1>0, <3>1, <3>2, UpdatePw
  <2>3. CASE SetUserActive(r)
    <3> DEFINE u == form[r].id
               b == copy[r].active
    <3>1. users' = [users EXCEPT ![u].active = b] /\ b \in BOOLEAN
      BY <1>0, <2>3 DEF SetUserActive, TypedAt
    <3> HIDE DEF u, b
    <3> QED BY <1>0, <3>1, UpdateActive
  <2> QED BY <2>2, <2>3
<1>4. UsersOK'
  BY <1>0, <1>3 DEF UsersOK
<1>5. CopyOK(r)'
  BY <1>0, <1>1, <1>2 DEF CopyOK
<1>6. form[r].op # "login"
  <2>1. pc[r] = "activate" => form[r].op = "deactivate"
    BY <1>0 DEF RequestOK, CopyOK
  <2> QED BY <1>1, <2>1
<1>7. pc[r] \in Handling /\ label \in Handling \cup {"done"}
  BY <1>1 DEF Handling
<1> QED BY <1>1, <1>2, <1>3, <1>4, <1>5, <1>6, <1>7, AccountsStep

LEMMA InsertKeeps ==
    ASSUME AdminInv, AccountsInv, NEW r \in Requests, NEW role \in {"admin", "member"},
           NEW next \in {"start", "done"}, CreateUser(r, role, next),
           pc[r] = "insert", form[r].op \in {"signup", "create"},
           next = "start" => form[r].op = "signup"
    PROVE  AccountsInv'
<1>0. /\ UsersOK /\ users \in Seq(Users) /\ RequestOK(r)
      /\ pc \in [Requests -> Labels] /\ copy = [q \in Requests |-> copy[q]]
  BY DEF AccountsInv, AdminInv, Typed
<1>2. CASE UsersWithEmail(form[r].email) # {}
  <2>1. /\ pc' = [pc EXCEPT ![r] = "done"]
        /\ UNCHANGED <<users, sessions, clock, born, ended, form, sess, user, late, seen, copy, acted>>
    BY <1>2 DEF CreateUser, Go, env
  <2> QED BY <1>0, <2>1, PlainStep DEF Handling
<1>3. CASE UsersWithEmail(form[r].email) = {}
  <2> DEFINE new == [email |-> form[r].email, pw |-> form[r].pw, role |-> role, active |-> TRUE]
  <2>1. /\ users' = Append(users, new) /\ pc' = [pc EXCEPT ![r] = next]
        /\ copy' = [copy EXCEPT ![r] = [id |-> Len(users) + 1]]
        /\ acted' = acted \cup {r} /\ Observe(users')
        /\ UNCHANGED <<sessions, clock, born, ended, form, sess, user, late>>
    BY <1>3 DEF CreateUser, Go, env
  <2>2. new \in Users
    BY <1>0 DEF Users, FormType, RequestOK, CookieOK
  <2>3. \A i \in DOMAIN users : users[i].email # new.email
    BY <1>3 DEF UsersWithEmail
  <2> HIDE DEF new
  <2>4. /\ users' \in Seq(Users) /\ Len(users') = Len(users) + 1
        /\ \A i \in 1..Len(users) : users'[i] = users[i]
        /\ users'[Len(users) + 1] = new
    BY <1>0, <2>1, <2>2, AppendProperties
  <2>5. /\ DOMAIN users = 1..Len(users) /\ DOMAIN users' = 1..(Len(users) + 1)
        /\ Len(users) \in Nat
    BY <1>0, <2>4, LenProperties
  <2>6. /\ Len(users) + 1 \in DOMAIN users'
        /\ \A i \in DOMAIN users : i \in DOMAIN users' /\ users'[i].role = users[i].role
    BY <2>4, <2>5
  <2>7. UsersOK'
    <3>1. \A i \in DOMAIN users' : i \in DOMAIN users \/ i = Len(users) + 1
      BY <2>5
    <3> QED BY <1>0, <2>3, <2>4, <2>5, <3>1 DEF UsersOK
  <2>8. CopyOK(r)'
    <3>1. pc'[r] = next /\ copy'[r].id = Len(users) + 1 /\ form'[r] = form[r]
      BY <1>0, <2>1
    <3> QED BY <2>6, <3>1 DEF CopyOK
  <2>9. /\ pc[r] \in Handling /\ next \in Handling \cup {"done"}
        /\ \E x : copy' = [copy EXCEPT ![r] = x]
    BY <1>0, <2>1 DEF Handling
  <2> QED BY <2>1, <2>6, <2>7, <2>8, <2>9, AccountsStep
<1> QED BY <1>2, <1>3

LEMMA CreateKeeps ==
    ASSUME AdminInv, AccountsInv, NEW r \in Requests, SignUp(r) \/ Invite(r)
    PROVE  AccountsInv'
<1>0. pc[r] = "insert" /\ form[r] \in FormType /\ TypedAt(r)
  BY DEF SignUp, Invite, At, AccountsInv, RequestOK, CookieOK, AdminInv, Typed
<1>1. CASE SignUp(r)
  <2>1. form[r].op = "signup" /\ CreateUser(r, copy[r].role, "start")
    BY <1>1 DEF SignUp, At
  <2>2. copy[r].role \in {"admin", "member"}
    BY <1>0, <2>1 DEF TypedAt
  <2> QED BY <1>0, <2>1, <2>2, InsertKeeps
<1>2. CASE Invite(r)
  <2>1. form[r].op = "create" /\ CreateUser(r, form[r].role, "done")
    BY <1>2 DEF Invite, At
  <2>2. form[r].role \in {"admin", "member"}
    BY <1>0 DEF FormType
  <2> QED BY <1>0, <2>1, <2>2, InsertKeeps
<1> QED BY <1>1, <1>2

(* withSession.                                                               *)
LEMMA EnterPc ==
    ASSUME AdminInv, NEW r \in Requests, NEW f \in FormType, NEW u, Enter(r, f, u)
    PROVE  /\ pc'[r] \in {"done", "lookup", "delete", "write"}
           /\ pc'[r] # "done" => Admitted(f, u)
           /\ pc'[r] = "delete" => f.op \in {"logout", "revokeOthers"}
           /\ \A q \in Requests \ {r} : pc'[q] = pc[q]
<1> DEFINE next == IF Admitted(f, u) THEN FirstStatement[f.op] ELSE "done"
<1>1. f.op \in Ops
  BY DEF FormType
<1>2. /\ next \in {"done", "lookup", "delete", "write"}
      /\ next # "done" => Admitted(f, u)
      /\ next = "delete" => f.op \in {"logout", "revokeOthers"}
  BY <1>1 DEF FirstStatement, Ops
<1>3. pc' = [pc EXCEPT ![r] = next] /\ pc \in [Requests -> Labels]
  BY DEF Enter, Go, AdminInv, Typed
<1> HIDE DEF next
<1> QED BY <1>2, <1>3

\* A request goes on to its handler, as the user found or anonymous.
LEMMA EntryKeeps ==
    ASSUME AdminInv, AccountsInv, NEW r \in Requests, pc[r] \in Before,
           form'[r] \in FormType, form'[r].cookie # None => born[form'[r].cookie] # None,
           Enter(r, form'[r], IF user'[r] = None THEN None ELSE user'[r].row),
           UNCHANGED <<users, clock, born, copy, acted>>,
           UsersOK', TableOK', TableStep,
           late' \in [Requests -> BOOLEAN], seen' = [q \in Requests |-> seen'[q]],
           ActiveAccounts(users) \subseteq seen'[r],
           \A q \in Requests \ {r} :
              /\ form'[q] = form[q] /\ sess'[q] = sess[q] /\ user'[q] = user[q]
              /\ late'[q] = late[q] /\ seen'[q] = seen[q],
           SessOK(r)', UserOK(r)', LateOK(r)'
    PROVE  AccountsInv'
<1> DEFINE u == IF user'[r] = None THEN None ELSE user'[r].row
<1>1. /\ pc'[r] \in {"done", "lookup", "delete", "write"}
      /\ pc'[r] # "done" => Admitted(form'[r], u)
      /\ pc'[r] = "delete" => form'[r].op \in {"logout", "revokeOthers"}
      /\ \A q \in Requests \ {r} : pc'[q] = pc[q]
  BY EnterPc
<1>2. RequestOK(r)
  BY DEF AccountsInv
<1>3. r \notin acted' /\ born'[r] = None
  BY <1>2 DEF RequestOK, LetIn, CookieOK, Before
<1>4. CookieOK(r)'
  BY <1>1, <1>3 DEF CookieOK, Before
<1>5. LetIn(r)'
  <2>1. pc'[r] # "done" => Authorised(r)'
    BY <1>1 DEF Admitted, Authorised, NeedsLogin
  <2> QED BY <1>1, <1>3, <2>1 DEF LetIn, Handling
<1>6. CopyOK(r)'
  BY <1>1 DEF CopyOK
<1>7. SeenOK(r)'
  BY <1>3 DEF SeenOK
<1>8. \A q \in Requests \ {r} : Bystander(q)
  <2>1. \A q \in Requests : InFlight(q) => ActiveAccounts(users) \subseteq seen[q]
    BY DEF AccountsInv, RequestOK, SeenOK
  <2> QED BY <1>1, <2>1 DEF Bystander, Keeps
<1>9. RequestOK(r)'
  BY <1>4, <1>5, <1>6, <1>7 DEF RequestOK
<1> QED BY <1>8, <1>9, RequestStep

LEMMA GetSessionKeeps ==
    ASSUME AdminInv, AccountsInv, NEW r \in Requests, GetSession(r)
    PROVE  AccountsInv'
<1> DEFINE found == {i \in SessionIds : Live(i) /\ sessions[i].token = form[r].cookie}
<1>0. /\ pc[r] = "session"
      /\ UNCHANGED <<users, sessions, clock, born, ended, form, user, copy, late, seen, acted>>
      /\ RequestOK(r) /\ TableOK /\ pc \in [Requests -> Labels]
      /\ sess = [q \in Requests |-> sess[q]]
      /\ late' \in [Requests -> BOOLEAN] /\ seen' = [q \in Requests |-> seen'[q]]
  BY DEF GetSession, tables, env, history, AccountsInv, AdminInv, Typed
<1>1. UsersOK' /\ TableOK' /\ TableStep
  BY <1>0, SameTables
<1>2. /\ form[r] \in FormType /\ form[r].cookie # None /\ born[form[r].cookie] # None
      /\ user[r] = None /\ ActiveAccounts(users) \subseteq seen'[r]
      /\ born[r] = None /\ r \notin acted
  BY <1>0 DEF RequestOK, CookieOK, UserOK, SeenOK, LetIn, InFlight, Before
<1>3. CASE found = {}
  <2>1. Enter(r, form[r], None) /\ UNCHANGED sess
    BY <1>3 DEF GetSession
  <2>2. pc'[r] \in {"done", "lookup", "delete", "write"}
    BY <1>2, <2>1, EnterPc
  <2>3. Keeps(r)
    BY <1>0, <2>1, <2>2 DEF Keeps, Before
  <2>4. SessOK(r)' /\ UserOK(r)' /\ LateOK(r)'
    BY <1>1, <2>3, CredentialsKeep
  <2> QED BY <1>0, <1>1, <1>2, <2>1, <2>4, EntryKeeps DEF Before
<1>4. CASE found # {}
  <2>1. PICK i \in found :
          LET row == sessions[i]
              expired == clock > row.expires \/ clock > row.lastSeen + IdleTimeout
          IN /\ sess' = [sess EXCEPT ![r] = [id |-> i, row |-> row, now |-> clock]]
             /\ Go(r, IF expired THEN "drop"
                      ELSE IF clock - row.lastSeen > TouchThrottle THEN "touch"
                      ELSE "user")
    BY <1>4 DEF GetSession
  <2>2. /\ i \in SessionIds /\ Live(i) /\ sessions[i].token = form[r].cookie
        /\ RowOK(sessions[i]) /\ OnlyAt(i, form[r].cookie)
    BY <1>0 DEF TableOK
  <2> DEFINE label == IF clock > sessions[i].expires \/ clock > sessions[i].lastSeen + IdleTimeout
                      THEN "drop"
                      ELSE IF clock - sessions[i].lastSeen > TouchThrottle THEN "touch"
                      ELSE "user"
             mine == [id |-> i, row |-> sessions[i], now |-> clock]
  <2>3. pc' = [pc EXCEPT ![r] = label] /\ sess' = [sess EXCEPT ![r] = mine]
    BY <2>1 DEF Go
  <2>4. label \in {"drop", "touch", "user"} /\ (clock > sessions[i].expires => label = "drop")
    OBVIOUS
  <2>5. mine \in SessionCopies /\ mine # None
    BY <1>0, <2>2, AccountsAssumption DEF SessionCopies, RowOK, TableOK, Times
  <2>6. /\ mine.id = i /\ mine.row.token = form[r].cookie
        /\ mine.row.user = born[form[r].cookie].user
    BY <2>2 DEF RowOK
  <2> HIDE DEF label, mine, found
  <2>7. /\ pc'[r] = label /\ sess'[r] = mine
        /\ \A q \in Requests \ {r} : pc'[q] = pc[q] /\ sess'[q] = sess[q]
    BY <1>0, <2>3
  <2>8. SessOK(r)'
    <3>1. OnlyAt(sess[r].id, form[r].cookie)'
      BY <1>0, <2>2, <2>6, <2>7 DEF OnlyAt, Live
    <3> QED BY <1>0, <1>2, <2>4, <2>5, <2>6, <2>7, <3>1 DEF SessOK
  <2>9. LateOK(r)'
    <3>1. late[r] /\ form[r].op # "reset" => clock > sessions[i].expires
      BY <1>0, <2>2 DEF RequestOK, LateOK, RowOK
    <3> QED BY <1>0, <2>4, <2>7, <3>1 DEF RequestOK, LateOK
  <2>10. UserOK(r)' /\ CookieOK(r)' /\ LetIn(r)' /\ CopyOK(r)'
    BY <1>0, <1>2, <2>4, <2>7 DEF UserOK, CookieOK, LetIn, CopyOK, Before, Handling
  <2>11. SeenOK(r)'
    BY <1>0, <1>2 DEF SeenOK
  <2>12. \A q \in Requests \ {r} : Bystander(q)
    <3>1. \A q \in Requests : InFlight(q) => ActiveAccounts(users) \subseteq seen[q]
      BY DEF AccountsInv, RequestOK, SeenOK
    <3> QED BY <1>0, <2>7, <3>1 DEF Bystander, Keeps
  <2> QED BY <1>0, <1>1, <2>8, <2>9, <2>10, <2>11, <2>12, RequestStep DEF RequestOK
<1> QED BY <1>3, <1>4

LEMMA DropKeeps ==
    ASSUME AdminInv, AccountsInv, NEW r \in Requests, DropExpired(r)
    PROVE  AccountsInv'
<1>0. /\ pc[r] = "drop" /\ Enter(r, form[r], None)
      /\ sessions' = [sessions EXCEPT ![sess[r].id] = None]
      /\ sess' = [sess EXCEPT ![r] = None]
      /\ UNCHANGED <<users, clock, born, ended, form, user, copy, late, seen, acted>>
      /\ RequestOK(r) /\ TableOK /\ sess = [q \in Requests |-> sess[q]]
      /\ late' \in [Requests -> BOOLEAN] /\ seen' = [q \in Requests |-> seen'[q]]
  BY DEF DropExpired, env, history, AccountsInv, AdminInv, Typed
<1>1. UsersOK' /\ TableOK' /\ TableStep
  <2>1. sessions \in [SessionIds -> Sessions \cup {None}]
    BY <1>0 DEF TableOK
  <2>2. /\ sessions' \in [SessionIds -> Sessions \cup {None}]
        /\ \A i \in SessionIds : sessions'[i] # None => sessions'[i] = sessions[i] /\ Live(i)
    BY <1>0, <2>1 DEF Live
  <2> QED BY <1>0, <2>2, ShrunkTables
<1>2. /\ form[r] \in FormType /\ form[r].cookie # None /\ born[form[r].cookie] # None
      /\ user[r] = None /\ ActiveAccounts(users) \subseteq seen'[r]
  BY <1>0 DEF RequestOK, CookieOK, UserOK, SeenOK, InFlight, Before
<1>3. pc'[r] \in {"done", "lookup", "delete", "write"}
  BY <1>0, <1>2, EnterPc
<1>4. sess'[r] = None /\ \A q \in Requests \ {r} : sess'[q] = sess[q]
  BY <1>0
<1>5. SessOK(r)' /\ UserOK(r)'
  BY <1>0, <1>2, <1>3, <1>4 DEF SessOK, UserOK
<1>6. LateOK(r)'
  BY <1>0, <1>1, <1>3, LateKeeps
<1> QED BY <1>0, <1>1, <1>2, <1>4, <1>5, <1>6, EntryKeeps DEF Before

\* On to the user's row, whether or not the session's was touched.
LEMMA TouchedKeeps ==
    ASSUME AdminInv, AccountsInv, NEW r \in Requests,
           pc[r] = "touch", pc' = [pc EXCEPT ![r] = "user"],
           UNCHANGED <<users, clock, born, ended, copies, late, seen, acted>>,
           UsersOK', TableOK', TableStep
    PROVE  AccountsInv'
<1>0. /\ RequestOK(r) /\ pc \in [Requests -> Labels]
      /\ UNCHANGED <<form, sess, user, copy>>
      /\ late' \in [Requests -> BOOLEAN] /\ seen' = [q \in Requests |-> seen'[q]]
  BY DEF AccountsInv, AdminInv, Typed, copies
<1>1. pc'[r] = "user" /\ \A q \in Requests \ {r} : pc'[q] = pc[q]
  BY <1>0
<1>2. \A q \in Requests \ {r} : Bystander(q)
  <2>1. \A q \in Requests : InFlight(q) => ActiveAccounts(users) \subseteq seen[q]
    BY DEF AccountsInv, RequestOK, SeenOK
  <2> QED BY <1>0, <1>1, <2>1 DEF Bystander, Keeps
<1>3. /\ form[r] \in FormType /\ form[r].cookie # None /\ born[form[r].cookie] # None
      /\ user[r] = None /\ ActiveAccounts(users) \subseteq seen[r]
      /\ born[r] = None /\ r \notin acted /\ sess[r] # None
  BY <1>0 DEF RequestOK, CookieOK, UserOK, SessOK, SeenOK, LetIn, InFlight, Before
<1>4. SessOK(r)'
  <2>1. /\ sess[r] \in SessionCopies /\ sess[r].row.token = form[r].cookie
        /\ sess[r].row.user = born[form[r].cookie].user /\ OnlyAt(sess[r].id, form[r].cookie)
    BY <1>0, <1>3 DEF RequestOK, SessOK
  <2>2. form[r].cookie \in Tokens
    BY <1>3, CookieTyped
  <2>3. OnlyAt(sess[r].id, form[r].cookie)'
    BY <1>0, <1>3, <2>1, <2>2, OnlyAtStable DEF OnlyAt, Live
  <2> QED BY <1>0, <1>1, <1>3, <2>1, <2>3 DEF SessOK
<1>5. LateOK(r)' /\ UserOK(r)' /\ CookieOK(r)' /\ LetIn(r)' /\ CopyOK(r)' /\ SeenOK(r)'
  BY <1>0, <1>1, <1>3 DEF RequestOK, LateOK, UserOK, CookieOK, LetIn, CopyOK, SeenOK, Before, Handling
<1> QED BY <1>0, <1>2, <1>4, <1>5, RequestStep DEF RequestOK

LEMMA TouchKeeps ==
    ASSUME AdminInv, AccountsInv, NEW r \in Requests, TouchSession(r)
    PROVE  AccountsInv'
<1> DEFINE i == sess[r].id
           now == sess[r].now
<1>0. /\ pc[r] = "touch" /\ pc' = [pc EXCEPT ![r] = "user"] /\ TableOK
      /\ UNCHANGED <<users, clock, born, ended, copies, late, seen, acted>>
      /\ sessions' = IF Live(i) THEN [sessions EXCEPT ![i].lastSeen = now] ELSE sessions
  BY DEF TouchSession, Go, env, history, AccountsInv
<1>1. i \in SessionIds /\ now \in Times
  BY <1>0 DEF AccountsInv, RequestOK, SessOK, SessionCopies
<1> HIDE DEF i, now
<1>2. /\ sessions' \in [SessionIds -> Sessions \cup {None}]
      /\ \A j \in SessionIds : sessions'[j] # None =>
            /\ Live(j) /\ sessions'[j].token = sessions[j].token
            /\ sessions'[j].user = sessions[j].user
            /\ sessions'[j].expires = sessions[j].expires
  <2>1. sessions \in [SessionIds -> Sessions \cup {None}]
    BY <1>0 DEF TableOK
  <2>2. CASE Live(i)
    <3>1. sessions[i] \in Sessions
      BY <1>1, <2>1, <2>2 DEF Live
    <3> DEFINE row == [sessions[i] EXCEPT !.lastSeen = now]
    <3>2. /\ row \in Sessions /\ row.token = sessions[i].token /\ row.user = sessions[i].user
          /\ row.expires = sessions[i].expires
      BY <1>1, <3>1 DEF Sessions
    <3>3. sessions' = [sessions EXCEPT ![i] = row]
      BY <1>0, <2>2
    <3> HIDE DEF row
    <3> QED BY <1>1, <2>1, <2>2, <3>2, <3>3 DEF Live
  <2>3. CASE ~Live(i)
    BY <1>0, <2>1, <2>3 DEF Live
  <2> QED BY <2>2, <2>3
<1>3. UsersOK' /\ TableOK' /\ TableStep
  BY <1>0, <1>2, ShrunkTables
<1> QED BY <1>0, <1>3, TouchedKeeps

LEMMA GetUserKeeps ==
    ASSUME AdminInv, AccountsInv, NEW r \in Requests, GetUser(r)
    PROVE  AccountsInv'
<1> DEFINE id == sess[r].row.user
           u == users[id]
<1>0. /\ pc[r] = "user"
      /\ UNCHANGED <<users, sessions, clock, born, ended, form, copy, late, seen, acted>>
      /\ RequestOK(r) /\ TableOK /\ users \in Seq(Users)
      /\ sess = [q \in Requests |-> sess[q]] /\ user = [q \in Requests |-> user[q]]
      /\ late' \in [Requests -> BOOLEAN] /\ seen' = [q \in Requests |-> seen'[q]]
  BY DEF GetUser, tables, env, history, AccountsInv, AdminInv, Typed
<1>1. UsersOK' /\ TableOK' /\ TableStep
  BY <1>0, SameTables
<1>2. /\ form[r] \in FormType /\ form[r].cookie # None /\ born[form[r].cookie] # None
      /\ user[r] = None /\ ActiveAccounts(users) \subseteq seen[r] /\ sess[r] # None
      /\ id = born[form[r].cookie].user
  BY <1>0 DEF RequestOK, CookieOK, UserOK, SessOK, SeenOK, InFlight, Before
<1>3. id \in DOMAIN users /\ id \in UserIds /\ u \in Users
  <2>1. form[r].cookie \in Tokens
    BY <1>2, CookieTyped
  <2>2. id \in DOMAIN users /\ id \in UserIds
    BY <1>0, <1>2, <2>1 DEF TableOK, Births
  <2> QED BY <1>0, <2>2, ElementOfSeq, LenProperties
<1>4. CASE u.active
  <2>1. user' = [user EXCEPT ![r] = [id |-> id, row |-> u]] /\ Enter(r, form[r], u) /\ UNCHANGED sess
    BY <1>4 DEF GetUser
  <2> DEFINE mine == [id |-> id, row |-> u]
  <2>2. mine \in UserCopies /\ mine # None /\ mine.id = id /\ mine.row = u
    BY <1>3, AccountsAssumption DEF UserCopies
  <2>3. [email |-> u.email, pw |-> u.pw] \in seen[r]
    BY <1>2, <1>3, <1>4 DEF ActiveAccounts
  <2> HIDE DEF mine, id
  <2>4. user'[r] = mine /\ \A q \in Requests \ {r} : user'[q] = user[q]
    BY <1>0, <2>1 DEF mine
  <2>5. pc'[r] \in {"done", "lookup", "delete", "write"}
    BY <1>2, <2>1, EnterPc
  <2>6. UserOK(r)'
    BY <1>0, <1>2, <2>1, <2>2, <2>3, <2>4, <2>5 DEF UserOK, Before
  <2>7. SessOK(r)'
    <3>1. OnlyAt(sess[r].id, form[r].cookie) => OnlyAt(sess[r].id, form[r].cookie)'
      BY <1>0, <2>1 DEF OnlyAt, Live
    <3> QED BY <1>0, <2>1, <2>5, <3>1 DEF RequestOK, SessOK
  <2>8. LateOK(r)'
    BY <1>0 DEF RequestOK, LateOK
  <2>9. Enter(r, form'[r], IF user'[r] = None THEN None ELSE user'[r].row)
    BY <1>0, <2>1, <2>2, <2>4
  <2> QED BY <1>0, <1>1, <1>2, <2>1, <2>4, <2>6, <2>7, <2>8, <2>9, EntryKeeps DEF Before
<1>5. CASE ~u.active
  <2>1. sess' = [sess EXCEPT ![r] = None] /\ Enter(r, form[r], None) /\ UNCHANGED user
    BY <1>5 DEF GetUser
  <2>2. sess'[r] = None /\ \A q \in Requests \ {r} : sess'[q] = sess[q]
    BY <1>0, <2>1
  <2>3. pc'[r] \in {"done", "lookup", "delete", "write"}
    BY <1>2, <2>1, EnterPc
  <2>4. SessOK(r)' /\ UserOK(r)'
    BY <1>2, <2>1, <2>2, <2>3 DEF SessOK, UserOK
  <2>5. LateOK(r)'
    BY <1>0, <1>1, <2>1, <2>3, LateKeeps
  <2> QED BY <1>0, <1>1, <1>2, <2>1, <2>2, <2>4, <2>5, EntryKeeps DEF Before
<1> QED BY <1>4, <1>5

\* The emails are UNIQUE, so there are no more rows than emails.
LEMMA IdsInRange ==
    ASSUME AdminInv, UsersOK
    PROVE  DOMAIN users \subseteq UserIds
<1> DEFINE n == Len(users)
           email == [i \in 1..n |-> users[i].email]
<1>1. users \in Seq(Users) /\ n \in Nat /\ DOMAIN users = 1..n
  BY LenProperties DEF AdminInv, Typed
<1>2. ASSUME NEW i \in 1..n PROVE users[i].email \in Emails
  <2>1. users[i] \in Users
    BY <1>1, ElementOfSeq
  <2> QED BY <2>1 DEF Users
<1>3. email \in Injection(1..n, Emails)
  BY <1>1, <1>2 DEF UsersOK, Injection, IsInjective
<1>4. IsFiniteSet(Emails) /\ Cardinality(Emails) \in Nat
  BY AccountsAssumption, FS_CardinalityType
<1> HIDE DEF email
<1>5. Cardinality(1..n) <= Cardinality(Emails)
  BY <1>3, <1>4, FS_Injection
<1>6. Cardinality(1..n) = n
  <2> HIDE DEF n
  <2>1. 1 \in Int /\ n \in Int /\ n >= 0
    BY <1>1
  <2> QED BY <2>1, FS_Interval
<1> HIDE DEF n
<1>7. 1..n \subseteq 1..Cardinality(Emails)
  BY <1>1, <1>4, <1>5, <1>6
<1> QED BY <1>1, <1>7 DEF UserIds

LEMMA ArriveKeeps ==
    ASSUME AdminInv, AccountsInv, NEW r \in Requests, Arrive(r)
    PROVE  AccountsInv'
<1>1. PICK f \in Forms :
        /\ pc[r] = "new"
        /\ f.cookie # None => born[f.cookie] # None
        /\ form' = [form EXCEPT ![r] = f]
        /\ late' = [late EXCEPT ![r] =
              IF f.op = "reset" THEN f.tok \in spent
              ELSE f.cookie # None /\ \/ f.cookie \in ended
                                      \/ clock > born[f.cookie].at + AbsoluteTimeout]
        /\ seen' = [seen EXCEPT ![r] = ActiveAccounts(users)]
        /\ IF f.cookie = None THEN Enter(r, f, None) ELSE Go(r, "session")
        /\ UNCHANGED <<users, sessions, clock, sess, user, copy, born, ended, acted>>
  BY DEF Arrive, tables, env
<1>0. /\ RequestOK(r) /\ TableOK /\ pc \in [Requests -> Labels]
      /\ form \in [Requests -> Forms \cup {None}] /\ late \in [Requests -> BOOLEAN]
      /\ seen = [q \in Requests |-> seen[q]]
  BY DEF AccountsInv, AdminInv, Typed
<1>2. UsersOK' /\ TableOK' /\ TableStep
  BY <1>1, SameTables
<1>3. /\ user[r] = None /\ sess[r] = None /\ born[r] = None /\ r \notin acted
      /\ f \in FormType
  BY <1>0, <1>1, AccountsAssumption DEF RequestOK, CookieOK, LetIn, Before
<1> DEFINE dead == f.cookie \in ended \/ clock > born[f.cookie].at + AbsoluteTimeout
<1>4. /\ form'[r] = f /\ seen'[r] = ActiveAccounts(users)
      /\ late'[r] = IF f.op = "reset" THEN f.tok \in spent ELSE f.cookie # None /\ dead
      /\ \A q \in Requests \ {r} :
            form'[q] = form[q] /\ late'[q] = late[q] /\ seen'[q] = seen[q]
  BY <1>0, <1>1
<1>5. seen' = [q \in Requests |-> seen'[q]] /\ late' \in [Requests -> BOOLEAN]
  <2>1. late'[r] \in BOOLEAN
    <3>1. CASE f.op = "reset"
      BY <1>4, <3>1
    <3>2. CASE f.op # "reset"
      BY <1>4, <3>2
    <3> QED BY <3>1, <3>2
  <2>2. late' = [late EXCEPT ![r] = late'[r]]
    BY <1>0, <1>1, <1>4
  <2> QED BY <1>0, <1>1, <2>1, <2>2
<1>6. late'[r] /\ f.op # "reset" => f.cookie # None /\ dead
  BY <1>4
<1>7. CASE f.cookie = None
  <2>1. pc'[r] \in {"done", "lookup", "delete", "write"}
    BY <1>1, <1>3, <1>7, EnterPc
  <2>2. SessOK(r)' /\ UserOK(r)' /\ LateOK(r)'
    BY <1>1, <1>3, <1>4, <1>6, <1>7, <2>1 DEF SessOK, UserOK, LateOK
  <2>3. Enter(r, form'[r], IF user'[r] = None THEN None ELSE user'[r].row)
    BY <1>1, <1>3, <1>4, <1>7
  <2> HIDE DEF dead
  <2> QED BY <1>1, <1>2, <1>3, <1>4, <1>5, <1>7, <2>2, <2>3, EntryKeeps DEF Before
<1>8. CASE f.cookie # None
  <2>1. pc'[r] = "session" /\ \A q \in Requests \ {r} : pc'[q] = pc[q]
    BY <1>0, <1>1, <1>8 DEF Go
  <2>2. \A q \in Requests \ {r} : Bystander(q)
    <3>1. \A q \in Requests : InFlight(q) => ActiveAccounts(users) \subseteq seen[q]
      BY DEF AccountsInv, RequestOK, SeenOK
    <3> QED BY <1>1, <1>4, <2>1, <3>1 DEF Bystander, Keeps
  <2>3. LateOK(r)'
    BY <1>1, <1>3, <1>4, <1>6, <1>8, <2>1 DEF LateOK
  <2> HIDE DEF dead
  <2>4. SessOK(r)' /\ UserOK(r)' /\ CookieOK(r)' /\ LetIn(r)' /\ CopyOK(r)' /\ SeenOK(r)'
    BY <1>1, <1>3, <1>4, <1>8, <2>1
    DEF SessOK, UserOK, CookieOK, LetIn, CopyOK, SeenOK, Before, Handling
  <2> QED BY <1>1, <1>2, <1>5, <2>2, <2>3, <2>4, RequestStep DEF RequestOK
<1> QED BY <1>7, <1>8

LEMMA FailsKeeps ==
    ASSUME AdminInv, AccountsInv, NEW r \in Requests, StatementFails(r)
    PROVE  AccountsInv'
<1>0. /\ UNCHANGED <<users, sessions, clock, born, ended, form, user, copy, late, seen, acted>>
      /\ RequestOK(r) /\ TableOK /\ pc \in [Requests -> Labels]
      /\ sess = [q \in Requests |-> sess[q]]
      /\ late' \in [Requests -> BOOLEAN] /\ seen' = [q \in Requests |-> seen'[q]]
  BY DEF StatementFails, tables, AccountsInv, AdminInv, Typed
<1>1. UsersOK' /\ TableOK' /\ TableStep
  BY <1>0, SameTables
<1>2. CASE /\ pc[r] \in {"session", "drop", "user"}
           /\ sess' = [sess EXCEPT ![r] = None]
           /\ Enter(r, form[r], None)
  <2>1. /\ form[r] \in FormType /\ form[r].cookie # None /\ born[form[r].cookie] # None
        /\ user[r] = None /\ ActiveAccounts(users) \subseteq seen'[r]
    BY <1>0, <1>2 DEF RequestOK, CookieOK, UserOK, SeenOK, InFlight, Before
  <2>2. sess'[r] = None /\ \A q \in Requests \ {r} : sess'[q] = sess[q]
    BY <1>0, <1>2
  <2>3. pc'[r] \in {"done", "lookup", "delete", "write"}
    BY <1>2, <2>1, EnterPc
  <2>4. SessOK(r)' /\ UserOK(r)'
    BY <1>0, <2>1, <2>2, <2>3 DEF SessOK, UserOK
  <2>5. LateOK(r)'
    BY <1>0, <1>1, <1>2, <2>3, LateKeeps
  <2> QED BY <1>0, <1>1, <1>2, <2>1, <2>2, <2>4, <2>5, EntryKeeps DEF Before
<1>3. CASE /\ pc[r] \in {"consume", "forget", "clear"}
           /\ AfterDeleteSetting(r)
           /\ UNCHANGED sess
  <2>1. PICK label \in {"done", "write"} : pc' = [pc EXCEPT ![r] = label]
    BY <1>3 DEF AfterDeleteSetting, Go
  <2> QED BY <1>0, <1>3, <2>1, PlainStep DEF Handling
<1>4. CASE /\ pc[r] \in {"touch", "lookup", "count", "insert", "start", "delete",
                          "write", "activate"}
           /\ Go(r, CASE pc[r] = "touch" -> "user"
                      [] pc[r] = "lookup" /\ form[r].op = "signup" -> "count"
                      [] pc[r] = "lookup" /\ form[r].op = "create" -> "insert"
                      [] pc[r] = "delete" /\ form[r].op = "password" -> "start"
                      [] OTHER -> "done")
           /\ UNCHANGED sess
  <2>1. CASE pc[r] = "touch"
    <3>1. pc' = [pc EXCEPT ![r] = "user"]
      BY <1>4, <2>1 DEF Go
    <3> QED BY <1>0, <1>1, <1>4, <2>1, <3>1, TouchedKeeps DEF copies
  <2>2. CASE pc[r] = "delete" /\ form[r].op = "password"
    <3>1. pc' = [pc EXCEPT ![r] = "start"]
      BY <1>4, <2>2 DEF Go
    <3>2. CopyOK(r)'
      BY <1>0, <2>2, <3>1 DEF CopyOK
    <3>3. pc[r] \in Handling /\ "start" \in Handling
      BY <2>2 DEF Handling
    <3> QED BY <1>0, <1>4, <2>2, <3>1, <3>2, <3>3, QuietStep
  <2>3. CASE pc[r] # "touch" /\ ~(pc[r] = "delete" /\ form[r].op = "password")
    <3>1. PICK label \in {"count", "insert", "done"} : pc' = [pc EXCEPT ![r] = label]
      BY <1>4, <2>3 DEF Go
    <3>2. pc[r] \in Handling
      BY <1>4, <2>3 DEF Handling
    <3> QED BY <1>0, <1>4, <3>1, <3>2, PlainStep DEF Handling
  <2> QED BY <2>1, <2>2, <2>3
<1> QED BY <1>2, <1>3, <1>4 DEF StatementFails

\* Nobody moves, unless all are cut off.
LEMMA WorldKeeps ==
    ASSUME AdminInv, AccountsInv, RunResetPassword \/ Restart \/ Tick \/ UNCHANGED vars
    PROVE  AccountsInv'
<1>0. /\ UNCHANGED <<users, sessions, born, ended, form, sess, user, copy, late, seen, acted>>
      /\ UsersOK /\ TableOK /\ pc \in [Requests -> Labels]
  BY DEF RunResetPassword, Restart, Tick, vars, tables, copies, history, AccountsInv, AdminInv, Typed
<1>1. clock' \in Nat /\ clock <= clock'
  BY <1>0 DEF RunResetPassword, Restart, Tick, vars, env, TableOK
<1>2. UsersOK' /\ TableStep
  BY <1>0, <1>1 DEF UsersOK, TableOK, TableStep
<1>3. TableOK'
  BY <1>0, <1>1 DEF TableOK, RowOK, OnlyAt, Live
<1>4. \A q \in Requests : InFlight(q) => ActiveAccounts(users) \subseteq seen[q]
  BY DEF AccountsInv, RequestOK, SeenOK
<1>5. ASSUME NEW q \in Requests PROVE RequestOK(q)'
  <2>1. CASE pc'[q] = pc[q]
    BY <1>0, <1>2, <1>4, <2>1, BystanderKeeps DEF Bystander, Keeps
  <2>2. CASE pc'[q] # pc[q]
    <3>1. pc'[q] = "cut" /\ pc[q] \notin {"new", "done"}
      BY <1>0, <2>2 DEF RunResetPassword, Restart, Tick, vars, InFlight
    <3>2. Keeps(q)
      BY <1>0, <3>1 DEF Keeps, Before
    <3>3. SessOK(q)' /\ UserOK(q)' /\ LateOK(q)'
      BY <1>2, <3>2, CredentialsKeep
    <3>4. RequestOK(q)
      BY DEF AccountsInv
    <3>5. CookieOK(q)' /\ LetIn(q)' /\ CopyOK(q)' /\ SeenOK(q)'
      BY <1>0, <3>1, <3>4
      DEF RequestOK, CookieOK, LetIn, Authorised, CopyOK, SeenOK, InFlight, Before, Handling
    <3> QED BY <3>3, <3>5 DEF RequestOK
  <2> QED BY <2>1, <2>2
<1> QED BY <1>0, <1>2, <1>3, <1>5 DEF AccountsInv

LEMMA AccountsInvInit == Init => AccountsInv
<1> SUFFICES ASSUME Init PROVE AccountsInv
  OBVIOUS
<1>1. /\ clock = 0 /\ ended = {} /\ acted = {}
      /\ pc = [r \in Requests |-> "new"]
      /\ sess = [r \in Requests |-> None] /\ user = [r \in Requests |-> None]
      /\ late = [r \in Requests |-> FALSE] /\ seen = [r \in Requests |-> {}]
  BY DEF Init
<1> DEFINE Has(db, t, i) == db.sessions[i] # None /\ db.sessions[i].token = t
           Birth(row) == [user |-> row.user, at |-> row.expires - AbsoluteTimeout]
<1>2. PICK db \in Databases :
        /\ users = db.users /\ sessions = db.sessions
        /\ born = [t \in Tokens |->
              IF \E i \in SessionIds : Has(db, t, i)
              THEN LET i == CHOOSE i \in SessionIds : Has(db, t, i)
                   IN [user |-> db.sessions[i].user,
                       at |-> db.sessions[i].expires - AbsoluteTimeout]
              ELSE None]
  BY DEF Init
<1>3. /\ UsersOK /\ users \in Seq(Users)
      /\ sessions \in [SessionIds -> Sessions \cup {None}]
      /\ \A i \in SessionIds : Live(i) =>
            /\ sessions[i].token \in Seeds /\ sessions[i].user \in DOMAIN users
            /\ OnlyAt(i, sessions[i].token)
  BY <1>2, AccountsAssumption DEF UsersOK, Live, OnlyAt
<1>4. ASSUME NEW t \in Tokens, NEW i \in SessionIds, Live(i), sessions[i].token = t
      PROVE  born[t] = Birth(sessions[i])
  <2>1. /\ \E k \in SessionIds : Has(db, t, k)
        /\ \A k \in SessionIds : Has(db, t, k) => k = i
    BY <1>2, <1>3, <1>4 DEF Live, OnlyAt
  <2>2. (CHOOSE k \in SessionIds : Has(db, t, k)) = i
    BY <2>1
  <2> QED BY <1>2, <2>1, <2>2
<1>5. ASSUME NEW t \in Tokens, born[t] # None
      PROVE  \E i \in SessionIds : Live(i) /\ sessions[i].token = t
  BY <1>2, <1>5 DEF Live
<1>6. ASSUME NEW i \in SessionIds, Live(i)
      PROVE  /\ sessions[i] \in Sessions /\ Birth(sessions[i]) \in Births
             /\ Birth(sessions[i]) # None
             /\ (sessions[i].expires - AbsoluteTimeout) + AbsoluteTimeout = sessions[i].expires
  BY <1>3, <1>6, AccountsAssumption DEF Live, Sessions, Births, Times
<1>7. born \in [Tokens -> Births \cup {None}]
  <2>1. \A t \in Tokens : born[t] \in Births \cup {None}
    BY <1>4, <1>5, <1>6
  <2> QED BY <1>2, <2>1
<1>8. ASSUME NEW t \in Tokens, born[t] # None PROVE born[t].user \in DOMAIN users
  <2>1. PICK i \in SessionIds : Live(i) /\ sessions[i].token = t
    BY <1>5, <1>8
  <2>2. born[t] = Birth(sessions[i])
    BY <1>4, <2>1
  <2>3. born[t].user = sessions[i].user
    BY <2>2
  <2> QED BY <1>3, <2>1, <2>3
<1>9. ASSUME NEW i \in SessionIds, Live(i) PROVE RowOK(sessions[i])
  <2>1. sessions[i].token \in Tokens
    BY <1>3, <1>9 DEF Tokens
  <2>2. born[sessions[i].token] = Birth(sessions[i])
    BY <1>4, <1>9, <2>1
  <2>3. /\ born[sessions[i].token].user = sessions[i].user
        /\ born[sessions[i].token].at = sessions[i].expires - AbsoluteTimeout
    BY <2>2
  <2> QED BY <1>1, <1>6, <1>9, <2>2, <2>3 DEF RowOK
<1>10. TableOK
  BY <1>1, <1>3, <1>7, <1>8, <1>9 DEF TableOK
<1>11. ASSUME NEW r \in Requests PROVE RequestOK(r)
  <2>1. /\ pc[r] = "new" /\ sess[r] = None /\ user[r] = None /\ ~late[r] /\ r \notin acted
    BY <1>1
  <2>2. born[r] = None
    BY <1>3, <1>5, AccountsAssumption DEF Tokens
  <2> QED BY <2>1, <2>2
      DEF RequestOK, CookieOK, SessOK, UserOK, LetIn, CopyOK, LateOK, SeenOK, InFlight, Before, Handling
<1> QED BY <1>1, <1>3, <1>10, <1>11 DEF AccountsInv

LEMMA AccountsInvStep == AdminInv /\ AccountsInv /\ [Next]_vars => AccountsInv'
<1> SUFFICES ASSUME AdminInv, AccountsInv, [Next]_vars PROVE AccountsInv'
  OBVIOUS
<1>1. ASSUME NEW r \in Requests, Arrive(r) \/ WithSession(r) \/ StatementFails(r)
      PROVE  AccountsInv'
  BY <1>1, ArriveKeeps, GetSessionKeeps, DropKeeps, TouchKeeps, GetUserKeeps, FailsKeeps
  DEF WithSession
<1>2. ASSUME NEW r \in Requests, Handle(r) PROVE AccountsInv'
  <2>1. DOMAIN users \subseteq UserIds
    BY IdsInRange DEF AccountsInv
  <2> QED BY <1>2, <2>1, ReadsKeep, CreateKeeps, LoginKeeps, StartSessionKeeps, FindOwnedKeeps,
             EndingsKeep, UpdateAccountKeeps DEF Handle
<1> QED BY <1>1, <1>2, WorldKeeps DEF Next

LEMMA AccountsInvHolds == Spec => [](AdminInv /\ AccountsInv)
<1>1. Init => AdminInv /\ AccountsInv
  BY AdminInvInit, AccountsInvInit
<1>2. AdminInv /\ AccountsInv /\ [Next]_vars => (AdminInv /\ AccountsInv)'
  BY AdminInvStep, AccountsInvStep
<1> QED BY <1>1, <1>2, PTL DEF Spec

(* SessionsEndForGood: handlers act on copies of session rows and SQLite gives *)
(* the ids of deleted rows out again, and still no token that was logged out,  *)
(* revoked or replaced, or that has outlived its limit, opens anything.        *)
THEOREM SessionsEndForGoodHolds == Spec => []SessionsEndForGood
<1>1. AdminInv /\ AccountsInv => SessionsEndForGood
  BY DEF AccountsInv, TableOK, RowOK, RequestOK, LateOK, SessionsEndForGood
<1> QED BY <1>1, AccountsInvHolds, PTL

(* EffectsAreAuthorised: what was checked when the request was let in still    *)
(* holds of the session's owner and of their role when the handler acts.       *)
THEOREM EffectsAreAuthorisedHolds == Spec => []EffectsAreAuthorised
<1>1. ASSUME AccountsInv, NEW r \in acted, form[r].op \in NeedsLogin \cup {"logout"}
      PROVE  /\ form[r].csrf /\ user[r] # None
             /\ born[form[r].cookie].user = user[r].id
             /\ form[r].op \in {"create", "deactivate"} => users[user[r].id].role = "admin"
  <2>1. RequestOK(r)
    BY <1>1 DEF AccountsInv
  <2> QED BY <1>1, <2>1 DEF RequestOK, LetIn, Authorised, UserOK
<1>2. AdminInv /\ AccountsInv => EffectsAreAuthorised
  BY <1>1 DEF EffectsAreAuthorised
<1> QED BY <1>2, AccountsInvHolds, PTL

(* EntryIsJustified: the account and the password that let a request in were   *)
(* an active account's at a moment since it arrived.                           *)
THEOREM EntryIsJustifiedHolds == Spec => []EntryIsJustified
<1>1. ASSUME AccountsInv, NEW r \in Requests
      PROVE  /\ r \in acted /\ form[r].op = "login" =>
                  [email |-> form[r].email, pw |-> form[r].pw] \in seen[r]
             /\ r \in acted /\ form[r].op = "password" =>
                  [email |-> user[r].row.email, pw |-> form[r].pw] \in seen[r]
             /\ user[r] # None => \E a \in seen[r] : a.email = user[r].row.email
  <2>1. RequestOK(r)
    BY <1>1 DEF AccountsInv
  <2>2. user[r] # None => [email |-> user[r].row.email, pw |-> user[r].row.pw] \in seen[r]
    BY <2>1 DEF RequestOK, UserOK
  <2>3. r \in acted /\ form[r].op = "password" => user[r] # None /\ form[r].pw = user[r].row.pw
    BY <2>1 DEF RequestOK, LetIn, Authorised, NeedsLogin
  <2>4. r \in acted /\ form[r].op = "login" => [email |-> form[r].email, pw |-> form[r].pw] \in seen[r]
    BY <2>1 DEF RequestOK, SeenOK
  <2> QED BY <2>2, <2>3, <2>4
<1>2. AdminInv /\ AccountsInv => EntryIsJustified
  BY <1>1 DEF EntryIsJustified
<1> QED BY <1>2, AccountsInvHolds, PTL

-----------------------------------------------------------------------------
(* Password resets.  Each stored token is the newest of its user, no two users *)
(* have the same, and while nothing failed none of them is spent.              *)
ResetsOK ==
    /\ minted \in Nat /\ faults \in Nat /\ spent \subseteq 1..minted
    /\ resets \in [UserIds -> Resets \cup {None}]
    /\ \A u \in UserIds : resets[u] # None => resets[u].token \in 1..minted
    /\ \A u, v \in UserIds :
          resets[u] # None /\ resets[v] # None /\ resets[u].token = resets[v].token => u = v
    /\ faults = 0 => \A u \in UserIds : resets[u] # None => resets[u].token \notin spent

ResetOK(r) ==
    /\ pc[r] \in {"consume", "forget", "clear"} => form[r].op = "reset"
    /\ pc[r] # "new" /\ form[r].op = "reset" =>
          /\ form[r].tok \in 1..minted
          /\ late[r] => form[r].tok \in spent
          /\ faults = 0 =>
                /\ late[r] => r \notin acted
                /\ pc[r] \in {"consume", "write", "clear"} =>
                      /\ ~late[r]
                      /\ \A u \in UserIds :
                            resets[u] # None /\ resets[u].token = form[r].tok => u = form[r].id

ResetInv == ResetsOK /\ \A r \in Requests : ResetOK(r)

\* Tokens are minted and spent and failures counted; a new one was never issued before.
ResetStep ==
    /\ faults' \in Nat /\ faults <= faults'
    /\ minted' \in Nat /\ minted <= minted' /\ spent \subseteq spent'
    /\ \A u \in UserIds : resets'[u] # None =>
          resets'[u] = resets[u] \/ resets'[u].token \notin 1..minted

LEMMA ResetBystander ==
    ASSUME ResetInv, NEW q \in Requests, ResetStep,
           pc'[q] = pc[q], form'[q] = form[q], late'[q] = late[q],
           q \in acted' => q \in acted
    PROVE  ResetOK(q)'
<1>1. ResetOK(q) /\ ResetsOK
  BY DEF ResetInv
<1>2. faults \in Nat /\ (faults' = 0 => faults = 0) /\ minted \in Nat
  BY <1>1 DEF ResetsOK, ResetStep
<1>3. 1..minted \subseteq 1..minted'
  BY <1>2 DEF ResetStep
<1>4. ASSUME pc[q] # "new", form[q].op = "reset", NEW u \in UserIds,
             resets'[u] # None, resets'[u].token = form[q].tok
      PROVE  resets[u] # None /\ resets[u].token = form[q].tok
  BY <1>1, <1>4 DEF ResetOK, ResetStep
<1> QED BY <1>1, <1>2, <1>3, <1>4 DEF ResetOK, ResetStep

\* A step that has nothing to do with resets.
SideStep(r) ==
    /\ UNCHANGED <<resets, minted, spent, form, late>>
    /\ faults' = faults \/ faults' = faults + 1
    /\ acted' \subseteq acted \cup {r}
    /\ pc[r] # "new" /\ pc'[r] \notin {"consume", "forget", "clear"}
    /\ \A q \in Requests \ {r} : pc'[q] = pc[q]
    /\ form[r].op = "reset" => pc'[r] # "write" /\ acted' \subseteq acted

LEMMA SideStepKeeps ==
    ASSUME ResetInv, NEW r \in Requests, SideStep(r)
    PROVE  ResetInv'
<1>0. ResetsOK /\ ResetOK(r)
  BY DEF ResetInv
<1>1. ResetStep /\ faults' \in Nat /\ (faults' = 0 => faults = 0)
  BY <1>0 DEF SideStep, ResetStep, ResetsOK
<1>2. ResetsOK'
  BY <1>0, <1>1 DEF ResetsOK, SideStep
<1>3. \A q \in Requests \ {r} : ResetOK(q)'
  BY <1>1, ResetBystander DEF SideStep
<1>4. ResetOK(r)'
  BY <1>0, <1>1 DEF ResetOK, SideStep
<1> QED BY <1>2, <1>3, <1>4 DEF ResetInv

LEMMA EnterAside ==
    ASSUME AdminInv, NEW r \in Requests, NEW f \in FormType, NEW u, Enter(r, f, u)
    PROVE  /\ pc'[r] \notin {"new", "consume", "forget", "clear"}
           /\ f.op = "reset" => pc'[r] # "write"
           /\ \A q \in Requests \ {r} : pc'[q] = pc[q]
<1> DEFINE next == IF Admitted(f, u) THEN FirstStatement[f.op] ELSE "done"
<1>1. f.op \in Ops
  BY DEF FormType
<1>2. /\ next \notin {"new", "consume", "forget", "clear"}
      /\ f.op = "reset" => next # "write"
  BY <1>1 DEF FirstStatement, Ops
<1>3. pc' = [pc EXCEPT ![r] = next] /\ pc \in [Requests -> Labels]
  BY DEF Enter, Go, AdminInv, Typed
<1> HIDE DEF next
<1> QED BY <1>2, <1>3

LEMMA SessionAside ==
    ASSUME AdminInv, AccountsInv, NEW r \in Requests, WithSession(r)
    PROVE  SideStep(r)
<1> USE DEF tables, copies, env, history
<1>0. pc[r] \in Before \ {"new"} /\ pc \in [Requests -> Labels] /\ RequestOK(r)
  BY DEF WithSession, GetSession, DropExpired, TouchSession, GetUser, Before, AdminInv, Typed,
         AccountsInv
<1>1. form[r] \in FormType
  BY <1>0 DEF RequestOK, CookieOK
<1>2. UNCHANGED <<resets, minted, spent, form, late, faults, acted>>
  BY DEF WithSession, GetSession, DropExpired, TouchSession, GetUser
<1>3. (\E u : Enter(r, form[r], u))
      \/ (\E label \in {"drop", "touch", "user"} : pc' = [pc EXCEPT ![r] = label])
  <2>1. CASE GetSession(r)
    BY <2>1 DEF GetSession, Go
  <2>2. CASE DropExpired(r)
    BY <2>2 DEF DropExpired
  <2>3. CASE TouchSession(r)
    BY <2>3 DEF TouchSession, Go
  <2>4. CASE GetUser(r)
    BY <2>4 DEF GetUser
  <2> QED BY <2>1, <2>2, <2>3, <2>4 DEF WithSession
<1>4. CASE \E u : Enter(r, form[r], u)
  BY <1>0, <1>1, <1>2, <1>4, EnterAside DEF SideStep, Before
<1>5. CASE \E label \in {"drop", "touch", "user"} : pc' = [pc EXCEPT ![r] = label]
  BY <1>0, <1>2, <1>5 DEF SideStep, Before
<1> QED BY <1>3, <1>4, <1>5

LEMMA HandlerAside ==
    ASSUME AdminInv, AccountsInv, NEW r \in Requests,
           Handle(r), ~ResetLookup(r), ~ResetPassword(r), ~DeleteSetting(r)
    PROVE  SideStep(r)
<1> USE DEF tables, copies, env, history, At, Go
<1>0. pc \in [Requests -> Labels] /\ RequestOK(r) /\ TypedAt(r)
  BY DEF AdminInv, Typed, AccountsInv
<1>a. ASSUME NEW label \in {"done", "count", "insert", "start", "delete", "activate"},
             pc[r] # "new", form[r].op # "reset", pc' = [pc EXCEPT ![r] = label],
             UNCHANGED <<resets, minted, spent, form, late, faults>>,
             acted' \subseteq acted \cup {r}
      PROVE  SideStep(r)
  BY <1>0, <1>a DEF SideStep
<1>1. CASE LookupEmail(r)
  <2>1. PICK label \in {"done", "count", "insert"} : pc' = [pc EXCEPT ![r] = label]
    BY <1>1 DEF LookupEmail
  <2> QED BY <1>1, <1>a, <2>1 DEF LookupEmail
<1>2. CASE CountUsers(r)
  <2>1. form[r].op = "signup"
    BY <1>0, <1>2 DEF CountUsers, TypedAt
  <2> QED BY <1>2, <1>a, <2>1 DEF CountUsers
<1>3. CASE SignUp(r) \/ Invite(r)
  <2>1. PICK label \in {"done", "start"} : pc' = [pc EXCEPT ![r] = label]
    BY <1>3 DEF SignUp, Invite, CreateUser
  <2>2. /\ UNCHANGED <<resets, minted, spent, form, late, faults>>
        /\ acted' \subseteq acted \cup {r}
    BY <1>3 DEF SignUp, Invite, CreateUser
  <2> QED BY <1>3, <1>a, <2>1, <2>2 DEF SignUp, Invite
<1>4. CASE LoginLookup(r)
  <2>1. PICK label \in {"done", "start"} : pc' = [pc EXCEPT ![r] = label]
    BY <1>4 DEF LoginLookup
  <2>2. acted' \subseteq acted \cup {r}
    BY <1>4 DEF LoginLookup
  <2> QED BY <1>4, <1>a, <2>1, <2>2 DEF LoginLookup
<1>5. CASE StartSession(r)
  <2>1. form[r].op # "reset"
    BY <1>0, <1>5 DEF StartSession, RequestOK, CopyOK
  <2> QED BY <1>5, <1>a, <2>1 DEF StartSession
<1>6. CASE Logout(r) \/ RevokeSession(r) \/ RevokeAllOthers(r) \/ DropOldSession(r)
  <2>1. PICK label \in {"done", "start"} : pc' = [pc EXCEPT ![r] = label]
    BY <1>6 DEF Logout, RevokeSession, RevokeAllOthers, DropOldSession
  <2>2. /\ UNCHANGED <<resets, minted, spent, form, late, faults>>
        /\ acted' \subseteq acted \cup {r} /\ pc[r] = "delete" /\ form[r].op # "reset"
    BY <1>6 DEF Logout, RevokeSession, RevokeAllOthers, DropOldSession, DeleteSessions
  <2> QED BY <1>a, <2>1, <2>2
<1>7. CASE FindOwnedSession(r)
  <2>1. PICK label \in {"done", "delete"} : pc' = [pc EXCEPT ![r] = label]
    BY <1>7 DEF FindOwnedSession
  <2> QED BY <1>7, <1>a, <2>1 DEF FindOwnedSession
<1>8. CASE ChangePassword(r)
  BY <1>8, <1>a DEF ChangePassword, UpdatePasswordHash
<1>9. CASE DeactivateLookup(r)
  <2>1. PICK label \in {"done", "activate"} : pc' = [pc EXCEPT ![r] = label]
    BY <1>9 DEF DeactivateLookup
  <2> QED BY <1>9, <1>a, <2>1 DEF DeactivateLookup
<1>10. CASE SetUserActive(r)
  <2>1. form[r].op # "reset"
    BY <1>0, <1>10 DEF SetUserActive, RequestOK, CopyOK
  <2> QED BY <1>10, <1>a, <2>1 DEF SetUserActive
<1> QED BY <1>1, <1>2, <1>3, <1>4, <1>5, <1>6, <1>7, <1>8, <1>9, <1>10 DEF Handle

(* consumeResetToken: of the tokens stored it is the request's own that goes.  *)
LEMMA DeletedToken ==
    ASSUME AdminInv, ResetInv, NEW r \in Requests, AfterDeleteSetting(r),
           pc[r] \in {"forget", "consume", "clear"},
           UNCHANGED <<form, late, acted, minted>>,
           \/ resets' = [resets EXCEPT ![form[r].id] = None] /\ faults' = faults
           \/ resets' = resets /\ faults' = faults + 1
    PROVE  ResetInv'
<1>0. /\ ResetsOK /\ ResetOK(r) /\ pc \in [Requests -> Labels] /\ form[r].op = "reset"
      /\ form[r].tok \in 1..minted
  BY DEF ResetInv, AdminInv, Typed, ResetOK
<1>1. /\ spent \subseteq spent' /\ spent' \subseteq spent \cup {form[r].tok}
      /\ pc'[r] \in {"write", "done"}
      /\ pc'[r] = "write" => pc[r] = "consume"
      /\ spent' # spent => pc[r] \in {"consume", "clear"}
      /\ \A q \in Requests \ {r} : pc'[q] = pc[q]
  BY <1>0 DEF AfterDeleteSetting, Go
<1>2. ASSUME NEW u \in UserIds, resets'[u] # None
      PROVE  resets'[u] = resets[u] /\ (faults' = 0 => u # form[r].id)
  BY <1>0, <1>2 DEF ResetsOK
<1>3. faults' \in Nat /\ faults <= faults' /\ (faults' = 0 => faults = 0)
  BY <1>0 DEF ResetsOK
<1>4. ResetStep
  BY <1>0, <1>1, <1>2, <1>3 DEF ResetStep, ResetsOK
<1>5. ResetsOK'
  <2>1. resets' \in [UserIds -> Resets \cup {None}]
    BY <1>0 DEF ResetsOK
  <2>2. ASSUME faults' = 0, NEW u \in UserIds, resets'[u] # None
        PROVE  resets'[u].token \notin spent'
    <3>1. resets[u] # None /\ u # form[r].id /\ resets[u].token \notin spent
      BY <1>0, <1>2, <1>3, <2>2 DEF ResetsOK
    <3>2. spent' # spent => resets[u].token # form[r].tok
      BY <1>0, <1>1, <1>3, <2>2, <3>1 DEF ResetOK
    <3> QED BY <1>1, <1>2, <2>2, <3>1, <3>2
  <2>3. spent' \subseteq 1..minted'
    BY <1>0, <1>1 DEF ResetsOK
  <2> QED BY <1>0, <1>2, <1>3, <2>1, <2>2, <2>3 DEF ResetsOK
<1>6. ResetOK(r)'
  BY <1>0, <1>1, <1>2, <1>3 DEF ResetOK
<1>7. \A q \in Requests \ {r} : ResetOK(q)'
  BY <1>1, <1>4, ResetBystander
<1> QED BY <1>5, <1>6, <1>7 DEF ResetInv

LEMMA ResetLookupKeeps ==
    ASSUME AdminInv, AccountsInv, ResetInv, NEW r \in Requests,
           ResetLookup(r) \/ ResetPassword(r)
    PROVE  ResetInv'
<1>0. /\ pc[r] \in {"lookup", "write"} /\ form[r].op = "reset"
      /\ UNCHANGED <<resets, minted, spent, form, late, faults>>
      /\ ResetsOK /\ ResetOK(r) /\ pc \in [Requests -> Labels]
  BY DEF ResetLookup, ResetPassword, UpdatePasswordHash, At, tables, copies, env,
         ResetInv, AdminInv, Typed
<1>1. ResetStep
  BY <1>0 DEF ResetStep, ResetsOK
<1>2. ResetsOK'
  BY <1>0 DEF ResetsOK
<1>3. \A q \in Requests \ {r} : pc'[q] = pc[q] /\ (q \in acted' => q \in acted)
  BY <1>0 DEF ResetLookup, ResetPassword, UpdatePasswordHash, Go
<1>4. ResetOK(r)'
  <2>1. CASE ResetPassword(r)
    <3>1. pc'[r] = "clear" /\ pc[r] = "write"
      BY <1>0, <2>1 DEF ResetPassword, At, Go
    <3> QED BY <1>0, <3>1 DEF ResetOK
  <2>2. CASE ResetLookup(r) /\ pc'[r] # "consume"
    <3>1. pc'[r] \in {"done", "forget"} /\ acted' = acted /\ pc[r] = "lookup"
      BY <1>0, <2>2 DEF ResetLookup, At, Go
    <3> QED BY <1>0, <3>1 DEF ResetOK
  <2>3. CASE ResetLookup(r) /\ pc'[r] = "consume"
    <3>1. /\ form[r].id \in UserIds /\ resets[form[r].id] # None
          /\ resets[form[r].id].token = form[r].tok
      BY <1>0, <2>3 DEF ResetLookup, At, Go
    <3>2. faults = 0 => ~late[r]
      BY <1>0, <3>1 DEF ResetsOK, ResetOK
    <3>3. \A u \in UserIds : resets[u] # None /\ resets[u].token = form[r].tok => u = form[r].id
      BY <1>0, <3>1 DEF ResetsOK
    <3> QED BY <1>0, <2>3, <3>2, <3>3 DEF ResetOK
  <2> QED BY <2>1, <2>2, <2>3
<1>5. \A q \in Requests \ {r} : ResetOK(q)'
  BY <1>0, <1>1, <1>3, ResetBystander
<1> QED BY <1>2, <1>4, <1>5 DEF ResetInv

LEMMA ArriveReset ==
    ASSUME AdminInv, AccountsInv, ResetInv, NEW r \in Requests, Arrive(r)
    PROVE  ResetInv'
<1>1. PICK f \in Forms :
        /\ pc[r] = "new" /\ (f.op = "reset" => f.tok <= minted)
        /\ form' = [form EXCEPT ![r] = f]
        /\ late' = [late EXCEPT ![r] =
              IF f.op = "reset" THEN f.tok \in spent
              ELSE f.cookie # None /\ \/ f.cookie \in ended
                                      \/ clock > born[f.cookie].at + AbsoluteTimeout]
        /\ Enter(r, f, None) \/ Go(r, "session")
        /\ UNCHANGED <<resets, minted, faults, spent, acted>>
  BY DEF Arrive, tables, env
<1>2. /\ f \in FormType /\ r \notin acted /\ ResetsOK
      /\ pc \in [Requests -> Labels] /\ form \in [Requests -> Forms \cup {None}]
      /\ late \in [Requests -> BOOLEAN]
  BY <1>1, AccountsAssumption
  DEF AccountsInv, RequestOK, LetIn, Before, ResetInv, AdminInv, Typed
<1>3. /\ form'[r] = f /\ (f.op = "reset" => (late'[r] <=> f.tok \in spent))
      /\ \A q \in Requests \ {r} : form'[q] = form[q] /\ late'[q] = late[q]
  BY <1>1, <1>2
<1>4. /\ pc'[r] \notin {"new", "consume", "forget", "clear"}
      /\ f.op = "reset" => pc'[r] # "write"
      /\ \A q \in Requests \ {r} : pc'[q] = pc[q]
  <2>1. CASE Enter(r, f, None)
    BY <1>2, <2>1, EnterAside
  <2>2. CASE Go(r, "session")
    BY <1>2, <2>2 DEF Go
  <2> QED BY <1>1, <2>1, <2>2
<1>5. f.op = "reset" => f.tok \in 1..minted
  BY <1>1, <1>2 DEF FormType, ResetsOK
<1>6. ResetStep /\ ResetsOK'
  BY <1>1, <1>2 DEF ResetStep, ResetsOK
<1>7. ResetOK(r)'
  BY <1>1, <1>2, <1>3, <1>4, <1>5 DEF ResetOK
<1>8. \A q \in Requests \ {r} : ResetOK(q)'
  BY <1>1, <1>3, <1>4, <1>6, ResetBystander
<1> QED BY <1>6, <1>7, <1>8 DEF ResetInv

LEMMA FailsReset ==
    ASSUME AdminInv, AccountsInv, ResetInv, NEW r \in Requests, StatementFails(r)
    PROVE  ResetInv'
<1>0. /\ UNCHANGED <<resets, minted, form, late, acted>> /\ faults' = faults + 1
      /\ pc \in [Requests -> Labels] /\ RequestOK(r)
  BY DEF StatementFails, tables, AdminInv, Typed, AccountsInv
<1>1. CASE pc[r] \in {"session", "drop", "user"} /\ Enter(r, form[r], None) /\ UNCHANGED spent
  <2>1. form[r] \in FormType
    BY <1>0, <1>1 DEF RequestOK, CookieOK
  <2>2. SideStep(r)
    BY <1>0, <1>1, <2>1, EnterAside DEF SideStep
  <2> QED BY <2>2, SideStepKeeps
<1>2. CASE pc[r] \in {"consume", "forget", "clear"} /\ AfterDeleteSetting(r)
  BY <1>0, <1>2, DeletedToken
<1>3. CASE /\ pc[r] \in {"touch", "lookup", "count", "insert", "start", "delete",
                          "write", "activate"}
           /\ Go(r, CASE pc[r] = "touch" -> "user"
                      [] pc[r] = "lookup" /\ form[r].op = "signup" -> "count"
                      [] pc[r] = "lookup" /\ form[r].op = "create" -> "insert"
                      [] pc[r] = "delete" /\ form[r].op = "password" -> "start"
                      [] OTHER -> "done")
           /\ UNCHANGED spent
  <2>1. PICK label \in {"user", "count", "insert", "start", "done"} : pc' = [pc EXCEPT ![r] = label]
    BY <1>3 DEF Go
  <2>2. SideStep(r)
    BY <1>0, <1>3, <2>1 DEF SideStep
  <2> QED BY <2>2, SideStepKeeps
<1> QED BY <1>1, <1>2, <1>3 DEF StatementFails

LEMMA WorldReset ==
    ASSUME AdminInv, AccountsInv, ResetInv, RunResetPassword \/ Restart \/ Tick \/ UNCHANGED vars
    PROVE  ResetInv'
<1> USE DEF tables, copies, env, history
<1>a. ResetsOK /\ TableOK /\ UsersOK
  BY DEF ResetInv, AccountsInv, AdminInv
<1>0. UNCHANGED <<form, late, acted, spent, faults>>
  BY DEF RunResetPassword, Restart, Tick, vars
<1>b. CASE Restart
  <2>1. \A q \in Requests : pc'[q] = pc[q] \/ (pc'[q] = "cut" /\ pc[q] # "new")
    BY <1>b DEF Restart, InFlight
  <2>2. UNCHANGED <<resets, minted>>
    BY <1>b DEF Restart
  <2>3. ResetStep /\ ResetsOK'
    BY <1>a, <1>0, <2>2 DEF ResetStep, ResetsOK
  <2>4. ASSUME NEW q \in Requests PROVE ResetOK(q)'
    <3>1. CASE pc'[q] = pc[q]
      BY <1>0, <2>3, <3>1, ResetBystander
    <3>2. CASE pc'[q] = "cut" /\ pc[q] # "new"
      <4>1. ResetOK(q)
        BY DEF ResetInv
      <4> QED BY <1>0, <2>2, <3>2, <4>1 DEF ResetOK
    <3> QED BY <2>1, <3>1, <3>2
  <2> QED BY <2>3, <2>4 DEF ResetInv
<1>1. ASSUME RunResetPassword \/ Tick \/ UNCHANGED vars PROVE ResetStep /\ ResetsOK'
  <2>1. CASE RunResetPassword
    <3>1. PICK u \in DOMAIN users :
            /\ minted < MaxResets /\ minted' = minted + 1
            /\ resets' = [resets EXCEPT ![u] =
                            [token |-> minted + 1, expires |-> clock + ResetTTL]]
      BY <2>1 DEF RunResetPassword
    <3> DEFINE new == [token |-> minted + 1, expires |-> clock + ResetTTL]
    <3>2. u \in UserIds
      BY <1>a, IdsInRange
    <3>3. minted \in Nat /\ minted + 1 \in ResetTokens /\ clock + ResetTTL \in Times
      BY <1>a, <3>1, AccountsAssumption DEF ResetsOK, TableOK, ResetTokens, Times
    <3>4. new \in Resets /\ new.token = minted + 1 /\ new # None
      BY <3>3, AccountsAssumption DEF Resets
    <3> HIDE DEF new
    <3>5. resets' = [resets EXCEPT ![u] = new]
      BY <3>1 DEF new
    <3>6. /\ resets' \in [UserIds -> Resets \cup {None}] /\ resets'[u] = new
          /\ \A v \in UserIds \ {u} : resets'[v] = resets[v]
      BY <1>a, <3>2, <3>4, <3>5 DEF ResetsOK
    <3>7. minted + 1 \notin 1..minted /\ 1..minted \subseteq 1..minted' /\ minted + 1 \in 1..minted'
      BY <3>1, <3>3
    <3>8. ResetStep
      <4>1. \A v \in UserIds : resets'[v] = resets[v] \/ resets'[v].token \notin 1..minted
        BY <3>4, <3>6, <3>7
      <4> QED BY <1>a, <1>0, <3>1, <3>3, <4>1 DEF ResetStep, ResetsOK
    <3>9. ResetsOK'
      <4>1. minted' \in Nat /\ faults' \in Nat /\ spent' \subseteq 1..minted'
        BY <1>a, <1>0, <3>1, <3>3, <3>7 DEF ResetsOK
      <4>2. \A v \in UserIds : resets'[v] # None => resets'[v].token \in 1..minted'
        BY <1>a, <1>0, <3>4, <3>6, <3>7 DEF ResetsOK
      <4>3. \A v, w \in UserIds :
              resets'[v] # None /\ resets'[w] # None /\ resets'[v].token = resets'[w].token => v = w
        BY <1>a, <1>0, <3>4, <3>6, <3>7 DEF ResetsOK
      <4>4. faults' = 0 => \A v \in UserIds : resets'[v] # None => resets'[v].token \notin spent'
        BY <1>a, <1>0, <3>4, <3>6, <3>7 DEF ResetsOK
      <4> QED BY <3>6, <4>1, <4>2, <4>3, <4>4 DEF ResetsOK
    <3> QED BY <3>8, <3>9
  <2>2. CASE Tick \/ UNCHANGED vars
    <3>1. UNCHANGED <<resets, minted>>
      BY <2>2 DEF Tick, vars
    <3> QED BY <1>a, <1>0, <3>1 DEF ResetStep, ResetsOK
  <2> QED BY <1>1, <2>1, <2>2
<1>2. CASE RunResetPassword \/ Tick \/ UNCHANGED vars
  <2>1. pc' = pc
    BY <1>2 DEF RunResetPassword, Tick, vars
  <2>2. \A q \in Requests : ResetOK(q)'
    BY <1>0, <1>1, <1>2, <2>1, ResetBystander
  <2> QED BY <1>1, <1>2, <2>2 DEF ResetInv
<1> QED BY <1>b, <1>2

(* SpentTokensAreRefused: two resets may race with one token, but none that    *)
(* arrives after the answer gets past consumeResetToken, unless a statement    *)
(* has failed.                                                                 *)
THEOREM SpentTokensAreRefusedHolds == Spec => []SpentTokensAreRefused
<1>1. Init => ResetInv
  <2> SUFFICES ASSUME Init PROVE ResetInv
    OBVIOUS
  <2>1. /\ minted = 0 /\ faults = 0 /\ spent = {} /\ resets = [u \in UserIds |-> None]
        /\ pc = [r \in Requests |-> "new"]
    BY DEF Init
  <2> QED BY <2>1 DEF ResetInv, ResetsOK, ResetOK
<1>2. AdminInv /\ AccountsInv /\ ResetInv /\ [Next]_vars => ResetInv'
  <2> SUFFICES ASSUME AdminInv, AccountsInv, ResetInv, [Next]_vars PROVE ResetInv'
    OBVIOUS
  <2>1. ASSUME NEW r \in Requests, Arrive(r) \/ WithSession(r) \/ StatementFails(r)
        PROVE  ResetInv'
    BY <2>1, ArriveReset, SessionAside, SideStepKeeps, FailsReset
  <2>2. ASSUME NEW r \in Requests, Handle(r) PROVE ResetInv'
    <3>1. CASE DeleteSetting(r)
      BY <3>1, DeletedToken DEF DeleteSetting, copies, env
    <3> QED BY <2>2, <3>1, HandlerAside, SideStepKeeps, ResetLookupKeeps
  <2> QED BY <2>1, <2>2, WorldReset DEF Next
<1>3. AdminInv /\ AccountsInv /\ ResetInv => SpentTokensAreRefused
  <2> SUFFICES ASSUME AdminInv, AccountsInv, ResetInv, faults = 0,
                      NEW r \in acted, form[r].op = "reset"
               PROVE  ~late[r]
    BY DEF SpentTokensAreRefused
  <2>1. r \in Requests /\ RequestOK(r) /\ ResetOK(r)
    BY DEF AccountsInv, ResetInv
  <2> QED BY <2>1 DEF ResetOK, RequestOK, LetIn, Before
<1> QED BY <1>1, <1>2, <1>3, AccountsInvHolds, PTL DEF Spec
=============================================================================
