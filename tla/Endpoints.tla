------------------------------ MODULE Endpoints -----------------------------
(***************************************************************************)
(* The Console's endpoints: the handlers of                                *)
(* src/web/internal/server/handlers_endpoints.go over the statements of    *)
(* src/web/internal/store/endpoints.go, the export the gateway starts from *)
(* (src/web/internal/gwconfig/gwconfig.go) and the seed-config command     *)
(* (src/web/cmd/console/seedconfig.go), which fills the same database from *)
(* such a file as a process of its own.                                    *)
(*                                                                         *)
(* An edit and a toggle read the row in one statement and write it in      *)
(* another.  New rows get the largest id plus one, as SQLite does for a    *)
(* primary key without AUTOINCREMENT.                                      *)
(*                                                                         *)
(* A configuration names an environment variable for its secret; the       *)
(* operator is taken to have set every variable that is named.  Texts are  *)
(* "" or one value; a replay window is "unset", "duration" or "unparsable".*)
(*                                                                         *)
(* wrote, flagged and covered are history.                                 *)
(***************************************************************************)
EXTENDS Integers, Sequences, FiniteSets, FiniteSetsExt, RouteConfig

CONSTANTS
    Requests,       \* the requests that change endpoints
    Texts,          \* what a field of a form or a file may hold
    Forms,          \* what a create or edit form may hold
    Slashed,        \* the paths that start with a slash
    Patterns,       \* the paths http.ServeMux takes as a pattern
    SeedFile,       \* the routes of the file, in order
    Ids,            \* row ids: 1 to some bound
    MaxSeeds,       \* bound on runs of seed-config
    MaxFailures,    \* bound on failing statements
    NoRow           \* no row

Routes == [path : Texts, provider : Texts, upstream : Texts, secret : Texts,
           webhook : Texts, windowText : {"unset", "duration", "unparsable"}]
Rows == [config : Routes, active : BOOLEAN]

ASSUME EndpointsAssumption ==
    /\ IsFiniteSet(Requests)
    /\ "" \in Texts \ Slashed
    /\ Forms \subseteq Routes
    /\ SeedFile \in Seq(Routes)
    /\ NoRow \notin Rows
    /\ IsFiniteSet(Ids) /\ Ids = 1..Cardinality(Ids)
    /\ MaxSeeds \in Nat
    /\ MaxFailures \in Nat

VARIABLES
    table,      \* table[id]: the row, or NoRow
    rpc,        \* rpc[r]: "idle", "update", "toggle", "done"
    target,     \* target[r]: the id of its row
    draft,      \* draft[r]: what it is going to write
    seedPC,     \* "idle", "look", "insert", "done", "failed"
    at,         \* the route seed-config is at
    seeds,      \* runs of it so far
    failures,   \* failed statements so far
    wrote,      \* wrote[id]: the last accepted form or seeded route
    flagged,    \* flagged[id]: the last value its active flag was set to
    covered     \* the file's routes whose path this run has seen in the table

vars == <<table, rpc, target, draft, seedPC, at, seeds, failures, wrote, flagged, covered>>
requestVars == <<rpc, target, draft>>
seedVars == <<seedPC, at, seeds, covered>>

Stored == {id \in Ids : table[id] # NoRow}

NewId == Max({0} \cup Stored) + 1

Init ==
    /\ table = [id \in Ids |-> NoRow]
    /\ rpc = [r \in Requests |-> "idle"]
    /\ target = [r \in Requests |-> 0]
    /\ draft = [r \in Requests |-> NoRow]
    /\ seedPC = "idle"
    /\ at = 1
    /\ seeds = 0
    /\ failures = 0
    /\ wrote = [id \in Ids |-> NoRow]
    /\ flagged = [id \in Ids |-> FALSE]
    /\ covered = {}

-----------------------------------------------------------------------------
(* What the code asks of a route before it is stored.                      *)

\* endpointFromForm: the field the provider does not use is dropped.
EndpointFromForm(f) ==
    IF f.provider = "paypal" THEN [f EXCEPT !.secret = ""] ELSE [f EXCEPT !.webhook = ""]

\* Mutant: the replay window is not parsed.
ValidateEndpointFormAnyWindow(e) ==
    /\ e.path \in Slashed
    /\ e.upstream # ""
    /\ e.provider \in HMACProviders \cup {"paypal"}
    /\ e.provider = "paypal" => e.webhook # ""
    /\ e.provider \in HMACProviders => e.secret # ""

ValidateEndpointForm(e) ==
    /\ e.path \in Slashed
    /\ e.upstream # ""
    /\ e.provider \in HMACProviders \cup {"paypal"}
    /\ e.provider = "paypal" => e.webhook # ""
    /\ e.provider \in HMACProviders => e.secret # ""
    /\ e.provider = "stripe" => e.windowText # "unparsable"

\* gwconfig.Validate.
Validate(r) ==
    /\ r.path # ""
    /\ r.provider = "paypal" => r.webhook # "" /\ r.secret = ""
    /\ r.provider \in HMACProviders => r.secret # "" /\ r.webhook = ""
    /\ r.provider = "stripe" => r.windowText # "unparsable"
    /\ r.provider \in HMACProviders \cup {"paypal"}

\* The CHECK constraints of the table.
CheckConstraints(e) ==
    \/ e.provider = "paypal" /\ e.webhook # "" /\ e.secret = ""
    \/ e.provider \in HMACProviders /\ e.secret # "" /\ e.webhook = ""

PathTaken(path, ids) == \E id \in ids : table[id] # NoRow /\ table[id].config.path = path

\* CreateEndpoint succeeds.
Insert(e) ==
    /\ CheckConstraints(e)
    /\ ~PathTaken(e.path, Ids)
    /\ NewId \in Ids
    /\ table' = [table EXCEPT ![NewId] = [config |-> e, active |-> TRUE]]
    /\ wrote' = [wrote EXCEPT ![NewId] = e]
    /\ flagged' = [flagged EXCEPT ![NewId] = TRUE]

\* A statement fails.
Failure ==
    /\ failures < MaxFailures
    /\ failures' = failures + 1

-----------------------------------------------------------------------------
(* The handlers.                                                           *)

Answered(r) == rpc' = [rpc EXCEPT ![r] = "done"]

\* handleEndpointCreate.
HandleEndpointCreate(r, f) ==
    /\ rpc[r] = "idle"
    /\ ValidateEndpointForm(EndpointFromForm(f))
    /\ Insert(EndpointFromForm(f))
    /\ Answered(r)
    /\ UNCHANGED <<target, draft, seedVars, failures>>

\* handleEndpointUpdate: the row exists and the form is valid.
BeginUpdate(r, id, f) ==
    /\ rpc[r] = "idle"
    /\ id \in Stored
    /\ ValidateEndpointForm(EndpointFromForm(f))
    /\ rpc' = [rpc EXCEPT ![r] = "update"]
    /\ target' = [target EXCEPT ![r] = id]
    /\ draft' = [draft EXCEPT ![r] = [config |-> EndpointFromForm(f), active |-> table[id].active]]
    /\ UNCHANGED <<table, seedVars, failures, wrote, flagged>>

\* Mutant: UpdateEndpoint writes active as well, as the handler read it.
FinishUpdateAll(r) ==
    /\ rpc[r] = "update"
    /\ target[r] \in Stored
    /\ CheckConstraints(draft[r].config)
    /\ ~PathTaken(draft[r].config.path, Ids \ {target[r]})
    /\ table' = [table EXCEPT ![target[r]] = draft[r]]
    /\ wrote' = [wrote EXCEPT ![target[r]] = draft[r].config]
    /\ Answered(r)
    /\ UNCHANGED <<target, draft, seedVars, failures, flagged>>

\* UpdateEndpoint leaves active alone.
FinishUpdate(r) ==
    /\ rpc[r] = "update"
    /\ target[r] \in Stored
    /\ CheckConstraints(draft[r].config)
    /\ ~PathTaken(draft[r].config.path, Ids \ {target[r]})
    /\ table' = [table EXCEPT ![target[r]].config = draft[r].config]
    /\ wrote' = [wrote EXCEPT ![target[r]] = draft[r].config]
    /\ Answered(r)
    /\ UNCHANGED <<target, draft, seedVars, failures, flagged>>

\* handleEndpointToggleActive reads the row.
BeginToggle(r, id) ==
    /\ rpc[r] = "idle"
    /\ id \in Stored
    /\ rpc' = [rpc EXCEPT ![r] = "toggle"]
    /\ target' = [target EXCEPT ![r] = id]
    /\ draft' = [draft EXCEPT ![r] = [table[id] EXCEPT !.active = ~@]]
    /\ UNCHANGED <<table, seedVars, failures, wrote, flagged>>

\* SetEndpointActive.
FinishToggle(r) ==
    /\ rpc[r] = "toggle"
    /\ target[r] \in Stored
    /\ table' = [table EXCEPT ![target[r]].active = draft[r].active]
    /\ flagged' = [flagged EXCEPT ![target[r]] = draft[r].active]
    /\ Answered(r)
    /\ UNCHANGED <<target, draft, seedVars, failures, wrote>>

\* handleEndpointDelete.
HandleEndpointDelete(r, id) ==
    /\ rpc[r] = "idle"
    /\ table' = [table EXCEPT ![id] = NoRow]
    /\ Answered(r)
    /\ UNCHANGED <<target, draft, seedVars, failures, wrote, flagged>>

\* Nothing is written: a form that is refused, a row that is not there, a
\* constraint that does not hold, or a statement that fails.
NothingWritten(r) ==
    /\ rpc[r] # "done"
    /\ Answered(r)
    /\ UNCHANGED <<table, target, draft, seedVars, failures, wrote, flagged>>

-----------------------------------------------------------------------------
(* seed-config.                                                            *)

\* Import takes the whole file or nothing.
BeginSeed ==
    /\ seedPC \in {"idle", "done", "failed"}
    /\ seeds < MaxSeeds
    /\ seeds' = seeds + 1
    /\ seedPC' = IF \A i \in DOMAIN SeedFile : Validate(SeedFile[i]) THEN "look" ELSE "failed"
    /\ at' = 1
    /\ covered' = {}
    /\ UNCHANGED <<table, requestVars, failures, wrote, flagged>>

Covers(rows) ==
    covered' = covered \cup
        {i \in {at} : \E id \in Ids : rows[id] # NoRow /\ rows[id].config.path = SeedFile[i].path}

\* GetEndpointByPath: a path that is there is skipped.
SeedLook ==
    /\ seedPC = "look"
    /\ at \in DOMAIN SeedFile
    /\ IF PathTaken(SeedFile[at].path, Ids)
       THEN at' = at + 1 /\ UNCHANGED seedPC
       ELSE seedPC' = "insert" /\ UNCHANGED at
    /\ Covers(table)
    /\ UNCHANGED <<table, requestVars, seeds, failures, wrote, flagged>>

\* The look itself fails: that is taken for a path that is not there.
SeedLookFails ==
    /\ seedPC = "look"
    /\ at \in DOMAIN SeedFile
    /\ Failure
    /\ seedPC' = "insert"
    /\ UNCHANGED <<table, requestVars, at, seeds, covered, wrote, flagged>>

SeedInsert ==
    /\ seedPC = "insert"
    /\ Insert(SeedFile[at])
    /\ seedPC' = "look"
    /\ at' = at + 1
    /\ Covers(table')
    /\ UNCHANGED <<requestVars, seeds, failures>>

\* Mutant: the failure is logged and the next route is next.
SeedInsertFailsGoesOn ==
    /\ seedPC = "insert"
    /\ \/ PathTaken(SeedFile[at].path, Ids) /\ UNCHANGED failures
       \/ Failure
    /\ seedPC' = "look"
    /\ at' = at + 1
    /\ UNCHANGED <<table, requestVars, seeds, covered, wrote, flagged>>

\* log.Fatalf: the routes before stay.
SeedInsertFails ==
    /\ seedPC = "insert"
    /\ \/ PathTaken(SeedFile[at].path, Ids) /\ UNCHANGED failures
       \/ Failure
    /\ seedPC' = "failed"
    /\ UNCHANGED <<table, requestVars, at, seeds, covered, wrote, flagged>>

EndSeed ==
    /\ seedPC = "look"
    /\ at \notin DOMAIN SeedFile
    /\ seedPC' = "done"
    /\ UNCHANGED <<table, requestVars, at, seeds, failures, covered, wrote, flagged>>

Handle(r) ==
    \/ \E f \in Forms : HandleEndpointCreate(r, f)
    \/ \E f \in Forms, id \in Ids : BeginUpdate(r, id, f)
    \/ FinishUpdate(r)
    \/ \E id \in Ids : BeginToggle(r, id) \/ HandleEndpointDelete(r, id)
    \/ FinishToggle(r)
    \/ NothingWritten(r)

Seed == BeginSeed \/ SeedLook \/ SeedLookFails \/ SeedInsert \/ SeedInsertFails \/ EndSeed

Next == (\E r \in Requests : Handle(r)) \/ Seed

Spec == Init /\ [][Next]_vars

-----------------------------------------------------------------------------
(* Properties *)

\* gwconfig.Export of ListActiveEndpoints.
Exported == {table[id].config : id \in {i \in Stored : table[i].active}}

\* The gateway registers every route without a panic or a fatal error.
Boots(routes) ==
    /\ \A r \in routes : r.path \in Patterns /\ BuildVerifier(r) = "ok"
    /\ \A r, q \in routes : r.path = q.path => r = q

\* Through creates, edits and seeds that interleave, seed-config would take
\* every export back, and the gateway starts from it if its paths are
\* patterns: no form, constraint or import lets a route through that
\* gwconfig.Validate or buildVerifier refuses (handlers_endpoints.go:274-307,
\* gwconfig.go:97-132).
ExportIsAccepted ==
    /\ \A r \in Exported : Validate(r)
    /\ (\A r \in Exported : r.path \in Patterns) => Boots(Exported)

\* An edit loses no toggle and a toggle no edit: a row is the last form that
\* was accepted for it under the flag that was set last
\* (handlers_endpoints.go:147-162, 211-216).
NoUpdateIsLost ==
    \A id \in Stored : table[id] = [config |-> wrote[id], active |-> flagged[id]]

\* A seed that ends well, also one that goes on where an earlier one failed,
\* has seen every route of its file in the table (seedconfig.go:43-53).
DoneSeedCoversFile ==
    seedPC = "done" => covered = DOMAIN SeedFile

\* VIOLATED.  "the UI can't produce a config the gateway would refuse to boot"
\* (web/DESIGN.md:455): a path http.ServeMux panics on is taken.
ExportBoots == Boots(Exported)
=============================================================================
