--------------------------- MODULE EndpointsProofs --------------------------
(***************************************************************************)
(* What the Console promises about its endpoints, for any forms, any seed  *)
(* file and any number of requests that interleave.  Every route that is   *)
(* stored, or that a handler is about to store, has passed one of the two  *)
(* validations; the theorems follow from that, from the UNIQUE path and    *)
(* from the columns each statement writes.                                 *)
(*                                                                         *)
(* Then the limiter of logins and signups, for any number of calls in any  *)
(* order: the hits it keeps have a place for every call that is still in   *)
(* some window (HoldsFresh), and denials leave a full window as it is      *)
(* (WaitsOK).                                                              *)
(***************************************************************************)
EXTENDS Endpoints, RateLimiter, QueueLemmas

TableOK ==
    /\ table \in [Ids -> Rows \cup {NoRow}]
    /\ \A id \in Stored : Validate(table[id].config)
    /\ \A i, j \in Stored : table[i].config.path = table[j].config.path => i = j

RequestsOK ==
    /\ rpc \in [Requests -> {"idle", "update", "toggle", "done"}]
    /\ target \in [Requests -> Ids \cup {0}]
    /\ draft \in [Requests -> Rows \cup {NoRow}]
    /\ \A r \in Requests :
        /\ rpc[r] \in {"update", "toggle"} => draft[r] \in Rows
        /\ rpc[r] = "update" => Validate(draft[r].config)

HistoryOK ==
    /\ wrote \in [Ids -> Routes \cup {NoRow}]
    /\ flagged \in [Ids -> BOOLEAN]

\* The routes before the one seed-config is at have been seen in the table.
SeedOK ==
    /\ at \in Nat \ {0}
    /\ covered \subseteq DOMAIN SeedFile
    /\ seedPC \in {"look", "insert"} =>
        /\ \A i \in DOMAIN SeedFile : Validate(SeedFile[i])
        /\ \A i \in DOMAIN SeedFile : i < at => i \in covered
    /\ seedPC = "insert" => at \in DOMAIN SeedFile

Inv ==
    /\ TableOK
    /\ RequestsOK
    /\ HistoryOK
    /\ SeedOK
    /\ NoUpdateIsLost
    /\ DoneSeedCoversFile

-----------------------------------------------------------------------------
(* What the validations promise.                                           *)

LEMMA FormIsRoute ==
    ASSUME NEW f \in Forms PROVE EndpointFromForm(f) \in Routes
<1>1. f \in Routes /\ "" \in Texts
  BY EndpointsAssumption
<1>2. [f EXCEPT !.secret = ""] \in Routes /\ [f EXCEPT !.webhook = ""] \in Routes
  BY <1>1 DEF Routes
<1> QED BY <1>2 DEF EndpointFromForm

LEMMA RowFields ==
    /\ \A row \in Rows : row.config \in Routes /\ row.active \in BOOLEAN
    /\ \A c \in Routes, b \in BOOLEAN : [config |-> c, active |-> b] \in Rows
BY DEF Rows

LEMMA FileIsSequence ==
    /\ Len(SeedFile) \in Nat
    /\ DOMAIN SeedFile = 1..Len(SeedFile)
    /\ \A i \in DOMAIN SeedFile : SeedFile[i] \in Routes
BY EndpointsAssumption, LenProperties, ElementOfSeq

\* The rules of the form, with the field it drops, are those of the file.
LEMMA FormRulesMatchFileRules ==
    ASSUME NEW f \in Forms, ValidateEndpointForm(EndpointFromForm(f))
    PROVE  Validate(EndpointFromForm(f))
BY EndpointsAssumption DEF EndpointFromForm, ValidateEndpointForm, Validate, Routes, HMACProviders

LEMMA ValidatedIsServed ==
    ASSUME NEW r \in Routes, Validate(r) PROVE BuildVerifier(r) = "ok"
BY DEF Validate, BuildVerifier, Routes, HMACProviders

-----------------------------------------------------------------------------
LEMMA InvInit == Init => Inv
<1> SUFFICES ASSUME Init PROVE Inv
  OBVIOUS
<1>1. Stored = {}
  BY DEF Init, Stored
<1>2. TableOK /\ NoUpdateIsLost
  BY <1>1 DEF Init, TableOK, NoUpdateIsLost
<1>3. RequestsOK /\ HistoryOK
  BY DEF Init, RequestsOK, HistoryOK
<1>4. SeedOK /\ DoneSeedCoversFile
  BY DEF Init, SeedOK, DoneSeedCoversFile
<1> QED BY <1>2, <1>3, <1>4 DEF Inv

\* An insert keeps the table valid and its paths apart.
LEMMA InsertStep ==
    ASSUME Inv, NEW e \in Routes, Validate(e), Insert(e)
    PROVE  TableOK' /\ HistoryOK' /\ NoUpdateIsLost'
<1> USE EndpointsAssumption DEF Inv
<1> DEFINE new == NewId
<1>1. /\ new \in Ids
      /\ table' = [table EXCEPT ![new] = [config |-> e, active |-> TRUE]]
      /\ wrote' = [wrote EXCEPT ![new] = e]
      /\ flagged' = [flagged EXCEPT ![new] = TRUE]
      /\ \A id \in Ids : table[id] # NoRow => table[id].config.path # e.path
  BY DEF Insert, PathTaken
<1> HIDE DEF new
<1>2. [config |-> e, active |-> TRUE] \in Rows
  BY DEF Rows
<1>3. TableOK'
  BY <1>1, <1>2 DEF TableOK, Stored
<1>4. HistoryOK'
  BY <1>1 DEF HistoryOK
<1>5. NoUpdateIsLost'
  BY <1>1, <1>2 DEF TableOK, HistoryOK, NoUpdateIsLost, Stored
<1> QED BY <1>3, <1>4, <1>5

\* UpdateEndpoint and SetEndpointActive each write their own columns.
LEMMA FinishStep ==
    ASSUME Inv, NEW r \in Requests, FinishUpdate(r) \/ FinishToggle(r)
    PROVE  TableOK' /\ HistoryOK' /\ NoUpdateIsLost'
<1> DEFINE id == target[r]
<1>1. id \in Ids /\ table[id] \in Rows /\ draft[r] \in Rows
  BY DEF FinishUpdate, FinishToggle, Stored, Inv, TableOK, RequestsOK
<1>2. CASE FinishUpdate(r)
  <2>1. /\ table' = [table EXCEPT ![id].config = draft[r].config]
        /\ wrote' = [wrote EXCEPT ![id] = draft[r].config]
        /\ flagged' = flagged
        /\ \A i \in Ids \ {id} : table[i] # NoRow => table[i].config.path # draft[r].config.path
        /\ Validate(draft[r].config)
    BY <1>2 DEF FinishUpdate, PathTaken, Inv, RequestsOK
  <2>2. table'[id] = [config |-> draft[r].config, active |-> table[id].active]
    BY <1>1, <2>1 DEF Inv, TableOK, Rows
  <2>3. table'[id] \in Rows
    BY <1>1, <2>2, RowFields
  <2>4. TableOK'
    BY <1>1, <2>1, <2>2, <2>3 DEF Inv, TableOK, Stored
  <2>5. HistoryOK'
    BY <1>1, <2>1, RowFields DEF Inv, HistoryOK
  <2>6. NoUpdateIsLost'
    <3>1. table'[id] = [config |-> wrote'[id], active |-> flagged'[id]]
      <4>1. table[id] = [config |-> wrote[id], active |-> flagged[id]]
        BY <1>1, EndpointsAssumption DEF Inv, NoUpdateIsLost, Stored
      <4> QED BY <1>1, <2>1, <2>2, <4>1 DEF Inv, HistoryOK
    <3>2. \A i \in Ids \ {id} :
             table'[i] = table[i] /\ wrote'[i] = wrote[i] /\ flagged'[i] = flagged[i]
      BY <1>1, <2>1 DEF Inv, TableOK, HistoryOK
    <3> QED BY <3>1, <3>2 DEF Inv, NoUpdateIsLost, Stored
  <2> QED BY <2>4, <2>5, <2>6
<1>3. CASE FinishToggle(r)
  <2>1. /\ table' = [table EXCEPT ![id].active = draft[r].active]
        /\ wrote' = wrote
        /\ flagged' = [flagged EXCEPT ![id] = draft[r].active]
    BY <1>3 DEF FinishToggle
  <2>2. table'[id] = [config |-> table[id].config, active |-> draft[r].active]
    BY <1>1, <2>1 DEF Inv, TableOK, Rows
  <2>3. table'[id] \in Rows
    BY <1>1, <2>2, RowFields
  <2>4. TableOK'
    <3>1. \A i \in Ids : /\ table'[i] = NoRow <=> table[i] = NoRow
                         /\ table[i] # NoRow => table'[i].config = table[i].config
      BY <1>1, <2>1, <2>2, <2>3, EndpointsAssumption DEF Inv, TableOK
    <3>2. table' \in [Ids -> Rows \cup {NoRow}]
      BY <1>1, <2>1, <2>2, <2>3 DEF Inv, TableOK
    <3>3. Stored' = Stored
      BY <3>1 DEF Stored
    <3>4. \A i \in Stored : table'[i].config = table[i].config
      BY <3>1 DEF Stored
    <3> QED BY <3>2, <3>3, <3>4 DEF Inv, TableOK
  <2>5. HistoryOK'
    BY <1>1, <2>1, RowFields DEF Inv, HistoryOK
  <2>6. NoUpdateIsLost'
    <3>1. table'[id] = [config |-> wrote'[id], active |-> flagged'[id]]
      <4>1. table[id] = [config |-> wrote[id], active |-> flagged[id]]
        BY <1>1, EndpointsAssumption DEF Inv, NoUpdateIsLost, Stored
      <4> QED BY <1>1, <2>1, <2>2, <4>1 DEF Inv, HistoryOK
    <3>2. \A i \in Ids \ {id} :
             table'[i] = table[i] /\ wrote'[i] = wrote[i] /\ flagged'[i] = flagged[i]
      BY <1>1, <2>1 DEF Inv, TableOK, HistoryOK
    <3> QED BY <3>1, <3>2 DEF Inv, NoUpdateIsLost, Stored
  <2> QED BY <2>4, <2>5, <2>6
<1> QED BY <1>2, <1>3

LEMMA HandleStep == ASSUME Inv, NEW r \in Requests, Handle(r) PROVE Inv'
<1> USE EndpointsAssumption
<1>1. ASSUME NEW f \in Forms, HandleEndpointCreate(r, f) PROVE Inv'
  <2> DEFINE e == EndpointFromForm(f)
  <2>1. e \in Routes /\ Validate(e)
    BY <1>1, FormIsRoute, FormRulesMatchFileRules DEF HandleEndpointCreate
  <2>2. Insert(e)
    BY <1>1 DEF HandleEndpointCreate
  <2>3. TableOK' /\ HistoryOK' /\ NoUpdateIsLost'
    <3> HIDE DEF e
    <3> QED BY <2>1, <2>2, InsertStep
  <2>4. RequestsOK' /\ SeedOK' /\ DoneSeedCoversFile'
    BY <1>1 DEF HandleEndpointCreate, Answered, Inv, RequestsOK, SeedOK,
                DoneSeedCoversFile, seedVars
  <2> QED BY <2>3, <2>4 DEF Inv
<1>2. ASSUME NEW f \in Forms, NEW id \in Ids, BeginUpdate(r, id, f) PROVE Inv'
  <2> DEFINE e == EndpointFromForm(f)
             d == [config |-> e, active |-> table[id].active]
  <2>1. e \in Routes /\ Validate(e)
    BY <1>2, FormIsRoute, FormRulesMatchFileRules DEF BeginUpdate
  <2>2. table[id] \in Rows
    BY <1>2 DEF BeginUpdate, Stored, Inv, TableOK
  <2>3. /\ rpc' = [rpc EXCEPT ![r] = "update"]
        /\ target' = [target EXCEPT ![r] = id]
        /\ draft' = [draft EXCEPT ![r] = d]
    BY <1>2 DEF BeginUpdate
  <2>4. d \in Rows /\ Validate(d.config)
    <3> HIDE DEF e
    <3> QED BY <2>1, <2>2 DEF Rows
  <2>5. RequestsOK'
    <3> HIDE DEF d
    <3> QED BY <2>3, <2>4 DEF Inv, RequestsOK
  <2>6. (TableOK /\ HistoryOK /\ NoUpdateIsLost /\ SeedOK /\ DoneSeedCoversFile)'
    BY <1>2 DEF BeginUpdate, Inv, TableOK, Stored, HistoryOK, NoUpdateIsLost, SeedOK,
                DoneSeedCoversFile, seedVars
  <2> QED BY <2>5, <2>6 DEF Inv
<1>3. CASE FinishUpdate(r) \/ FinishToggle(r)
  <2>1. (RequestsOK /\ SeedOK /\ DoneSeedCoversFile)'
    BY <1>3 DEF FinishUpdate, FinishToggle, Answered, Inv, RequestsOK, SeedOK,
                DoneSeedCoversFile, seedVars
  <2> QED BY <1>3, <2>1, FinishStep DEF Inv
<1>4. ASSUME NEW id \in Ids, BeginToggle(r, id) PROVE Inv'
  <2> DEFINE d == [table[id] EXCEPT !.active = ~@]
  <2>1. table[id] \in Rows
    BY <1>4 DEF BeginToggle, Stored, Inv, TableOK
  <2>2. d \in Rows
    BY <2>1 DEF Rows
  <2>3. /\ rpc' = [rpc EXCEPT ![r] = "toggle"]
        /\ target' = [target EXCEPT ![r] = id]
        /\ draft' = [draft EXCEPT ![r] = d]
    BY <1>4 DEF BeginToggle
  <2>4. RequestsOK'
    <3> HIDE DEF d
    <3> QED BY <2>2, <2>3 DEF Inv, RequestsOK
  <2>5. (TableOK /\ HistoryOK /\ NoUpdateIsLost /\ SeedOK /\ DoneSeedCoversFile)'
    BY <1>4 DEF BeginToggle, Inv, TableOK, Stored, HistoryOK, NoUpdateIsLost, SeedOK,
                DoneSeedCoversFile, seedVars
  <2> QED BY <2>4, <2>5 DEF Inv
<1>5. ASSUME NEW id \in Ids, HandleEndpointDelete(r, id) PROVE Inv'
  BY <1>5 DEF HandleEndpointDelete, Answered, Inv, TableOK, Stored, RequestsOK, HistoryOK,
              NoUpdateIsLost, SeedOK, DoneSeedCoversFile, seedVars
<1>6. CASE NothingWritten(r)
  BY <1>6 DEF NothingWritten, Answered, Inv, TableOK, Stored, RequestsOK, HistoryOK,
              NoUpdateIsLost, SeedOK, DoneSeedCoversFile, seedVars
<1> QED BY <1>1, <1>2, <1>3, <1>4, <1>5, <1>6 DEF Handle

\* A route the run goes past is in the table at that moment.
LEMMA SeedStep == ASSUME Inv, Seed PROVE Inv'
<1>1. CASE SeedInsert
  <2>1. SeedFile[at] \in Routes /\ Validate(SeedFile[at]) /\ Insert(SeedFile[at])
    BY <1>1, FileIsSequence DEF SeedInsert, Inv, SeedOK
  <2>2. TableOK' /\ HistoryOK' /\ NoUpdateIsLost'
    BY <2>1, InsertStep
  <2>3. at \in covered'
    <3>1. NewId \in Ids /\ table'[NewId] = [config |-> SeedFile[at], active |-> TRUE]
      BY <2>1 DEF Insert, Inv, TableOK
    <3>2. table'[NewId] # NoRow
      BY <2>1, <3>1, RowFields, EndpointsAssumption
    <3> QED BY <1>1, <3>1, <3>2 DEF SeedInsert, Covers
  <2>4. SeedOK'
    BY <1>1, <2>3, FileIsSequence DEF SeedInsert, Covers, Inv, SeedOK
  <2>5. RequestsOK' /\ DoneSeedCoversFile'
    BY <1>1 DEF SeedInsert, Inv, RequestsOK, DoneSeedCoversFile, requestVars
  <2> QED BY <2>2, <2>4, <2>5 DEF Inv
<1>2. ASSUME BeginSeed \/ SeedLook \/ SeedLookFails \/ SeedInsertFails \/ EndSeed
      PROVE  Inv'
  <2>1. (TableOK /\ HistoryOK /\ NoUpdateIsLost /\ RequestsOK)'
    BY <1>2 DEF BeginSeed, SeedLook, SeedLookFails, SeedInsertFails, EndSeed, Inv, TableOK,
                Stored, HistoryOK, NoUpdateIsLost, RequestsOK, requestVars
  <2>2. SeedOK' /\ DoneSeedCoversFile'
    <3>1. CASE BeginSeed
      BY <3>1, FileIsSequence DEF BeginSeed, Inv, SeedOK, DoneSeedCoversFile
    <3>2. CASE SeedLook
      BY <3>2, FileIsSequence DEF SeedLook, Covers, PathTaken, Inv, SeedOK, DoneSeedCoversFile
    <3>3. CASE SeedLookFails \/ SeedInsertFails
      BY <3>3 DEF SeedLookFails, SeedInsertFails, Inv, SeedOK, DoneSeedCoversFile
    <3>4. CASE EndSeed
      <4>1. \A i \in DOMAIN SeedFile : i < at
        BY <3>4, FileIsSequence DEF EndSeed, Inv, SeedOK
      <4>2. covered = DOMAIN SeedFile
        BY <3>4, <4>1 DEF EndSeed, Inv, SeedOK
      <4> QED BY <3>4, <4>2 DEF EndSeed, Inv, SeedOK, DoneSeedCoversFile
    <3> QED BY <1>2, <3>1, <3>2, <3>3, <3>4
  <2> QED BY <2>1, <2>2 DEF Inv
<1> QED BY <1>1, <1>2 DEF Seed

LEMMA InvHolds == Spec => []Inv
<1>1. Inv /\ UNCHANGED vars => Inv'
  BY DEF vars, requestVars, seedVars, Inv, TableOK, Stored, RequestsOK, HistoryOK,
         NoUpdateIsLost, SeedOK, DoneSeedCoversFile
<1>2. Inv /\ [Next]_vars => Inv'
  BY <1>1, HandleStep, SeedStep DEF Next
<1> QED BY <1>2, InvInit, PTL DEF Spec

-----------------------------------------------------------------------------
(* Whatever forms are posted and whatever file is seeded, in any order:    *)
(* seed-config takes the export back, and the gateway starts from it if    *)
(* its paths are patterns.  The three copies of the rules per provider, in *)
(* validateEndpointForm, gwconfig.Validate and the gateway's factories,    *)
(* agree as far as this needs.                                             *)
THEOREM ExportIsAcceptedHolds == Spec => []ExportIsAccepted
<1>1. Inv => ExportIsAccepted
  <2> SUFFICES ASSUME Inv PROVE ExportIsAccepted
    OBVIOUS
  <2>1. \A id \in Stored : table[id] \in Rows /\ Validate(table[id].config)
    BY DEF Inv, TableOK, Stored
  <2>2. \A r \in Exported : r \in Routes /\ Validate(r)
    BY <2>1 DEF Exported, Rows
  <2>3. \A r, q \in Exported : r.path = q.path => r = q
    BY DEF Exported, Inv, TableOK
  <2> QED BY <2>2, <2>3, ValidatedIsServed DEF ExportIsAccepted, Boots
<1> QED BY <1>1, InvHolds, PTL

(* An edit loses no toggle and a toggle no edit, for any number of them    *)
(* in any order, over rows that are deleted and whose ids are reused.      *)
THEOREM NoUpdateIsLostHolds == Spec => []NoUpdateIsLost
<1>1. Inv => NoUpdateIsLost
  BY DEF Inv
<1> QED BY <1>1, InvHolds, PTL

(* A seed-config that ends well has seen every route of its file in the    *)
(* table, whatever the Console's users do meanwhile.                       *)
THEOREM DoneSeedCoversFileHolds == Spec => []DoneSeedCoversFile
<1>1. Inv => DoneSeedCoversFile
  BY DEF Inv
<1> QED BY <1>1, InvHolds, PTL

-----------------------------------------------------------------------------
(* The limiter.  FilterLength is about a filter that drops nothing.          *)
LEMMA FilterLength ==
    ASSUME NEW S, NEW s \in Seq(S), NEW T
    PROVE  /\ Len(Filter(s, T)) <= Len(s)
           /\ Len(Filter(s, T)) = Len(s) =>
                Filter(s, T) = s /\ \A i \in DOMAIN s : s[i] \in T
<1> DEFINE r == Filter(s, T)
           m == Len(r)
           n == Len(s)
<1>1. r \in Seq(S) /\ \E place : IsPlacing(place, r, s, T)
  BY FilterProperties
<1>2. PICK place : IsPlacing(place, r, s, T)
  BY <1>1
<1> HIDE DEF r
<1>3. m \in Nat /\ n \in Nat /\ DOMAIN r = 1..m /\ DOMAIN s = 1..n
  BY <1>1, LenProperties
<1>4. /\ place \in Seq(1..n) /\ Len(place) = m /\ IsAscending(place)
      /\ \A k \in 1..m : r[k] = s[place[k]] /\ r[k] \in T
  BY <1>2, <1>3 DEF IsPlacing
<1> HIDE DEF m, n
<1>5. place \in [1..m -> 1..n] /\ DOMAIN place = 1..m
  BY <1>4, LenProperties
<1>6. \A i, j \in 1..m : place[i] = place[j] => i = j
  <2> SUFFICES ASSUME NEW i \in 1..m, NEW j \in 1..m, place[i] = place[j] PROVE i = j
    OBVIOUS
  <2>1. place[i] \in Int /\ place[j] \in Int
    BY <1>3, <1>5
  <2>2. ~(i < j) /\ ~(j < i)
    BY <1>4, <1>5, <2>1 DEF IsAscending
  <2> QED BY <1>3, <2>2
<1>7. place \in Injection(1..m, 1..n)
  BY <1>5, <1>6 DEF Injection, IsInjective
<1>8. /\ IsFiniteSet(1..m) /\ Cardinality(1..m) = m
      /\ IsFiniteSet(1..n) /\ Cardinality(1..n) = n
  BY <1>3, FS_Interval
<1>9. m <= n
  BY <1>7, <1>8, FS_Injection
<1>10. ASSUME m = n PROVE r = s /\ \A i \in DOMAIN s : s[i] \in T
  <2>1. place \in Surjection(1..m, 1..n)
    BY <1>7, <1>8, <1>10, FS_Injection
  <2>2. ASSUME NEW i \in DOMAIN s PROVE s[i] \in T
    <3>1. PICK k \in 1..m : place[k] = i
      BY <1>3, <2>1 DEF Surjection
    <3> QED BY <1>4, <3>1
  <2> DEFINE id == [i \in 1..n |-> i]
  <2>3. id \in Seq(DOMAIN s) /\ Len(id) = n /\ DOMAIN id = 1..n
    BY <1>3
  <2>4. IsPlacing(id, s, s, T)
    BY <1>3, <2>2, <2>3 DEF IsPlacing, IsAscending, n
  <2>5. s = Filter(s, T)
    BY <2>4, FilterIsUnique
  <2> QED BY <2>2, <2>5 DEF r
<1> QED BY <1>9, <1>10 DEF m, n, r

(* A call is fresh while no later decision has put it a window behind; the   *)
(* hits hold the stamp of every fresh call that was let through, each in a   *)
(* place of its own (places).                                                *)
Fresh(a) == \A d \in Decided : stamp[d] - HitWindow < stamp[a]

HoldsFresh(places) ==
    /\ \A a \in Allowed : Fresh(a) =>
        places[a] \in DOMAIN hits /\ hits[places[a]] = stamp[a]
    /\ \A a, b \in Allowed : Fresh(a) /\ Fresh(b) /\ places[a] = places[b] => a = b

InTime(end) ==
    {a \in Allowed \ overtaken : stamp[a] > end - HitWindow /\ stamp[a] <= end}

Denied == {a \in Attempts : apc[a] = "denied"}

LimiterTypes ==
    /\ tick \in Nat
    /\ apc \in [Attempts -> {"idle", "stamped", "allowed", "denied"}]
    /\ stamp \in [Attempts -> Nat]
    /\ retryAt \in [Attempts -> Int]
    /\ hits \in Seq(Nat)
    /\ admissions \in [Attempts -> Nat]

(* While no call is let through, denials leave the hits as they are: what    *)
(* the first was told holds for the next ones.                               *)
WaitsOK ==
    /\ Len(hits) <= MaxHits
    /\ \A d \in Denied :
        /\ admissions[d] <= Cardinality(Allowed)
        /\ admissions[d] = Cardinality(Allowed) =>
            Len(hits) >= MaxHits /\ retryAt[d] = hits[1] + HitWindow
        /\ \A a \in Denied : admissions[a] = admissions[d] => stamp[a] < retryAt[d]

LimiterInv ==
    /\ LimiterTypes
    /\ \E places \in [Attempts -> Nat] : HoldsFresh(places)
    /\ \A end \in Int : Cardinality(InTime(end)) <= MaxHits
    /\ WaitsOK

LEMMA LimiterSets ==
    /\ IsFiniteSet(Allowed) /\ Cardinality(Allowed) \in Nat
    /\ \A end : IsFiniteSet(InTime(end)) /\ Cardinality(InTime(end)) \in Nat
<1>1. IsFiniteSet(Allowed)
  BY LimiterAssumption, FS_Subset DEF Allowed
<1>2. ASSUME NEW end PROVE IsFiniteSet(InTime(end))
  <2>1. InTime(end) \subseteq Allowed
    BY DEF InTime
  <2> QED BY <1>1, <2>1, FS_Subset
<1> QED BY <1>1, <1>2, FS_CardinalityType

LEMMA LimiterInvInit == LimiterInit => LimiterInv
<1> SUFFICES ASSUME LimiterInit PROVE LimiterInv
  OBVIOUS
<1>1. Allowed = {} /\ Denied = {}
  BY DEF LimiterInit, Allowed, Denied
<1>2. LimiterTypes
  BY EmptySeq DEF LimiterInit, LimiterTypes
<1>3. HoldsFresh([a \in Attempts |-> 0])
  BY <1>1 DEF HoldsFresh
<1>4. \A end : InTime(end) = {}
  BY <1>1 DEF InTime
<1>5. Cardinality({}) = 0 /\ 0 <= MaxHits
  BY FS_EmptySet, LimiterAssumption
<1>6. WaitsOK
  BY <1>1, <1>5, EmptySeq DEF LimiterInit, WaitsOK
<1>7. [a \in Attempts |-> 0] \in [Attempts -> Nat]
  OBVIOUS
<1>8. \A end \in Int : Cardinality(InTime(end)) <= MaxHits
  BY <1>4, <1>5
<1> QED BY <1>2, <1>3, <1>6, <1>7, <1>8 DEF LimiterInv

\* Where each hit of the window that ends now is in kept.
NewPlaces(to, kept, now) ==
    /\ \A i \in DOMAIN hits : hits[i] > now - HitWindow =>
          to[i] \in DOMAIN kept /\ kept[to[i]] = hits[i]
    /\ \A i, j \in DOMAIN hits :
          hits[i] > now - HitWindow /\ hits[j] > now - HitWindow /\ to[i] = to[j] => i = j

LEMMA OneMore ==
    ASSUME NEW S, IsFiniteSet(S), NEW x
    PROVE  IsFiniteSet(S \cup {x}) /\ Cardinality(S \cup {x}) <= Cardinality(S) + 1
<1>1. Cardinality(S) \in Nat
  BY FS_CardinalityType
<1>2. /\ IsFiniteSet(S \cup {x})
      /\ Cardinality(S \cup {x}) = IF x \in S THEN Cardinality(S) ELSE Cardinality(S) + 1
  BY FS_AddElement
<1> QED BY <1>1, <1>2

LEMMA OneToN == ASSUME NEW n \in Nat PROVE IsFiniteSet(1..n) /\ Cardinality(1..n) = n
BY FS_Interval

LEMMA KeptHits ==
    ASSUME LimiterTypes, NEW now \in Nat, NEW kept, kept = Kept(now)
    PROVE  /\ kept \in Seq(Nat) /\ Len(kept) \in Nat /\ Len(kept) <= Len(hits)
           /\ DOMAIN kept = 1..Len(kept)
           /\ \A k \in DOMAIN kept : kept[k] > now - HitWindow
           /\ Len(kept) = Len(hits) => kept = hits
           /\ \E to \in [Nat -> Nat] : NewPlaces(to, kept, now)
<1> DEFINE T == {t \in Int : t > now - HitWindow}
<1>1. kept = Filter(hits, T) /\ hits \in Seq(Nat)
  BY DEF Kept, LimiterTypes
<1>2. kept \in Seq(Nat) /\ \E place : IsPlacing(place, kept, hits, T)
  BY <1>1, FilterProperties
<1>3. Len(kept) <= Len(hits) /\ (Len(kept) = Len(hits) => kept = hits)
  BY <1>1, FilterLength
<1>4. PICK place : IsPlacing(place, kept, hits, T)
  BY <1>2
<1>5. Len(kept) \in Nat /\ DOMAIN kept = 1..Len(kept) /\ DOMAIN hits \subseteq Nat
      /\ \A i \in DOMAIN hits : hits[i] \in Nat
  BY <1>1, <1>2, LenProperties, ElementOfSeq
<1>6. /\ \A k \in DOMAIN kept : kept[k] = hits[place[k]] /\ kept[k] \in T
      /\ \A i \in DOMAIN hits : hits[i] \in T => \E k \in DOMAIN kept : place[k] = i
  BY <1>4 DEF IsPlacing
<1> DEFINE to == [i \in Nat |-> IF \E k \in DOMAIN kept : place[k] = i
                                THEN CHOOSE k \in DOMAIN kept : place[k] = i ELSE 0]
<1>7. ASSUME NEW i \in DOMAIN hits, hits[i] > now - HitWindow
      PROVE  to[i] \in DOMAIN kept /\ place[to[i]] = i
  <2>1. \E k \in DOMAIN kept : place[k] = i
    BY <1>5, <1>6, <1>7
  <2>2. to[i] = CHOOSE k \in DOMAIN kept : place[k] = i
    BY <1>5, <2>1
  <2> QED BY <2>1, <2>2
<1>8. to \in [Nat -> Nat]
  <2> SUFFICES ASSUME NEW i \in Nat PROVE to[i] \in Nat
    OBVIOUS
  <2>1. CASE \E k \in DOMAIN kept : place[k] = i
    <3>1. to[i] = CHOOSE k \in DOMAIN kept : place[k] = i
      BY <2>1
    <3> QED BY <1>5, <2>1, <3>1
  <2>2. CASE ~\E k \in DOMAIN kept : place[k] = i
    BY <2>2
  <2> QED BY <2>1, <2>2
<1> HIDE DEF to
<1>9. NewPlaces(to, kept, now)
  BY <1>6, <1>7 DEF NewPlaces
<1>11. \A k \in DOMAIN kept : kept[k] > now - HitWindow
  BY <1>6
<1> QED BY <1>2, <1>3, <1>5, <1>8, <1>9, <1>11

\* The calls that a decision at now leaves fresh have a place in kept.
HoldsStill(p, kept, now) ==
    LET Stays(b) == Fresh(b) /\ now - HitWindow < stamp[b]
    IN  /\ \A b \in Allowed : Stays(b) => p[b] \in DOMAIN kept /\ kept[p[b]] = stamp[b]
        /\ \A b, c \in Allowed : Stays(b) /\ Stays(c) /\ p[b] = p[c] => b = c

LEMMA KeptPlaces ==
    ASSUME LimiterTypes, NEW a \in Attempts, apc[a] = "stamped",
           NEW places \in [Attempts -> Nat], HoldsFresh(places),
           NEW kept, kept = Kept(stamp[a])
    PROVE  \E p \in [Attempts -> Nat] : HoldsStill(p, kept, stamp[a])
<1> DEFINE now == stamp[a]
           Stays(b) == Fresh(b) /\ now - HitWindow < stamp[b]
<1>1. now \in Nat /\ (\A b \in Attempts : stamp[b] \in Nat) /\ Allowed \subseteq Attempts
  BY DEF LimiterTypes, Allowed
<1>k. kept = Kept(now)
  OBVIOUS
<1> HIDE DEF now
<1>2. PICK to \in [Nat -> Nat] : NewPlaces(to, kept, now)
  BY <1>1, <1>k, KeptHits
<1> DEFINE p == [b \in Attempts |-> to[places[b]]]
<1>3. p \in [Attempts -> Nat]
  OBVIOUS
<1>4. ASSUME NEW b \in Allowed, Stays(b)
      PROVE  /\ places[b] \in DOMAIN hits /\ hits[places[b]] = stamp[b]
             /\ hits[places[b]] > now - HitWindow
  <2>1. places[b] \in DOMAIN hits /\ hits[places[b]] = stamp[b]
    BY <1>4 DEF HoldsFresh
  <2> QED BY <1>1, <1>4, <2>1, LimiterAssumption
<1>5. ASSUME NEW b \in Allowed, Stays(b) PROVE p[b] \in DOMAIN kept /\ kept[p[b]] = stamp[b]
  BY <1>1, <1>2, <1>4, <1>5 DEF NewPlaces
<1>6. ASSUME NEW b \in Allowed, NEW c \in Allowed, Stays(b), Stays(c), p[b] = p[c]
      PROVE  b = c
  <2>1. places[b] = places[c]
    BY <1>1, <1>2, <1>4, <1>6 DEF NewPlaces
  <2> QED BY <1>6, <2>1 DEF HoldsFresh
<1>7. HoldsStill(p, kept, now)
  BY <1>5, <1>6 DEF HoldsStill
<1> QED BY <1>3, <1>7 DEF now

\* Only the decision that is taken can put a call behind, or let it through.
LEMMA DecisionSets ==
    ASSUME LimiterTypes, NEW a \in Attempts, apc[a] = "stamped", UNCHANGED stamp,
           NEW answer \in {"allowed", "denied"}, apc' = [apc EXCEPT ![a] = answer]
    PROVE  /\ Decided' = Decided \cup {a}
           /\ Allowed' = IF answer = "allowed" THEN Allowed \cup {a} ELSE Allowed
           /\ Denied' = IF answer = "denied" THEN Denied \cup {a} ELSE Denied
           /\ a \notin Allowed /\ a \notin Denied /\ a \notin Decided
           /\ \A b : Fresh(b)' => Fresh(b) /\ stamp[a] - HitWindow < stamp[b]
<1>1. Decided' = Decided \cup {a} /\ a \notin Allowed /\ a \notin Denied /\ a \notin Decided
  BY DEF LimiterTypes, Decided, Allowed, Denied
<1>2. Allowed' = IF answer = "allowed" THEN Allowed \cup {a} ELSE Allowed
  BY DEF LimiterTypes, Allowed
<1>3. Denied' = IF answer = "denied" THEN Denied \cup {a} ELSE Denied
  BY DEF LimiterTypes, Denied
<1>4. \A b : Fresh(b)' => Fresh(b) /\ stamp[a] - HitWindow < stamp[b]
  BY <1>1 DEF Fresh
<1> QED BY <1>1, <1>2, <1>3, <1>4

\* A window that a call which was not overtaken falls into has room for it.
LEMMA RoomInWindow ==
    ASSUME LimiterTypes, NEW a \in Attempts, apc[a] = "stamped",
           \A d \in Decided : stamp[d] <= stamp[a],
           NEW places \in [Attempts -> Nat], HoldsFresh(places),
           NEW kept, kept = Kept(stamp[a]), Len(kept) < MaxHits,
           NEW end \in Int, stamp[a] <= end
    PROVE  Cardinality(InTime(end)) < MaxHits
<1> DEFINE now == stamp[a]
<1>1. now \in Nat /\ (\A b \in Attempts : stamp[b] \in Nat) /\ Allowed \subseteq Attempts
      /\ Allowed \subseteq Decided /\ Decided \subseteq Attempts
  BY DEF LimiterTypes, Allowed, Decided
<1>2. Len(kept) \in Nat /\ DOMAIN kept = 1..Len(kept)
  BY <1>1, KeptHits
<1>3. PICK p \in [Attempts -> Nat] : HoldsStill(p, kept, now)
  BY KeptPlaces
<1>4. ASSUME NEW b \in InTime(end)
      PROVE  b \in Allowed /\ Fresh(b) /\ now - HitWindow < stamp[b]
  <2>1. b \in Allowed /\ stamp[b] > end - HitWindow
    BY <1>4 DEF InTime
  <2>2. now - HitWindow < stamp[b]
    BY <1>1, <2>1, LimiterAssumption
  <2>3. ASSUME NEW d \in Decided PROVE stamp[d] - HitWindow < stamp[b]
    <3>1. stamp[d] <= now /\ stamp[d] \in Nat /\ stamp[b] \in Nat
      BY <1>1, <2>1
    <3> QED BY <1>1, <2>2, <3>1, LimiterAssumption
  <2> QED BY <2>1, <2>2, <2>3 DEF Fresh
<1> DEFINE f == [b \in InTime(end) |-> p[b]]
<1>5. f \in Injection(InTime(end), 1..Len(kept))
  BY <1>2, <1>3, <1>4 DEF HoldsStill, Injection, IsInjective
<1>6. IsFiniteSet(1..Len(kept)) /\ Cardinality(1..Len(kept)) = Len(kept)
  BY <1>2, OneToN
<1>7. Cardinality(InTime(end)) <= Len(kept)
  BY <1>5, <1>6, FS_Injection
<1> QED BY <1>2, <1>7, LimiterSets, LimiterAssumption

LEMMA AllowStep ==
    ASSUME LimiterInv, NEW a \in Attempts, Allow(a) PROVE LimiterInv'
<1> DEFINE now == stamp[a]
           kept == Kept(now)
<1>0. LimiterTypes /\ WaitsOK
  BY DEF LimiterInv
<1>1. /\ apc[a] = "stamped" /\ apc' = [apc EXCEPT ![a] = "allowed"]
      /\ Len(kept) < MaxHits /\ hits' = Append(kept, now)
      /\ overtaken' = IF \E d \in Decided : stamp[d] > now THEN overtaken \cup {a} ELSE overtaken
      /\ UNCHANGED <<tick, stamp, retryAt, admissions>>
  <2>1. Len(kept) \in Nat
    BY <1>0, KeptHits DEF LimiterTypes
  <2> QED BY <2>1, LimiterAssumption DEF Allow, IsFull, Overtake
<1> HIDE DEF kept
<1>2. now \in Nat /\ (\A b \in Attempts : stamp[b] \in Nat) /\ Allowed \subseteq Attempts
      /\ Decided \subseteq Attempts
  BY <1>0 DEF LimiterTypes, Allowed, Decided
<1>3. kept \in Seq(Nat) /\ Len(kept) \in Nat /\ DOMAIN kept = 1..Len(kept)
  BY <1>0, <1>2, KeptHits DEF kept
<1>4. /\ Decided' = Decided \cup {a} /\ Allowed' = Allowed \cup {a} /\ Denied' = Denied
      /\ a \notin Allowed /\ a \notin Denied
      /\ \A b : Fresh(b)' => Fresh(b) /\ now - HitWindow < stamp[b]
  BY <1>0, <1>1, DecisionSets
<1>5. /\ hits' \in Seq(Nat) /\ Len(hits') = Len(kept) + 1
      /\ \A i \in 1..Len(kept) : hits'[i] = kept[i]
      /\ hits'[Len(kept) + 1] = now /\ DOMAIN hits' = 1..(Len(kept) + 1)
  <2>1. /\ hits' \in Seq(Nat) /\ Len(hits') = Len(kept) + 1
        /\ \A i \in 1..Len(kept) : hits'[i] = kept[i]
        /\ hits'[Len(kept) + 1] = now
    BY <1>1, <1>2, <1>3, AppendProperties
  <2> QED BY <2>1, LenProperties
<1>6. LimiterTypes'
  BY <1>0, <1>1, <1>5 DEF LimiterTypes
<1>7. PICK places \in [Attempts -> Nat] : HoldsFresh(places)
  BY DEF LimiterInv
<1>8. PICK p \in [Attempts -> Nat] : HoldsStill(p, kept, now)
  BY <1>0, <1>1, <1>7, KeptPlaces DEF kept
<1>9. PICK q \in [Attempts -> Nat] : q[a] = Len(kept) + 1 /\ \A b \in Allowed : q[b] = p[b]
  <2> DEFINE new == [p EXCEPT ![a] = Len(kept) + 1]
  <2>1. new \in [Attempts -> Nat] /\ new[a] = Len(kept) + 1 /\ \A b \in Allowed : new[b] = p[b]
    BY <1>2, <1>3, <1>4
  <2> QED BY <2>1
<1>10. HoldsFresh(q)'
  <2>1. ASSUME NEW b \in Allowed', Fresh(b)' PROVE q[b] \in DOMAIN hits' /\ hits'[q[b]] = stamp'[b]
    <3>1. CASE b = a
      BY <1>1, <1>3, <1>5, <1>9, <3>1
    <3>2. CASE b \in Allowed
      <4>1. p[b] \in 1..Len(kept) /\ kept[p[b]] = stamp[b] /\ q[b] = p[b]
        BY <1>3, <1>4, <1>8, <1>9, <2>1, <3>2 DEF HoldsStill
      <4>2. p[b] \in 1..(Len(kept) + 1)
        BY <1>3, <4>1
      <4> QED BY <1>1, <1>5, <4>1, <4>2
    <3> QED BY <1>4, <3>1, <3>2
  <2>2. ASSUME NEW b \in Allowed', NEW c \in Allowed', Fresh(b)', Fresh(c)', q[b] = q[c]
        PROVE  b = c
    <3>1. \A x \in Allowed : Fresh(x)' => q[x] = p[x] /\ p[x] \in 1..Len(kept)
      BY <1>3, <1>4, <1>8, <1>9 DEF HoldsStill
    <3>2. \A x \in Allowed : Fresh(x)' => q[x] # q[a]
      BY <1>3, <1>9, <3>1
    <3> QED BY <1>4, <1>8, <2>2, <3>1, <3>2 DEF HoldsStill
  <2> QED BY <2>1, <2>2 DEF HoldsFresh
<1>11. ASSUME NEW end \in Int PROVE Cardinality(InTime(end)') <= MaxHits
  <2>1. Cardinality(InTime(end)) <= MaxHits
    BY DEF LimiterInv
  <2>2. CASE InTime(end)' \subseteq InTime(end)
    <3>1. Cardinality(InTime(end)') <= Cardinality(InTime(end)) /\ Cardinality(InTime(end)') \in Nat
      BY <2>2, LimiterSets, FS_Subset, FS_CardinalityType
    <3> QED BY <2>1, <3>1, LimiterSets, LimiterAssumption
  <2>3. CASE \E d \in Decided : stamp[d] > now
    <3>1. InTime(end)' \subseteq InTime(end)
      BY <1>1, <1>4, <2>3 DEF InTime
    <3> QED BY <2>2, <3>1
  <2>4. CASE (\A d \in Decided : ~(stamp[d] > now)) /\ ~(now <= end)
    <3>1. InTime(end)' \subseteq InTime(end)
      BY <1>1, <1>4, <2>4 DEF InTime
    <3> QED BY <2>2, <3>1
  <2>5. CASE (\A d \in Decided : ~(stamp[d] > now)) /\ now <= end
    <3>1. \A d \in Decided : stamp[d] <= now
      BY <1>2, <2>5
    <3>2. Cardinality(InTime(end)) < MaxHits
      BY <1>0, <1>1, <1>7, <2>5, <3>1, RoomInWindow DEF kept
    <3>3. InTime(end)' \subseteq InTime(end) \cup {a}
      BY <1>1, <1>4, <2>5 DEF InTime
    <3>4. IsFiniteSet(InTime(end) \cup {a})
          /\ Cardinality(InTime(end) \cup {a}) <= Cardinality(InTime(end)) + 1
      BY LimiterSets, OneMore
    <3>5. Cardinality(InTime(end)') <= Cardinality(InTime(end) \cup {a})
          /\ Cardinality(InTime(end)') \in Nat /\ Cardinality(InTime(end) \cup {a}) \in Nat
      BY <3>3, <3>4, FS_Subset, FS_CardinalityType
    <3> QED BY <3>2, <3>4, <3>5, LimiterSets, LimiterAssumption
  <2> QED BY <2>3, <2>4, <2>5
<1>12. WaitsOK'
  <2>1. Cardinality(Allowed') = Cardinality(Allowed) + 1 /\ Cardinality(Allowed) \in Nat
    BY <1>4, LimiterSets, FS_AddElement
  <2>2. Len(hits') <= MaxHits
    BY <1>1, <1>3, <1>5, LimiterAssumption
  <2>3. ASSUME NEW d \in Denied
        PROVE  admissions[d] <= Cardinality(Allowed') /\ admissions[d] # Cardinality(Allowed')
    <3>1. admissions[d] \in Nat /\ admissions[d] <= Cardinality(Allowed)
      BY <1>0 DEF WaitsOK, LimiterTypes, Denied
    <3> QED BY <2>1, <3>1
  <2> QED BY <1>0, <1>1, <1>4, <2>2, <2>3 DEF WaitsOK
<1> QED BY <1>6, <1>9, <1>10, <1>11, <1>12 DEF LimiterInv

LEMMA DenyStep ==
    ASSUME LimiterInv, NEW a \in Attempts, Deny(a) PROVE LimiterInv'
<1> DEFINE now == stamp[a]
           kept == Kept(now)
           n == Cardinality(Allowed)
<1>0. LimiterTypes /\ WaitsOK
  BY DEF LimiterInv
<1>1. /\ apc[a] = "stamped" /\ apc' = [apc EXCEPT ![a] = "denied"]
      /\ Len(kept) >= MaxHits /\ hits' = kept
      /\ retryAt' = [retryAt EXCEPT ![a] = Head(kept) + HitWindow]
      /\ admissions' = [admissions EXCEPT ![a] = n]
      /\ overtaken \subseteq overtaken'
      /\ UNCHANGED <<tick, stamp>>
  BY DEF Deny, IsFull, Overtake
<1> HIDE DEF kept
<1>2. now \in Nat /\ (\A b \in Attempts : stamp[b] \in Nat) /\ Allowed \subseteq Attempts
      /\ Denied \subseteq Attempts
  BY <1>0 DEF LimiterTypes, Allowed, Denied
<1>3. /\ kept \in Seq(Nat) /\ Len(kept) \in Nat /\ DOMAIN kept = 1..Len(kept)
      /\ Len(kept) <= Len(hits) /\ (Len(kept) = Len(hits) => kept = hits)
      /\ \A k \in DOMAIN kept : kept[k] > now - HitWindow
  BY <1>0, <1>2, KeptHits DEF kept
<1>4. /\ Decided' = Decided \cup {a} /\ Allowed' = Allowed /\ Denied' = Denied \cup {a}
      /\ a \notin Allowed /\ a \notin Denied
      /\ \A b : Fresh(b)' => Fresh(b) /\ now - HitWindow < stamp[b]
  BY <1>0, <1>1, DecisionSets
<1>5. n \in Nat /\ Len(hits) \in Nat /\ Len(hits) <= MaxHits
  BY <1>0, LimiterSets, LenProperties DEF LimiterTypes, WaitsOK
<1>6. kept = hits
  BY <1>1, <1>3, <1>5, LimiterAssumption
<1>7. 1 \in DOMAIN kept /\ Head(kept) = kept[1] /\ kept[1] \in Nat /\ kept[1] > now - HitWindow
  <2>1. 1 \in DOMAIN kept
    BY <1>1, <1>3, LimiterAssumption
  <2>2. kept[1] \in Nat
    BY <1>3, <2>1, ElementOfSeq
  <2> QED BY <1>3, <2>1, <2>2
<1>8. LimiterTypes'
  <2>1. Head(kept) + HitWindow \in Int
    BY <1>7, LimiterAssumption
  <2> QED BY <1>0, <1>1, <1>3, <1>5, <2>1 DEF LimiterTypes
<1>9. PICK places \in [Attempts -> Nat] : HoldsFresh(places)
  BY DEF LimiterInv
<1>10. HoldsFresh(places)'
  BY <1>1, <1>4, <1>6, <1>9 DEF HoldsFresh
<1>11. ASSUME NEW end \in Int PROVE Cardinality(InTime(end)') <= MaxHits
  <2>1. InTime(end)' \subseteq InTime(end)
    BY <1>1, <1>4 DEF InTime
  <2>2. Cardinality(InTime(end)') <= Cardinality(InTime(end)) /\ Cardinality(InTime(end)') \in Nat
    BY <2>1, LimiterSets, FS_Subset, FS_CardinalityType
  <2> QED BY <2>2, LimiterSets, LimiterAssumption DEF LimiterInv
<1>12. /\ retryAt'[a] = hits[1] + HitWindow /\ admissions'[a] = n
       /\ \A d \in Denied : retryAt'[d] = retryAt[d] /\ admissions'[d] = admissions[d]
  BY <1>1, <1>2, <1>4, <1>6, <1>7, <1>0 DEF LimiterTypes
<1>13. stamp[a] < hits[1] + HitWindow
  BY <1>2, <1>6, <1>7, LimiterAssumption
<1>14. WaitsOK'
  <2>1. ASSUME NEW d \in Denied'
        PROVE  /\ admissions'[d] <= n
               /\ admissions'[d] = n => Len(hits) >= MaxHits /\ retryAt'[d] = hits[1] + HitWindow
    BY <1>0, <1>1, <1>4, <1>5, <1>6, <1>12, <2>1 DEF WaitsOK
  <2>2. ASSUME NEW d \in Denied', NEW b \in Denied', admissions'[b] = admissions'[d]
        PROVE  stamp[b] < retryAt'[d]
    <3>1. CASE b = a
      BY <1>12, <1>13, <2>1, <2>2, <3>1
    <3>2. CASE b # a /\ d = a
      <4>1. b \in Denied /\ admissions[b] = n
        BY <1>4, <1>12, <2>2, <3>2
      <4>2. stamp[b] < retryAt[b] /\ retryAt[b] = hits[1] + HitWindow
        BY <1>0, <4>1 DEF WaitsOK
      <4> QED BY <1>12, <3>2, <4>2
    <3>3. CASE b # a /\ d # a
      BY <1>0, <1>4, <1>12, <2>2, <3>3 DEF WaitsOK
    <3> QED BY <3>1, <3>2, <3>3
  <2> QED BY <1>0, <1>1, <1>4, <1>5, <1>6, <2>1, <2>2 DEF WaitsOK
<1> QED BY <1>8, <1>10, <1>11, <1>14 DEF LimiterInv

LEMMA LimiterInvStep == LimiterInv /\ [LimiterNext]_limiterVars => LimiterInv'
<1> SUFFICES ASSUME LimiterInv, [LimiterNext]_limiterVars PROVE LimiterInv'
  OBVIOUS
<1>1. ASSUME UNCHANGED <<hits, overtaken, retryAt, admissions>>, LimiterTypes',
             Allowed' = Allowed, Denied' = Denied, Decided' = Decided,
             \A a \in Decided : stamp'[a] = stamp[a]
      PROVE  LimiterInv'
  <2>0. Allowed \subseteq Decided /\ Denied \subseteq Decided
    BY DEF Allowed, Denied, Decided
  <2>1. \A a \in Allowed : Fresh(a)' <=> Fresh(a)
    BY <1>1, <2>0 DEF Fresh
  <2>2. PICK places \in [Attempts -> Nat] : HoldsFresh(places)
    BY DEF LimiterInv
  <2>3. HoldsFresh(places)'
    BY <1>1, <2>0, <2>1, <2>2 DEF HoldsFresh
  <2>4. \A end : InTime(end)' = InTime(end)
    BY <1>1, <2>0 DEF InTime
  <2>5. WaitsOK'
    BY <1>1, <2>0 DEF WaitsOK, LimiterInv
  <2> QED BY <1>1, <2>3, <2>4, <2>5 DEF LimiterInv
<1>2. CASE ClockTicks \/ UNCHANGED limiterVars
  <2>1. LimiterTypes' /\ UNCHANGED <<apc, stamp, hits, overtaken, retryAt, admissions>>
    BY <1>2 DEF ClockTicks, limiterVars, LimiterInv, LimiterTypes
  <2> QED BY <1>1, <2>1 DEF Allowed, Denied, Decided
<1>3. ASSUME NEW a \in Attempts, ReadNow(a) PROVE LimiterInv'
  <2>1. /\ LimiterTypes' /\ UNCHANGED <<hits, overtaken, retryAt, admissions>>
        /\ apc[a] = "idle" /\ apc' = [apc EXCEPT ![a] = "stamped"]
        /\ stamp' = [stamp EXCEPT ![a] = tick]
    BY <1>3 DEF ReadNow, LimiterInv, LimiterTypes
  <2>2. Allowed' = Allowed /\ Denied' = Denied /\ Decided' = Decided /\ a \notin Decided
    BY <2>1 DEF Allowed, Denied, Decided, LimiterInv, LimiterTypes
  <2>3. \A b \in Decided : stamp'[b] = stamp[b]
    BY <2>1, <2>2 DEF LimiterInv, LimiterTypes, Decided
  <2> QED BY <1>1, <2>1, <2>2, <2>3
<1> QED BY <1>2, <1>3, AllowStep, DenyStep DEF LimiterNext

LEMMA LimiterInvHolds == LimiterSpec => []LimiterInv
BY LimiterInvInit, LimiterInvStep, PTL DEF LimiterSpec

(* However the calls overtake each other between reading the time and taking *)
(* the lock, a window lets no more than max of them through besides those    *)
(* that were overtaken (ratelimit.go:22-46, handlers_auth.go:22 and 80).     *)
THEOREM LimitHoldsHolds == LimiterSpec => []LimitHolds
<1>1. LimiterInv => LimitHolds
  <2> SUFFICES ASSUME LimiterInv, NEW end \in 0..LastTick
               PROVE  LET S == {a \in Allowed : stamp[a] > end - HitWindow /\ stamp[a] <= end}
                      IN  Cardinality(S) <= MaxHits + Cardinality(overtaken \cap Allowed)
    BY DEF LimitHolds
  <2> DEFINE S == {a \in Allowed : stamp[a] > end - HitWindow /\ stamp[a] <= end}
             late == overtaken \cap Allowed
             both == InTime(end) \cup late
  <2>1. end \in Int
    BY LimiterAssumption
  <2>2. S \subseteq both
    BY DEF InTime
  <2>3. IsFiniteSet(InTime(end)) /\ IsFiniteSet(late)
    BY LimiterSets, FS_Subset
  <2> HIDE DEF late
  <2>4. IsFiniteSet(both) /\ Cardinality(both) <= Cardinality(InTime(end)) + Cardinality(late)
    <3>1. InTime(end) \cap late = {}
      BY DEF InTime, late
    <3>2. ASSUME NEW A, NEW B, IsFiniteSet(A), IsFiniteSet(B), A \cap B = {}
          PROVE  IsFiniteSet(A \cup B) /\ Cardinality(A \cup B) <= Cardinality(A) + Cardinality(B)
      <4>1. Cardinality(A) \in Nat /\ Cardinality(B) \in Nat /\ Cardinality(A \cap B) = 0
        BY <3>2, FS_CardinalityType, FS_EmptySet
      <4>2. /\ IsFiniteSet(A \cup B)
            /\ Cardinality(A \cup B) = Cardinality(A) + Cardinality(B) - Cardinality(A \cap B)
        BY <3>2, FS_Union
      <4> QED BY <4>1, <4>2
    <3> QED BY <2>3, <3>1, <3>2
  <2> HIDE DEF both, S
  <2>5. IsFiniteSet(S) /\ Cardinality(S) <= Cardinality(both)
    BY <2>2, <2>4, FS_Subset
  <2>6. Cardinality(InTime(end)) <= MaxHits
    BY <2>1 DEF LimiterInv
  <2>7. /\ Cardinality(S) \in Nat /\ Cardinality(both) \in Nat
        /\ Cardinality(InTime(end)) \in Nat /\ Cardinality(late) \in Nat
    BY <2>3, <2>4, <2>5, FS_CardinalityType
  <2>8. Cardinality(S) <= MaxHits + Cardinality(late)
    BY <2>4, <2>5, <2>6, <2>7, LimiterAssumption
  <2> QED BY <2>8 DEF S, late
<1> QED BY <1>1, LimiterInvHolds, PTL

(* Whoever was denied and waited as told is let through, if no other call    *)
(* was in between (ratelimit.go:22-24).                                      *)
THEOREM RetryAfterSufficesHolds == LimiterSpec => []RetryAfterSuffices
<1>1. LimiterInv => RetryAfterSuffices
  BY DEF LimiterInv, WaitsOK, Denied, RetryAfterSuffices
<1> QED BY <1>1, LimiterInvHolds, PTL
=============================================================================
