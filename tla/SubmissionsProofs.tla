-------------------------- MODULE SubmissionsProofs --------------------------
(***************************************************************************)
(* Administrators, submissions and the sender's app of SenderApp, for any  *)
(* number of them.  First the policy and the administrators, which nothing *)
(* else writes; then the submissions, which read the policy.               *)
(***************************************************************************)
EXTENDS SenderApp, FiniteSetTheorems, TLAPS

-----------------------------------------------------------------------------
(* Administrators *)

PolicyRow == [version : Nat, active : BOOLEAN, policy : {p \in Policies : ValidateConfiguration(p)}]

ChangeRow == [stage : {"IDLE", "ACTIVATE", "BOOTSTRAP"}, policy : Policies \cup {{}},
              seen : SUBSET PolicyRow]

\* Rows as the table has them between commits: numbered from 1, the last active.
Numbered(rows) ==
    /\ rows \subseteq PolicyRow
    /\ IsFiniteSet(rows)
    /\ \A c \in rows : c.version \in 1 .. Cardinality(rows)
    /\ \A b, c \in rows : b.version = c.version => b = c
    /\ \A c \in rows : c.active => c.version = Cardinality(rows)
    /\ rows # {} => \E c \in rows : c.active

AdminInv ==
    /\ Numbered(configuration)
    /\ change \in [Requests -> ChangeRow]
    /\ \A r \in Requests : change[r].stage = "ACTIVATE" =>
          /\ Numbered(change[r].seen)
          /\ change[r].policy \in Policies /\ ValidateConfiguration(change[r].policy)
    /\ \A r \in Requests : change[r].stage = "BOOTSTRAP" => administrator = {}
    /\ \A r, s \in Requests : change[r].stage = "BOOTSTRAP" /\ change[s].stage = "BOOTSTRAP" => r = s
    /\ \A a, b \in administrator : a = b

\* What was activated once is never forgotten.
PoliciesStay == \A v \in configuration : \E w \in configuration' : w.policy = v.policy

\* No change is a change.
LEMMA NoChangeRow == NoChange \in ChangeRow
BY DEF NoChange, ChangeRow

\* Activating the first policy.
LEMMA FirstRow ==
    ASSUME NEW p \in Policies, ValidateConfiguration(p)
    PROVE  Numbered({[version |-> 1, active |-> TRUE, policy |-> p]})
<1> DEFINE n == [version |-> 1, active |-> TRUE, policy |-> p]
<1>1. n \in PolicyRow
    BY DEF PolicyRow
<1>2. IsFiniteSet({n}) /\ Cardinality({n}) = 1
    BY FS_Singleton
<1> QED
    BY <1>1, <1>2 DEF Numbered

\* Activating a policy after the row c.
LEMMA NextRow ==
    ASSUME NEW rows, Numbered(rows), NEW c \in rows, c.active,
           NEW p \in Policies, ValidateConfiguration(p)
    PROVE  Numbered((rows \ {c}) \cup {[c EXCEPT !.active = FALSE]}
                      \cup {[version |-> Cardinality(rows) + 1, active |-> TRUE, policy |-> p]})
<1> DEFINE N == Cardinality(rows)
           o == [c EXCEPT !.active = FALSE]
           n == [version |-> N + 1, active |-> TRUE, policy |-> p]
           rest == rows \ {c}
           new == rest \cup {o} \cup {n}
<1>1. /\ IsFiniteSet(rows) /\ N \in Nat /\ N # 0
      /\ \A b \in rows : b \in PolicyRow /\ b.version \in 1 .. N
      /\ c.version = N
    BY FS_CardinalityType, FS_EmptySet DEF Numbered
<1>2. /\ o \in PolicyRow /\ o.version = N /\ ~o.active /\ o.policy = c.policy
      /\ n \in PolicyRow /\ n.version = N + 1 /\ n.active
  <2>1. /\ c \in PolicyRow /\ c.version = N
        /\ c.policy \in {x \in Policies : ValidateConfiguration(x)}
      BY <1>1 DEF PolicyRow
  <2>2. o \in PolicyRow /\ o.version = c.version /\ o.active = FALSE /\ o.policy = c.policy
      BY <2>1 DEF PolicyRow
  <2>3. n.version = N + 1 /\ n.active /\ n.policy = p
      OBVIOUS
  <2>4. n \in PolicyRow
      BY <1>1 DEF PolicyRow
  <2> QED
      BY <2>1, <2>2, <2>3, <2>4
<1>3. \A b \in rest : b \in rows /\ b.version \in 1 .. N /\ b.version # N /\ ~b.active
    BY <1>1 DEF Numbered
<1> HIDE DEF o, n, N
<1>4. IsFiniteSet(rest) /\ Cardinality(rest) = N - 1
    BY <1>1, FS_RemoveElement DEF N
<1>5. o \notin rest
    BY <1>2, <1>3
<1>6. IsFiniteSet(rest \cup {o}) /\ Cardinality(rest \cup {o}) = N
  <2>1. /\ IsFiniteSet(rest \cup {o})
        /\ Cardinality(rest \cup {o}) = Cardinality(rest) + 1
      BY <1>4, <1>5, FS_AddElement
  <2> QED
      BY <1>1, <1>4, <2>1
<1>7. n \notin rest \cup {o}
    BY <1>1, <1>2, <1>3
<1>8. IsFiniteSet(new) /\ Cardinality(new) = N + 1
    BY <1>6, <1>7, FS_AddElement
<1>9. \A b \in new : b \in PolicyRow /\ b.version \in 1 .. N + 1 /\ (b.active => b.version = N + 1)
    BY <1>1, <1>2, <1>3
<1>10. \A a, b \in new : a.version = b.version => a = b
    BY <1>1, <1>2, <1>3 DEF Numbered
<1>11. \E b \in new : b.active
    BY <1>2
<1> HIDE DEF rest, new
<1>12. Numbered(new)
    BY <1>8, <1>9, <1>10, <1>11 DEF Numbered
<1> QED
    BY <1>12 DEF new, rest, o, n, N

\* A commit that the unique indexes accept, made on an older snapshot or not.
LEMMA ActivateStep ==
    ASSUME AdminInv, NEW r \in Requests, Activate(r)
    PROVE  Numbered(configuration') /\ PoliciesStay
<1> DEFINE rows == change[r].seen
           p == change[r].policy
           old == ActiveRows(configuration) \cap rows
           n == [version |-> LatestVersion(rows) + 1, active |-> TRUE, policy |-> p]
<1>1. /\ Numbered(configuration) /\ Numbered(rows)
      /\ p \in Policies /\ ValidateConfiguration(p)
      /\ ActiveRows(configuration) = ActiveRows(rows)
      /\ configuration' = (configuration \ old) \cup {[c EXCEPT !.active = FALSE] : c \in old} \cup {n}
    BY DEF AdminInv, Activate, Accepts
<1>2. CASE configuration = {}
  <2>1. rows = {}
      BY <1>1, <1>2 DEF ActiveRows, Numbered
  <2>2. LatestVersion(rows) = 0
      BY <2>1, FS_EmptySet DEF LatestVersion
  <2>3. configuration' = {[version |-> 1, active |-> TRUE, policy |-> p]}
      BY <1>1, <1>2, <2>1, <2>2
  <2> QED
      BY <1>1, <1>2, <2>3, FirstRow DEF PoliciesStay
<1>3. CASE configuration # {}
  <2>1. PICK c \in configuration : c.active
      BY <1>1, <1>3 DEF Numbered
  <2>2. c \in rows /\ Cardinality(configuration) = Cardinality(rows)
      BY <1>1, <2>1 DEF ActiveRows, Numbered
  <2>3. ActiveRows(configuration) = {c}
      BY <1>1, <2>1 DEF ActiveRows, Numbered
  <2>4. old = {c}
      BY <2>2, <2>3
  <2> DEFINE o == [c EXCEPT !.active = FALSE]
             m == [version |-> Cardinality(configuration) + 1, active |-> TRUE, policy |-> p]
  <2>5. configuration' = (configuration \ {c}) \cup {o} \cup {m}
      BY <1>1, <2>2, <2>4 DEF LatestVersion
  <2>6. Numbered(configuration')
      BY <1>1, <2>1, <2>5, NextRow
  <2>7. o.policy = c.policy
      BY <1>1, <2>1 DEF Numbered, PolicyRow
  <2> HIDE DEF o, m
  <2>8. PoliciesStay
      BY <2>1, <2>5, <2>7 DEF PoliciesStay
  <2> QED
      BY <2>6, <2>8
<1> QED
    BY <1>2, <1>3

\* An administrator's step keeps the versions numbered, and keeps every policy.
LEMMA AdminStep ==
    ASSUME AdminInv, AdminNext \/ UNCHANGED adminVars
    PROVE  AdminInv' /\ PoliciesStay
<1>0. change \in [Requests -> ChangeRow] /\ Numbered(configuration)
    BY DEF AdminInv
<1>1. ASSUME NEW r \in Requests, NEW p \in Policies, OpenActivation(r, p) PROVE AdminInv' /\ PoliciesStay
  <2> DEFINE new == [stage |-> "ACTIVATE", policy |-> p, seen |-> configuration]
  <2>1. /\ change' = [change EXCEPT ![r] = new]
        /\ administrator' = administrator /\ configuration' = configuration
        /\ ValidateConfiguration(p)
      BY <1>1 DEF OpenActivation
  <2>2. new \in ChangeRow /\ new.stage = "ACTIVATE" /\ new.policy = p /\ new.seen = configuration
      BY <1>0 DEF ChangeRow, Numbered
  <2> HIDE DEF new
  <2>3. change' \in [Requests -> ChangeRow] /\ \A s \in Requests : change'[s] = IF s = r THEN new ELSE change[s]
      BY <1>0, <2>1, <2>2
  <2> QED
      BY <2>1, <2>2, <2>3 DEF AdminInv, PoliciesStay
<1>2. ASSUME NEW r \in Requests, change' = [change EXCEPT ![r] = NoChange],
             Numbered(configuration'), PoliciesStay,
             administrator' = administrator \/ (change[r].stage = "BOOTSTRAP"
                                                 /\ \E a : administrator' = administrator \cup {a})
      PROVE  AdminInv' /\ PoliciesStay
  <2>1. change' \in [Requests -> ChangeRow] /\ \A s \in Requests : change'[s] = IF s = r THEN NoChange ELSE change[s]
      BY <1>0, <1>2, NoChangeRow
  <2>2. \A s \in Requests : change'[s].stage = "BOOTSTRAP" => administrator' = {} /\ s # r
      BY <1>2, <2>1 DEF AdminInv, NoChange
  <2>3. \A a, b \in administrator' : a = b
      BY <1>2 DEF AdminInv
  <2>4. \A s \in Requests : change'[s].stage = "ACTIVATE" =>
          /\ Numbered(change'[s].seen)
          /\ change'[s].policy \in Policies /\ ValidateConfiguration(change'[s].policy)
      BY <2>1 DEF AdminInv, NoChange
  <2>5. \A s, t \in Requests : change'[s].stage = "BOOTSTRAP" /\ change'[t].stage = "BOOTSTRAP" => s = t
      BY <2>1, <2>2 DEF AdminInv
  <2> QED
      BY <1>2, <2>1, <2>2, <2>3, <2>4, <2>5 DEF AdminInv
<1>3. ASSUME NEW r \in Requests, Activate(r) PROVE AdminInv' /\ PoliciesStay
    BY <1>2, <1>3, ActivateStep DEF Activate
<1>4. ASSUME NEW r \in Requests, CountAdministrators(r) PROVE AdminInv' /\ PoliciesStay
  <2>1. /\ change' = [change EXCEPT ![r].stage = "BOOTSTRAP"] /\ administrator = {}
        /\ administrator' = administrator /\ configuration' = configuration
        /\ \A s \in Requests : change[s].stage # "BOOTSTRAP"
      BY <1>4 DEF CountAdministrators, BootstrapLockFree
  <2>2. [change[r] EXCEPT !.stage = "BOOTSTRAP"] \in ChangeRow
      BY <1>0 DEF ChangeRow
  <2>3. [change[r] EXCEPT !.stage = "BOOTSTRAP"].stage = "BOOTSTRAP"
      BY <1>0 DEF ChangeRow
  <2>4. /\ change' \in [Requests -> ChangeRow] /\ change'[r].stage = "BOOTSTRAP"
        /\ \A s \in Requests : s # r => change'[s] = change[s]
      BY <1>0, <2>1, <2>2, <2>3
  <2> QED
      BY <2>1, <2>4 DEF AdminInv, PoliciesStay
<1>5. ASSUME NEW r \in Requests, NEW a \in Admins, CreateAdministrator(r, a) PROVE AdminInv' /\ PoliciesStay
    BY <1>0, <1>2, <1>5 DEF CreateAdministrator, PoliciesStay
<1>6. ASSUME NEW r \in Requests, AbortChange(r) PROVE AdminInv' /\ PoliciesStay
    BY <1>0, <1>2, <1>6 DEF AbortChange, PoliciesStay
<1>7. CASE UNCHANGED adminVars
    BY <1>7 DEF adminVars, AdminInv, PoliciesStay
<1> QED
    BY <1>1, <1>3, <1>4, <1>5, <1>6, <1>7 DEF AdminNext

\* The administrators' invariant holds at the start.
LEMMA AdminStarts == AdminInit => AdminInv
<1>1. Numbered({})
    BY FS_EmptySet DEF Numbered
<1> QED
    BY <1>1, NoChangeRow DEF AdminInit, AdminInv, NoChange

\* Nothing but administrators touches their tables.
LEMMA AdminSteps == [SubmissionsNext]_submissionsVars => AdminNext \/ UNCHANGED adminVars
BY DEF SubmissionsNext, submissionsVars, AppNext, Tap, SignedOut, Send, Unauthorized, Refreshed,
       RefreshRefused, RefreshFails, Disconnected, Answer, Restart, Close, Expire, OtherCalls,
       SignIn, SignOut

\* The administrators' invariant holds always.
LEMMA AdminInvariance == SubmissionsSpec => []AdminInv
<1>1. SubmissionsInit => AdminInv
    BY AdminStarts DEF SubmissionsInit
<1>2. AdminInv /\ [SubmissionsNext]_submissionsVars => AdminInv'
    BY AdminSteps, AdminStep
<1> QED
    BY <1>1, <1>2, PTL DEF SubmissionsSpec

\* However activations overlap, one configuration is active and it is the
\* latest: the unique indexes refuse what was computed from an old snapshot
\* (admin/service.ts).
THEOREM ConfigurationsCorrect == SubmissionsSpec => []OneActiveConfiguration
<1>1. ASSUME Numbered(configuration) PROVE OneActiveConfiguration
  <2>1. \A b, c \in configuration : (b.version = c.version => b = c) /\ (c.active => b.version <= c.version)
      BY <1>1 DEF Numbered
  <2>2. ASSUME configuration # {} PROVE Cardinality(ActiveRows(configuration)) = 1
    <3>1. PICK c \in configuration : c.active
        BY <1>1, <2>2 DEF Numbered
    <3>2. ActiveRows(configuration) = {c}
        BY <1>1, <3>1 DEF Numbered, ActiveRows
    <3> QED
        BY <3>2, FS_Singleton
  <2> QED
      BY <2>1, <2>2 DEF OneActiveConfiguration
<1>2. AdminInv => OneActiveConfiguration
    BY <1>1 DEF AdminInv
<1> QED
    BY <1>2, AdminInvariance, PTL

\* The bootstrap counts and creates under one advisory lock, so that any number
\* of runs make one administrator (scripts/bootstrapAdmin.ts).
THEOREM BootstrapCorrect == SubmissionsSpec => []OneBootstrap
<1>1. ASSUME \A a, b \in administrator : a = b PROVE Cardinality(administrator) <= 1
  <2>1. CASE administrator = {}
      BY <2>1, FS_EmptySet
  <2>2. CASE administrator # {}
    <3>1. PICK a : administrator = {a}
        BY <1>1, <2>2
    <3> QED
        BY <3>1, FS_Singleton
  <2> QED
      BY <2>1, <2>2
<1>2. AdminInv => OneBootstrap
    BY <1>1 DEF AdminInv, OneBootstrap
<1> QED
    BY <1>2, AdminInvariance, PTL
-----------------------------------------------------------------------------
(* The app *)

AppRow ==
    [stage : {"IDLE", "SENDING", "REFRESHING", "WAITING"},
     saved : [key : Keys \cup {None}, content : Contents \cup {None}],
     page : {"LOGIN", "PAGES"}, session : {"NONE", "FRESH", "EXPIRED"},
     slot : Slots \cup {None}, retried : BOOLEAN]

\* What the app sends is a request that the sender asked for, from a page.
AppInv ==
    /\ app \in AppRow
    /\ app.stage \in {"SENDING", "REFRESHING"} => app.saved.content \in Contents
    /\ app.stage # "IDLE" => app.page = "PAGES"

\* The state s is r, but for the tokens and the page.
Like(s, r) ==
    s \in AppRow /\ s.stage = r.stage /\ s.saved = r.saved /\ s.slot = r.slot

\* Tokens and pages come and go.
LEMMA LikeIt ==
    ASSUME NEW r \in AppRow, NEW session \in {"NONE", "FRESH", "EXPIRED"}, NEW page \in {"LOGIN", "PAGES"}
    PROVE  /\ Like(r, r)
           /\ Like([r EXCEPT !.session = session], r) /\ [r EXCEPT !.session = session].page = r.page
           /\ Like([r EXCEPT !.page = page], r)
           /\ Like([r EXCEPT !.session = session, !.page = page], r)
           /\ Like([[r EXCEPT !.page = page] EXCEPT !.session = session], r)
BY DEF AppRow, Like

\* The app goes on with what it saved.
LEMMA GoesOn ==
    ASSUME app \in AppRow, NEW stage \in {"SENDING", "REFRESHING", "WAITING"}
    PROVE  /\ Goes(stage) \in AppRow /\ Goes(stage).stage = stage /\ Goes(stage).page = app.page
           /\ Goes(stage).saved = app.saved /\ Goes(stage).slot = app.slot
BY DEF AppRow, Goes

\* The app is idle again, and holds what it held or nothing.
LEMMA Rests ==
    ASSUME app \in AppRow
    PROVE  /\ Failed \in AppRow /\ Failed.stage = "IDLE" /\ Failed.slot = None
           /\ Failed.saved = app.saved
           /\ Dropped \in AppRow /\ Dropped.stage = "IDLE" /\ Dropped.slot = None
           /\ Dropped.saved = NothingSaved
           /\ \A s \in {[Failed EXCEPT !.session = "NONE"]} \cup Started(Failed) : Like(s, Failed)
           /\ \A s \in {ToLoginPage, [ToLoginPage EXCEPT !.session = "NONE"]} \cup Started(Dropped) :
                 Like(s, Dropped)
<1>1. NothingSaved \in [key : Keys \cup {None}, content : Contents \cup {None}]
    BY DEF NothingSaved
<1>2. /\ Failed \in AppRow /\ Failed.stage = "IDLE" /\ Failed.slot = None
      /\ Failed.saved = app.saved
    BY DEF Failed, AppRow
<1>3. /\ Dropped \in AppRow /\ Dropped.stage = "IDLE" /\ Dropped.slot = None
      /\ Dropped.saved = NothingSaved
  <2>1. Dropped = [Failed EXCEPT !.saved = NothingSaved]
      BY DEF Dropped
  <2> QED
      BY <1>1, <1>2, <2>1 DEF AppRow
<1>4. \A s \in {[Failed EXCEPT !.session = "NONE"]} \cup Started(Failed) : Like(s, Failed)
    BY <1>2, LikeIt DEF Started
<1>5. \A s \in {ToLoginPage, [ToLoginPage EXCEPT !.session = "NONE"]} \cup Started(Dropped) : Like(s, Dropped)
    BY <1>3, LikeIt DEF ToLoginPage, Started
<1> QED
    BY <1>2, <1>3, <1>4, <1>5

\* The app is idle, whatever it holds.
LEMMA IdleInv ==
    ASSUME app' \in AppRow, app'.stage = "IDLE"
    PROVE  AppInv'
BY DEF AppInv

\* The app's own steps keep what it saved: what is on the way has a content.
LEMMA AppStep ==
    ASSUME AppInv, AppNext \/ UNCHANGED appVars
    PROVE  AppInv'
<1>0. /\ app \in AppRow
      /\ app.stage \in {"SENDING", "REFRESHING"} => app.saved.content \in Contents
      /\ app.stage # "IDLE" => app.page = "PAGES"
    BY DEF AppInv
<1>1. ASSUME NEW c \in Contents, Tap(c) PROVE AppInv'
  <2>1. /\ Goes("SENDING") \in AppRow /\ Goes("SENDING").page = "PAGES"
        /\ Goes("SENDING").saved = app.saved
      BY <1>0, <1>1, GoesOn DEF Tap
  <2>2. CASE SavedFor(c)
    <3>1. app' = Goes("SENDING") /\ app.saved.content = c
        BY <1>1, <2>2 DEF Tap, SavedFor
    <3> QED
        BY <2>1, <3>1 DEF AppInv
  <2>3. CASE ~SavedFor(c)
    <3>1. PICK k \in Keys : app' = [Goes("SENDING") EXCEPT !.saved = [key |-> k, content |-> c]]
        BY <1>1, <2>3 DEF Tap
    <3>2. app' \in AppRow /\ app'.saved.content = c /\ app'.page = "PAGES"
        BY <3>1, <2>1 DEF AppRow
    <3> QED
        BY <3>2 DEF AppInv
  <2> QED
      BY <2>2, <2>3
<1>2. ASSUME NEW s \in {Failed, Dropped}, Like(app', s) PROVE AppInv'
    BY <1>0, <1>2, Rests, IdleInv DEF Like
<1>3. ASSUME Like(app', app), app'.page = app.page \/ app.stage = "IDLE" PROVE AppInv'
    BY <1>0, <1>3 DEF AppInv, Like
<1>4. ASSUME NEW q \in Slots, Send(q) PROVE AppInv'
  <2>1. app' = [Goes("WAITING") EXCEPT !.slot = q] /\ app.page = "PAGES"
      BY <1>0, <1>4 DEF Send
  <2>2. app' \in AppRow /\ app'.stage = "WAITING" /\ app'.page = "PAGES"
      BY <1>0, <2>1, GoesOn DEF AppRow
  <2> QED
      BY <2>2 DEF AppInv
<1>5. ASSUME app.stage = "SENDING", app' = Goes("REFRESHING") PROVE AppInv'
    BY <1>0, <1>5, GoesOn DEF AppInv
<1>6. ASSUME Refreshed PROVE AppInv'
  <2>1. /\ app.stage = "REFRESHING" /\ app.page = "PAGES"
        /\ app' = [Goes("SENDING") EXCEPT !.session = "FRESH", !.retried = TRUE]
      BY <1>0, <1>6 DEF Refreshed
  <2>2. app' \in AppRow /\ app'.saved = app.saved /\ app'.page = "PAGES"
      BY <1>0, <2>1, GoesOn DEF AppRow
  <2> QED
      BY <1>0, <2>1, <2>2 DEF AppInv
<1>7. CASE SignedOut \/ Unauthorized \/ RefreshFails \/ RefreshRefused
    BY <1>0, <1>2, <1>5, <1>7, Rests DEF SignedOut, Unauthorized, RefreshFails, RefreshRefused
<1>8. CASE Disconnected \/ Answer \/ Restart \/ Close
  <2>1. app' \in {Failed, Dropped} \cup Started(Failed) \cup Started(Dropped)
      BY <1>8 DEF Disconnected, Answer, Restart, Close
  <2> QED
      BY <1>0, <1>2, <2>1, Rests, LikeIt
<1>9. CASE Expire \/ OtherCalls \/ SignIn \/ SignOut
    BY <1>0, <1>3, <1>9, LikeIt DEF Expire, OtherCalls, SignIn, SignOut
<1>10. CASE UNCHANGED appVars
    BY <1>0, <1>10 DEF appVars, AppInv
<1> QED
    BY <1>1, <1>4, <1>6, <1>7, <1>8, <1>9, <1>10 DEF AppNext

-----------------------------------------------------------------------------
(* Submissions *)

Destination(c) == [destination |-> c.destination, method |-> c.method]

Snapshots == {None} \cup {Destination(c) : c \in Contents}

TransferRow ==
    [state : {"NONE", "ACTIVE", "ENDED"}, key : Keys \cup {None}, content : Contents \cup {None},
     at : Nat, snapshot : Snapshots]

SubmissionRow ==
    [stage : {"IDLE", "READ", "KEYED", "COUNTED", "ANSWERED"}, key : Keys \cup {None},
     content : Contents \cup {None}, at : Nat, snapshot : Snapshots, attempt : Nat,
     outcome : {"NONE", "CREATED", "REFUSED", "FAILED"}, transfer : Transfers \cup {None}]

RecipientRow == [state : {"NONE", "KEPT", "DELETED"}, address : Addresses \cup {None}]

CreationTypes ==
    /\ recipient \in [Recipients -> RecipientRow]
    /\ instant \in Nat
    /\ transfer \in [Transfers -> TransferRow]
    /\ creation \in [Slots -> SubmissionRow]

\* A transfer over these corridors was possible under one of these policies.
Payable(c, rows) ==
    \E v \in rows :
        /\ c.currency \in v.policy.send[c.origin] \cap v.policy.currencies
        /\ c.method \in v.policy.methods[c.destination]

\* A success is about a transfer of the key, made of the content.
Truthful(p, rows) ==
    p.outcome = "CREATED" =>
        /\ p.transfer \in Transfers /\ rows[p.transfer].state # "NONE"
        /\ rows[p.transfer].key = p.key /\ rows[p.transfer].content = p.content

\* What is going to be inserted was checked.
Checked(p, rows) ==
    p.stage \in {"READ", "KEYED", "COUNTED"} =>
        /\ p.content \in Contents /\ p.snapshot = Destination(p.content)
        /\ Payable(p.content, rows)

SubmissionInv ==
    /\ AdminInv
    /\ AppInv
    /\ CreationTypes
    /\ \A q \in Slots : Truthful(creation[q], transfer) /\ Checked(creation[q], configuration)
    /\ \A t, u \in Submitted : transfer[t].key # None /\ transfer[t].key = transfer[u].key => t = u
    /\ \A t \in Submitted : transfer[t].content \in Contents
    /\ TransferIsPayable

\* The corridor that createTransfer finds is one of an activated policy.
LEMMA CorridorIsPayable ==
    ASSUME Numbered(configuration), NEW c, CorridorFor(c)
    PROVE  Payable(c, configuration)
<1>1. PICK v \in configuration :
         \E o \in v.policy.origins, d \in v.policy.destinations :
            /\ c.origin = o /\ c.destination = d
            /\ c.currency \in v.policy.send[o] /\ c.method \in v.policy.methods[d]
  <2>1. PICK k \in Corridors :
            /\ c.origin = k.origin /\ c.destination = k.destination
            /\ c.currency \in k.currencies /\ c.method \in k.methods
      BY DEF CorridorFor
  <2>2. PICK v \in configuration :
           \E o \in v.policy.origins, d \in v.policy.destinations :
              k = [origin |-> o, destination |-> d, currencies |-> v.policy.send[o],
                   methods |-> v.policy.methods[d]]
      BY DEF Corridors, ActiveRows
  <2> QED
      BY <2>1, <2>2
<1>2. v.policy \in {p \in Policies : ValidateConfiguration(p)}
    BY DEF Numbered, PolicyRow
<1>3. \A o \in v.policy.origins : v.policy.send[o] \subseteq v.policy.currencies
    BY <1>2 DEF ValidateConfiguration, Maps
<1> QED
    BY <1>1, <1>3 DEF Payable

\* What some policy allowed stays payable: no policy is removed or edited.
LEMMA PayableStays ==
    ASSUME NEW c, Payable(c, configuration), PoliciesStay
    PROVE  Payable(c, configuration')
BY DEF Payable, PoliciesStay

\* A transfer that was made is never unmade or remade.
TransfersStay ==
    /\ \A t \in Submitted :
          /\ transfer'[t].state # "NONE" /\ transfer'[t].key = transfer[t].key
          /\ transfer'[t].content = transfer[t].content
          /\ transfer'[t].snapshot = transfer[t].snapshot

\* What a step does to the tables and the submissions.
LEMMA StepKinds ==
    ASSUME AppInv, [SubmissionsNext]_submissionsVars
    PROVE  \/ UNCHANGED <<recipient, transfer, creation>> /\ instant' \in {instant, instant + 1}
           \/ RecipientNext
           \/ \E x : /\ creation' = [creation EXCEPT ![x] = NoSubmission]
                     /\ UNCHANGED <<instant, recipient, transfer>>
           \/ \E q \in Slots, key \in Keys \cup {None}, c \in Contents : Receive(q, key, c)
           \/ \E q \in Slots : Serve(q)
           \/ \E t \in Transfers : EndTransfer(t)
<1>1. CASE AppNext
  <2>1. CASE \E q \in Slots : Send(q)
    <3>1. app.saved.key \in Keys \cup {None} /\ app.saved.content \in Contents
        BY <2>1 DEF Send, AppInv, AppRow
    <3> QED
        BY <2>1, <3>1 DEF Send
  <2>2. CASE Answer
      BY <2>2 DEF Answer, Collect
  <2>3. CASE ~(\E q \in Slots : Send(q)) /\ ~Answer
      BY <1>1, <2>3 DEF AppNext, Tap, SignedOut, Unauthorized, Refreshed, RefreshRefused,
            RefreshFails, Disconnected, Restart, Close, Expire, OtherCalls, SignIn, SignOut,
            creationVars
  <2> QED
      BY <2>1, <2>2, <2>3
<1>2. CASE OtherClients
    BY <1>2 DEF OtherClients, Collect
<1>3. CASE CreationNext
    BY <1>3 DEF CreationNext, Pass
<1>4. CASE AdminNext /\ UNCHANGED <<appVars, creationVars>>
    BY <1>4 DEF creationVars
<1>5. CASE UNCHANGED submissionsVars
    BY <1>5 DEF submissionsVars, creationVars
<1> QED
    BY <1>1, <1>2, <1>3, <1>4, <1>5 DEF SubmissionsNext

\* Nothing but the app changes what the app holds.
LEMMA AppSteps == [SubmissionsNext]_submissionsVars => AppNext \/ UNCHANGED appVars
BY DEF SubmissionsNext, submissionsVars

\* What holds of the submissions still holds when one has a new row.
LEMMA RowsHold ==
    ASSUME creation \in [Slots -> SubmissionRow],
           \A q \in Slots : Truthful(creation[q], transfer) /\ Checked(creation[q], configuration),
           transfer \in [Transfers -> TransferRow],
           TransfersStay, PoliciesStay,
           \/ UNCHANGED creation
           \/ \E q, p : /\ creation' = [creation EXCEPT ![q] = p]
                        /\ p \in SubmissionRow
                        /\ Truthful(p, transfer')
                        /\ Checked(p, configuration')
    PROVE  /\ creation' \in [Slots -> SubmissionRow]
           /\ \A q \in Slots : Truthful(creation'[q], transfer') /\ Checked(creation'[q], configuration')
<1>1. ASSUME NEW q \in Slots
      PROVE  Truthful(creation[q], transfer') /\ Checked(creation[q], configuration')
  <2>1. Truthful(creation[q], transfer')
      BY DEF Truthful, TransfersStay, Submitted
  <2>2. Checked(creation[q], configuration')
      BY PayableStays DEF Checked
  <2> QED
      BY <2>1, <2>2
<1>2. CASE UNCHANGED creation
    BY <1>1, <1>2
<1>3. CASE \E q, p : /\ creation' = [creation EXCEPT ![q] = p]
                     /\ p \in SubmissionRow
                     /\ Truthful(p, transfer')
                     /\ Checked(p, configuration')
  <2> PICK q, p : /\ creation' = [creation EXCEPT ![q] = p]
                  /\ p \in SubmissionRow
                  /\ Truthful(p, transfer')
                  /\ Checked(p, configuration')
      BY <1>3
  <2>1. \A x \in Slots : creation'[x] = IF x = q THEN p ELSE creation[x]
      OBVIOUS
  <2> QED
      BY <1>1, <2>1
<1> QED
    BY <1>2, <1>3

\* A row of creation' with its properties, as RowsHold wants it.
NewRow(q, p) ==
    /\ creation' = [creation EXCEPT ![q] = p]
    /\ p \in SubmissionRow
    /\ Truthful(p, transfer')
    /\ Checked(p, configuration')

\* A free slot is a submission that has no outcome.
LEMMA NoSubmissionRow ==
    /\ NoSubmission \in SubmissionRow
    /\ NoSubmission.stage = "IDLE" /\ NoSubmission.outcome = "NONE"
BY DEF NoSubmission, SubmissionRow, Snapshots

\* A key that was used is answered with its transfer.
LEMMA StoredRow ==
    ASSUME CreationTypes, NEW q \in Slots, NEW key \in Keys \cup {None}, NEW c \in Contents,
           AnswerStored(q, key, c), transfer' = transfer
    PROVE  \E p : NewRow(q, p)
<1>1. PICK t \in Stored(key) :
          creation' = [creation EXCEPT ![q] =
                       [NoSubmission EXCEPT
                          !.stage = "ANSWERED", !.key = key, !.content = c,
                          !.outcome = IF SameRequest(t, c) THEN "CREATED" ELSE "REFUSED",
                          !.transfer = IF SameRequest(t, c) THEN t ELSE None]]
    BY DEF AnswerStored
<1>2. t \in Transfers /\ transfer[t].state # "NONE" /\ transfer[t].key = key
    BY DEF Stored, Submitted
<1> DEFINE outcome == IF SameRequest(t, c) THEN "CREATED" ELSE "REFUSED"
           made == IF SameRequest(t, c) THEN t ELSE None
           p == [NoSubmission EXCEPT !.stage = "ANSWERED", !.key = key, !.content = c,
                                     !.outcome = outcome, !.transfer = made]
<1>3. /\ outcome \in {"CREATED", "REFUSED"} /\ made \in Transfers \cup {None}
      /\ outcome = "CREATED" => SameRequest(t, c) /\ made = t
    BY <1>2
<1> HIDE DEF outcome, made
<1>4. /\ p \in SubmissionRow /\ p.stage = "ANSWERED" /\ p.outcome = outcome
      /\ p.transfer = made /\ p.key = key /\ p.content = c
    BY <1>3, NoSubmissionRow DEF SubmissionRow
<1>5. Truthful(p, transfer')
    BY <1>2, <1>3, <1>4 DEF Truthful, SameRequest
<1>6. Checked(p, configuration')
    BY <1>4 DEF Checked
<1>7. creation' = [creation EXCEPT ![q] = p]
    BY <1>1 DEF outcome, made
<1> HIDE DEF p
<1> QED
    BY <1>4, <1>5, <1>6, <1>7 DEF NewRow

\* A submission is answered, refused, or checked and passed on.
LEMMA ReceiveRow ==
    ASSUME SubmissionInv, PoliciesStay, NEW q \in Slots, NEW key \in Keys \cup {None}, NEW c \in Contents,
           Receive(q, key, c)
    PROVE  \E p : NewRow(q, p)
<1>0. CreationTypes /\ transfer' = transfer
    BY DEF SubmissionInv, Receive
<1>1. CASE AnswerStored(q, key, c)
    BY <1>0, <1>1, StoredRow
<1>2. ASSUME creation' = [creation EXCEPT ![q] =
                            [NoSubmission EXCEPT !.stage = "ANSWERED", !.key = key,
                                                 !.content = c, !.outcome = "REFUSED"]]
      PROVE  \E p : NewRow(q, p)
  <2> DEFINE p == [NoSubmission EXCEPT !.stage = "ANSWERED", !.key = key,
                                       !.content = c, !.outcome = "REFUSED"]
  <2>1. p \in SubmissionRow /\ p.stage = "ANSWERED" /\ p.outcome = "REFUSED"
      BY NoSubmissionRow DEF SubmissionRow
  <2>2. Truthful(p, transfer') /\ Checked(p, configuration')
      BY <2>1 DEF Truthful, Checked
  <2> QED
      BY <1>2, <2>1, <2>2 DEF NewRow
<1>3. ASSUME Admissible(c),
             creation' = [creation EXCEPT ![q] =
                            [NoSubmission EXCEPT
                               !.stage = "READ", !.key = key, !.content = c, !.at = instant,
                               !.snapshot = recipient[c.recipient].address]]
      PROVE  \E p : NewRow(q, p)
  <2> DEFINE p == [NoSubmission EXCEPT !.stage = "READ", !.key = key, !.content = c, !.at = instant,
                                       !.snapshot = recipient[c.recipient].address]
  <2>1. recipient[c.recipient].address = Destination(c) /\ Payable(c, configuration)
      BY <1>3, CorridorIsPayable DEF Admissible, MatchingRecipient, Destination, SubmissionInv, AdminInv
  <2>2. Destination(c) \in Snapshots /\ instant \in Nat
      BY <1>0 DEF Snapshots, CreationTypes
  <2>3. Payable(c, configuration')
      BY <2>1, PayableStays
  <2>4. /\ p \in SubmissionRow /\ p.stage = "READ" /\ p.outcome = "NONE"
        /\ p.content = c /\ p.snapshot = Destination(c)
      BY <2>1, <2>2, NoSubmissionRow DEF SubmissionRow
  <2>5. Truthful(p, transfer') /\ Checked(p, configuration')
      BY <2>3, <2>4 DEF Truthful, Checked
  <2> QED
      BY <1>3, <2>4, <2>5 DEF NewRow
<1> QED
    BY <1>1, <1>2, <1>3 DEF Receive
\* A submission on its way moves on, with what it has read.
LEMMA MovedRow ==
    ASSUME SubmissionInv, PoliciesStay, TransfersStay, NEW q \in Slots,
           creation[q].stage \in {"READ", "KEYED", "COUNTED"},
           NEW stage \in {"READ", "KEYED", "COUNTED"}, NEW n \in Nat, NEW p,
           \/ p = [creation[q] EXCEPT !.stage = stage]
           \/ p = [creation[q] EXCEPT !.stage = stage, !.attempt = n],
           creation' = [creation EXCEPT ![q] = p]
    PROVE  NewRow(q, p)
<1> DEFINE r == creation[q]
<1>1. r \in SubmissionRow /\ Truthful(r, transfer) /\ Checked(r, configuration)
    BY DEF SubmissionInv, CreationTypes
<1>2. /\ p \in SubmissionRow /\ p.content = r.content /\ p.snapshot = r.snapshot /\ p.key = r.key
      /\ p.outcome = r.outcome /\ p.transfer = r.transfer
  <2>1. CASE p = [creation[q] EXCEPT !.stage = stage]
      BY <1>1, <2>1 DEF SubmissionRow
  <2>2. CASE p = [creation[q] EXCEPT !.stage = stage, !.attempt = n]
      BY <1>1, <2>2 DEF SubmissionRow
  <2> QED
      BY <2>1, <2>2
<1>3. Truthful(p, transfer')
    BY <1>1, <1>2 DEF Truthful, TransfersStay, Submitted
<1>4. Checked(p, configuration')
  <2>1. r.content \in Contents /\ r.snapshot = Destination(r.content) /\ Payable(r.content, configuration)
      BY <1>1 DEF Checked
  <2>2. Payable(r.content, configuration')
      BY <2>1, PayableStays
  <2> QED
      BY <1>2, <2>1, <2>2 DEF Checked
<1> QED
    BY <1>2, <1>3, <1>4 DEF NewRow

\* A submission is answered.
LEMMA AnsweredRow ==
    ASSUME SubmissionInv, NEW q \in Slots, NEW outcome \in {"CREATED", "REFUSED", "FAILED"},
           NEW t \in Transfers \cup {None}, Answered(q, outcome, t),
           outcome = "CREATED" =>
               /\ t \in Transfers /\ transfer'[t].state # "NONE"
               /\ transfer'[t].key = creation[q].key /\ transfer'[t].content = creation[q].content
    PROVE  \E p : NewRow(q, p)
<1> DEFINE r == creation[q]
           p == [r EXCEPT !.stage = "ANSWERED", !.outcome = outcome, !.transfer = t]
<1>1. r \in SubmissionRow
    BY DEF SubmissionInv, CreationTypes
<1>2. /\ p \in SubmissionRow /\ p.stage = "ANSWERED" /\ p.outcome = outcome /\ p.transfer = t
      /\ p.key = r.key /\ p.content = r.content
    BY <1>1 DEF SubmissionRow
<1>3. creation' = [creation EXCEPT ![q] = p]
    BY DEF Answered
<1> HIDE DEF p
<1>4. Truthful(p, transfer') /\ Checked(p, configuration')
    BY <1>2 DEF Truthful, Checked
<1> QED
    BY <1>2, <1>3, <1>4 DEF NewRow

\* The commit of a submission: the row it inserts.
LEMMA CreateEffect ==
    ASSUME SubmissionInv, NEW q \in Slots, NEW t \in Transfers, Create(q, t)
    PROVE  /\ transfer' \in [Transfers -> TransferRow]
           /\ transfer[t].state = "NONE" /\ transfer'[t].state = "ACTIVE"
           /\ transfer'[t].key = creation[q].key /\ transfer'[t].content = creation[q].content
           /\ transfer'[t].snapshot = Destination(creation[q].content)
           /\ creation[q].content \in Contents /\ Payable(creation[q].content, configuration)
           /\ Kept(creation[q].content.recipient) /\ recipient' = recipient
           /\ Stored(creation[q].key) = {}
           /\ \A u \in Transfers \ {t} : transfer'[u] = transfer[u]
<1> DEFINE r == creation[q]
           row == [state |-> "ACTIVE", key |-> r.key, content |-> r.content, at |-> r.at,
                   snapshot |-> r.snapshot]
<1>1. r \in SubmissionRow /\ Checked(r, configuration) /\ transfer \in [Transfers -> TransferRow]
    BY DEF SubmissionInv, CreationTypes
<1>2. /\ r.stage = "COUNTED" /\ transfer[t].state = "NONE" /\ Kept(r.content.recipient)
      /\ Stored(r.key) = {} /\ transfer' = [transfer EXCEPT ![t] = row] /\ recipient' = recipient
    BY DEF Create
<1>3. r.content \in Contents /\ r.snapshot = Destination(r.content) /\ Payable(r.content, configuration)
    BY <1>1, <1>2 DEF Checked
<1>4. /\ row \in TransferRow /\ row.state = "ACTIVE" /\ row.key = r.key /\ row.content = r.content
      /\ row.snapshot = r.snapshot
    BY <1>1 DEF SubmissionRow, TransferRow
<1> HIDE DEF row
<1>5. /\ transfer' \in [Transfers -> TransferRow] /\ transfer'[t] = row
      /\ \A u \in Transfers \ {t} : transfer'[u] = transfer[u]
    BY <1>1, <1>2, <1>4
<1> QED
    BY <1>2, <1>3, <1>4, <1>5

\* Transfers only appear and end.
LEMMA TransferEffect ==
    ASSUME SubmissionInv, [SubmissionsNext]_submissionsVars
    PROVE  TransfersStay /\ transfer' \in [Transfers -> TransferRow]
<1>0. transfer \in [Transfers -> TransferRow] /\ AppInv
    BY DEF SubmissionInv, CreationTypes
<1>1. CASE UNCHANGED transfer
    BY <1>0, <1>1 DEF TransfersStay, Submitted
<1>2. ASSUME NEW t \in Transfers, EndTransfer(t) PROVE TransfersStay /\ transfer' \in [Transfers -> TransferRow]
  <2>1. transfer' = [transfer EXCEPT ![t].state = "ENDED"]
      BY <1>2 DEF EndTransfer
  <2>2. /\ transfer'[t] = [transfer[t] EXCEPT !.state = "ENDED"] /\ transfer[t] \in TransferRow
        /\ \A u \in Transfers \ {t} : transfer'[u] = transfer[u]
      BY <1>0, <2>1
  <2>3. transfer' \in [Transfers -> TransferRow]
      BY <1>0, <2>1 DEF TransferRow
  <2> QED
      BY <2>2, <2>3 DEF TransfersStay, Submitted, TransferRow
<1>3. ASSUME NEW q \in Slots, NEW t \in Transfers, Create(q, t)
      PROVE  TransfersStay /\ transfer' \in [Transfers -> TransferRow]
    BY <1>3, CreateEffect DEF TransfersStay, Submitted
<1>4. UNCHANGED transfer \/ (\E t \in Transfers : EndTransfer(t)) \/ \E q \in Slots, t \in Transfers : Create(q, t)
    BY <1>0, StepKinds DEF RecipientNext, CreateRecipient, UpdateRecipient, DeleteRecipient, Receive,
                           Serve, LockKey, Count, Retry, Fail
<1> QED
    BY <1>1, <1>2, <1>3, <1>4

\* Whatever the server does for a submission, it reports truthfully.
LEMMA ServeRow ==
    ASSUME SubmissionInv, PoliciesStay, TransfersStay, NEW q \in Slots, Serve(q)
    PROVE  \E p : NewRow(q, p)
<1> DEFINE r == creation[q]
<1>0. CreationTypes /\ r \in SubmissionRow /\ Checked(r, configuration) /\ creation \in [Slots -> SubmissionRow]
    BY DEF SubmissionInv, CreationTypes
<1>1. CASE LockKey(q)
  <2>1. r.stage = "READ" /\ transfer' = transfer
      BY <1>1 DEF LockKey
  <2>2. r.key \in Keys \cup {None} /\ r.content \in Contents
      BY <1>0, <2>1 DEF Checked, SubmissionRow
  <2>3. CASE AnswerStored(q, r.key, r.content)
      BY <1>0, <2>1, <2>2, <2>3, StoredRow
  <2>4. CASE creation' = [creation EXCEPT ![q].stage = "KEYED"]
    <3>1. creation' = [creation EXCEPT ![q] = [r EXCEPT !.stage = "KEYED"]]
        BY <2>4
    <3> QED
        BY <2>1, <3>1, MovedRow
  <2> QED
      BY <1>1, <2>3, <2>4 DEF LockKey
<1>2. CASE Count(q)
  <2>1. CASE creation' = [creation EXCEPT ![q].stage = "COUNTED"]
    <3>1. creation' = [creation EXCEPT ![q] = [r EXCEPT !.stage = "COUNTED"]] /\ r.stage = "KEYED"
        BY <1>2, <2>1 DEF Count
    <3> QED
        BY <3>1, MovedRow
  <2>2. CASE Answered(q, "REFUSED", None)
      BY <2>2, AnsweredRow
  <2> QED
      BY <1>2, <2>1, <2>2 DEF Count
<1>3. CASE \E t \in Transfers : Create(q, t)
  <2> PICK t \in Transfers : Create(q, t)
      BY <1>3
  <2>1. CASE Answered(q, "CREATED", t)
      BY <2>1, CreateEffect, AnsweredRow
  <2>2. CASE Answered(q, "FAILED", None)
      BY <2>2, AnsweredRow
  <2> QED
      BY <2>1, <2>2 DEF Create
<1>4. CASE Retry(q)
  <2>1. creation' = [creation EXCEPT ![q] = [r EXCEPT !.stage = "READ", !.attempt = @ + 1]] /\ r.stage = "COUNTED"
      BY <1>4 DEF Retry
  <2>2. r.attempt + 1 \in Nat
      BY <1>0 DEF SubmissionRow
  <2> QED
      BY <2>1, <2>2, MovedRow
<1>5. CASE Fail(q)
    BY <1>5, AnsweredRow DEF Fail
<1> QED
    BY <1>1, <1>2, <1>3, <1>4, <1>5 DEF Serve
\* Recipients are not touched by submissions, and none with a transfer goes.
LEMMA RecipientEffect ==
    ASSUME SubmissionInv, [SubmissionsNext]_submissionsVars
    PROVE  /\ recipient' \in [Recipients -> RecipientRow]
           /\ \A t \in Submitted : recipient'[transfer[t].content.recipient].state = "KEPT"
<1>0. recipient \in [Recipients -> RecipientRow] /\ AppInv
    BY DEF SubmissionInv, CreationTypes
<1>1. \A t \in Submitted : /\ Kept(transfer[t].content.recipient)
                           /\ transfer[t].content.recipient \in Recipients
    BY ContentsAssumption DEF SubmissionInv, TransferIsPayable
<1>2. CASE UNCHANGED recipient
    BY <1>0, <1>1, <1>2 DEF Kept
<1>3. ASSUME NEW p \in Recipients, NEW a \in Addresses, CreateRecipient(p, a) \/ UpdateRecipient(p, a)
      PROVE  /\ recipient' \in [Recipients -> RecipientRow]
             /\ \A x \in Recipients : recipient[x].state = "KEPT" => recipient'[x].state = "KEPT"
  <2>1. \/ recipient' = [recipient EXCEPT ![p] = [state |-> "KEPT", address |-> a]]
        \/ recipient' = [recipient EXCEPT ![p].address = a]
      BY <1>3 DEF CreateRecipient, UpdateRecipient
  <2> QED
      BY <1>0, <2>1 DEF RecipientRow
<1>4. ASSUME NEW p \in Recipients, DeleteRecipient(p)
      PROVE  /\ recipient' \in [Recipients -> RecipientRow]
             /\ \A x \in Recipients \ {p} : recipient'[x] = recipient[x]
             /\ \A t \in Submitted : transfer[t].content.recipient # p
    BY <1>0, <1>4 DEF DeleteRecipient, RecipientRow
<1>5. UNCHANGED recipient \/ RecipientNext
    BY <1>0, StepKinds DEF Receive, Serve, LockKey, Count, Create, Retry, Fail, EndTransfer
<1>6. CASE RecipientNext
    BY <1>1, <1>3, <1>4, <1>6 DEF RecipientNext, Kept
<1> QED
    BY <1>2, <1>5, <1>6

\* Every step keeps the invariant of the submissions.
LEMMA SubmissionStep ==
    ASSUME SubmissionInv, [SubmissionsNext]_submissionsVars
    PROVE  SubmissionInv'
<1>0. AdminInv' /\ PoliciesStay /\ AppInv'
    BY AdminSteps, AdminStep, AppSteps, AppStep DEF SubmissionInv
<1>1. TransfersStay /\ transfer' \in [Transfers -> TransferRow]
    BY TransferEffect
<1>2. UNCHANGED creation \/ \E q, p : NewRow(q, p)
  <2>0. AppInv
      BY DEF SubmissionInv
  <2>1. CASE UNCHANGED creation
      BY <2>1
  <2>2. CASE \E x : creation' = [creation EXCEPT ![x] = NoSubmission]
    <3>1. Truthful(NoSubmission, transfer') /\ Checked(NoSubmission, configuration')
        BY NoSubmissionRow DEF Truthful, Checked
    <3> QED
        BY <2>2, <3>1, NoSubmissionRow DEF NewRow
  <2>3. CASE \E q \in Slots, key \in Keys \cup {None}, c \in Contents : Receive(q, key, c)
      BY <1>0, <2>3, ReceiveRow
  <2>4. CASE \E q \in Slots : Serve(q)
      BY <1>0, <1>1, <2>4, ServeRow
  <2> QED
      BY <2>0, <2>1, <2>2, <2>3, <2>4, StepKinds
         DEF RecipientNext, CreateRecipient, UpdateRecipient, DeleteRecipient, EndTransfer
<1>3. /\ creation' \in [Slots -> SubmissionRow]
      /\ \A q \in Slots : Truthful(creation'[q], transfer') /\ Checked(creation'[q], configuration')
    BY <1>0, <1>1, <1>2, RowsHold DEF NewRow, SubmissionInv, CreationTypes
<1>4. instant' \in Nat
  <2>1. instant' \in {instant, instant + 1}
      BY StepKinds DEF SubmissionInv, RecipientNext, CreateRecipient, UpdateRecipient, DeleteRecipient,
            Receive, Serve, LockKey, Count, Create, Retry, Fail, EndTransfer
  <2> QED
      BY <2>1 DEF SubmissionInv, CreationTypes
<1>5. CreationTypes'
    BY <1>1, <1>3, <1>4, RecipientEffect DEF CreationTypes
<1>6. (\A t \in Transfers : transfer'[t].state # "NONE" => t \in Submitted)
      \/ \E q \in Slots, t \in Transfers : Create(q, t)
  <2>1. UNCHANGED transfer \/ (\E t \in Transfers : EndTransfer(t)) \/ \E q \in Slots, t \in Transfers : Create(q, t)
      BY StepKinds DEF SubmissionInv, RecipientNext, CreateRecipient, UpdateRecipient, DeleteRecipient,
            Receive, Serve, LockKey, Count, Retry, Fail
  <2>2. CASE \E t \in Transfers : EndTransfer(t)
      BY <2>2 DEF EndTransfer, Submitted, SubmissionInv, CreationTypes
  <2> QED
      BY <2>1, <2>2 DEF Submitted
<1>7. /\ \A t, u \in Transfers :
            transfer'[t].state # "NONE" /\ transfer'[u].state # "NONE" =>
               (transfer'[t].key # None /\ transfer'[t].key = transfer'[u].key => t = u)
      /\ \A t \in Transfers : transfer'[t].state # "NONE" =>
            /\ transfer'[t].content \in Contents
            /\ recipient'[transfer'[t].content.recipient].state = "KEPT"
            /\ transfer'[t].snapshot = Destination(transfer'[t].content)
            /\ Payable(transfer'[t].content, configuration')
  <2>1. \A t \in Submitted :
           /\ transfer'[t].content \in Contents
           /\ recipient'[transfer'[t].content.recipient].state = "KEPT"
           /\ transfer'[t].snapshot = Destination(transfer'[t].content)
           /\ Payable(transfer'[t].content, configuration')
    <3> SUFFICES ASSUME NEW t \in Submitted
                 PROVE  /\ transfer'[t].content \in Contents
                        /\ recipient'[transfer'[t].content.recipient].state = "KEPT"
                        /\ transfer'[t].snapshot = Destination(transfer'[t].content)
                        /\ Payable(transfer'[t].content, configuration')
        OBVIOUS
    <3>1. transfer'[t].content = transfer[t].content /\ transfer'[t].snapshot = transfer[t].snapshot
        BY <1>1 DEF TransfersStay
    <3>2. /\ transfer[t].content \in Contents
          /\ transfer[t].snapshot = Destination(transfer[t].content)
          /\ Payable(transfer[t].content, configuration)
        BY DEF SubmissionInv, TransferIsPayable, Destination, Payable
    <3>3. Payable(transfer[t].content, configuration')
        BY <1>0, <3>2, PayableStays
    <3> QED
        BY <3>1, <3>2, <3>3, RecipientEffect
  <2>2. \A t, u \in Submitted : transfer'[t].key # None /\ transfer'[t].key = transfer'[u].key => t = u
      BY <1>1 DEF TransfersStay, SubmissionInv
  <2>3. CASE \A t \in Transfers : transfer'[t].state # "NONE" => t \in Submitted
    <3>1. \A t, u \in Transfers :
            transfer'[t].state # "NONE" /\ transfer'[u].state # "NONE" =>
               (transfer'[t].key # None /\ transfer'[t].key = transfer'[u].key => t = u)
      <4> SUFFICES ASSUME NEW t \in Transfers, NEW u \in Transfers,
                          transfer'[t].state # "NONE", transfer'[u].state # "NONE",
                          transfer'[t].key # None, transfer'[t].key = transfer'[u].key
                   PROVE  t = u
          OBVIOUS
      <4>1. t \in Submitted /\ u \in Submitted
          BY <2>3
      <4> QED
          BY <2>2, <4>1
    <3>2. \A t \in Transfers : transfer'[t].state # "NONE" =>
            /\ transfer'[t].content \in Contents
            /\ recipient'[transfer'[t].content.recipient].state = "KEPT"
            /\ transfer'[t].snapshot = Destination(transfer'[t].content)
            /\ Payable(transfer'[t].content, configuration')
        BY <2>1, <2>3
    <3> QED
        BY <3>1, <3>2
  <2>4. CASE \E q \in Slots, t \in Transfers : Create(q, t)
    <3> PICK q \in Slots, t \in Transfers : Create(q, t)
        BY <2>4
    <3>1. /\ transfer'[t].key = creation[q].key /\ transfer'[t].content = creation[q].content
          /\ transfer'[t].snapshot = Destination(creation[q].content)
          /\ creation[q].content \in Contents /\ Payable(creation[q].content, configuration)
          /\ Kept(creation[q].content.recipient) /\ recipient' = recipient
          /\ Stored(creation[q].key) = {} /\ t \notin Submitted
          /\ \A u \in Transfers \ {t} : transfer'[u] = transfer[u]
        BY CreateEffect DEF Submitted
    <3>2. \A u \in Transfers \ {t} : transfer'[u].state # "NONE" => u \in Submitted
        BY <3>1 DEF Submitted
    <3>3. \A u \in Submitted : transfer'[t].key # None => transfer'[u].key # transfer'[t].key
        BY <3>1 DEF Stored, Submitted
    <3>4. Payable(creation[q].content, configuration')
        BY <1>0, <3>1, PayableStays
    <3>5. \A v, u \in Transfers :
            transfer'[v].state # "NONE" /\ transfer'[u].state # "NONE" =>
               (transfer'[v].key # None /\ transfer'[v].key = transfer'[u].key => v = u)
      <4> SUFFICES ASSUME NEW v \in Transfers, NEW u \in Transfers,
                          transfer'[v].state # "NONE", transfer'[u].state # "NONE",
                          transfer'[v].key # None, transfer'[v].key = transfer'[u].key
                   PROVE  v = u
          OBVIOUS
      <4>1. CASE v # t /\ u # t
        <5>1. v \in Submitted /\ u \in Submitted
            BY <3>2, <4>1
        <5> QED
            BY <2>2, <5>1
      <4>2. CASE v = t /\ u # t
        <5>1. u \in Submitted
            BY <3>2, <4>2
        <5> QED
            BY <3>3, <4>2, <5>1
      <4>3. CASE v # t /\ u = t
        <5>1. v \in Submitted
            BY <3>2, <4>3
        <5> QED
            BY <3>3, <4>3, <5>1
      <4> QED
          BY <4>1, <4>2, <4>3
    <3>6. /\ transfer'[t].content \in Contents
          /\ recipient'[transfer'[t].content.recipient].state = "KEPT"
          /\ transfer'[t].snapshot = Destination(transfer'[t].content)
          /\ Payable(transfer'[t].content, configuration')
        BY <3>1, <3>4 DEF Kept
    <3> QED
        BY <2>1, <3>2, <3>5, <3>6
  <2> QED
      BY <1>6, <2>3, <2>4
<1>8. TransferIsPayable'
    BY <1>7 DEF TransferIsPayable, Submitted, Kept, Destination, Payable
<1>9. /\ (\A t, u \in Submitted : transfer[t].key # None /\ transfer[t].key = transfer[u].key => t = u)'
      /\ (\A t \in Submitted : transfer[t].content \in Contents)'
    BY <1>7 DEF Submitted
<1> QED
    BY <1>0, <1>3, <1>5, <1>8, <1>9 DEF SubmissionInv

\* The invariant of the submissions holds at the start.
LEMMA SubmissionStarts == SubmissionsInit => SubmissionInv
<1> SUFFICES ASSUME SubmissionsInit PROVE SubmissionInv
    OBVIOUS
<1>1. AdminInv
    BY AdminStarts DEF SubmissionsInit
<1>2. AppInv
    BY DEF SubmissionsInit, AppInit, NothingSaved, AppInv, AppRow
<1>3. NoTransfer \in TransferRow /\ NoTransfer.state = "NONE"
    BY DEF NoTransfer, TransferRow, Snapshots
<1>4. CreationTypes
    BY <1>3, NoSubmissionRow DEF SubmissionsInit, CreationInit, CreationTypes, RecipientRow
<1>5. Submitted = {} /\ \A q \in Slots : creation[q] = NoSubmission
    BY <1>3 DEF SubmissionsInit, CreationInit, Submitted
<1>6. \A q \in Slots : Truthful(creation[q], transfer) /\ Checked(creation[q], configuration)
    BY <1>5, NoSubmissionRow DEF Truthful, Checked
<1>7. TransferIsPayable
    BY <1>5 DEF TransferIsPayable
<1> QED
    BY <1>1, <1>2, <1>4, <1>5, <1>6, <1>7 DEF SubmissionInv

\* The invariant of the submissions holds always.
LEMMA SubmissionInvariance == SubmissionsSpec => []SubmissionInv
BY SubmissionStarts, SubmissionStep, PTL DEF SubmissionsSpec

\* Whatever overlaps, is retried or is answered from a stored key: an
\* idempotency key names one transfer, and every success reported for it names
\* that transfer, made from the content that was sent (transfers/service.ts).
THEOREM KeysCorrect == SubmissionsSpec => []KeyNamesOneTransfer
<1>1. SubmissionInv => KeyNamesOneTransfer
    BY DEF SubmissionInv, KeyNamesOneTransfer, Truthful
<1> QED
    BY <1>1, SubmissionInvariance, PTL

\* The policy and the recipient are checked before the transaction that inserts
\* the transfer: it can be paid all the same, whatever administrators and other
\* requests of the sender did in between.
THEOREM TransfersPayable == SubmissionsSpec => []TransferIsPayable
<1>1. SubmissionInv => TransferIsPayable
    BY DEF SubmissionInv
<1> QED
    BY <1>1, SubmissionInvariance, PTL

-----------------------------------------------------------------------------
(* The app's keys *)

\* The logs of the keys: the one that is held is the one that was saved.
AppLogInv ==
    /\ fate \in [Keys -> {"NONE", "HELD", "REPORTED", "REFUSED", "LEFT"}]
    /\ uncertain \subseteq Keys
    /\ app.slot \in Slots <=> app.stage = "WAITING"
    /\ app.stage # "IDLE" => Pending
    /\ \A k \in Keys : fate[k] = "HELD" <=> k = app.saved.key

\* A request under one of the app's keys is the one that the app waits for, or
\* an attempt of that key ended without a clear answer; so is a transfer, but
\* for one that was reported or whose answer is on the way.
AttemptsInv ==
    /\ app.stage = "WAITING" =>
          creation[app.slot].stage # "IDLE" /\ creation[app.slot].key = app.saved.key
    /\ \A q \in Slots : creation[q].key \in keys => q = app.slot \/ creation[q].key \in uncertain
    /\ \A t \in Submitted : transfer[t].key \in keys \ uncertain =>
          \/ fate[transfer[t].key] = "REPORTED"
          \/ /\ app.stage = "WAITING" /\ transfer[t].key = app.saved.key
             /\ creation[app.slot].stage = "ANSWERED"
             /\ creation[app.slot].outcome \in {"CREATED", "FAILED"}

\* What a step of the app does: it goes on with what it saved; it sends it; an
\* attempt fails, and what it saved stays; it saves a new submission; it gives
\* the saved one up; or it learns what became of it.
GoingOn ==
    /\ app'.slot = app.slot /\ app'.saved = app.saved
    /\ app'.stage = "WAITING" <=> app.stage = "WAITING"
    /\ app'.stage # "IDLE" => Pending
    /\ UNCHANGED <<fate, uncertain, creation>>

Sending(q) ==
    /\ app.stage = "SENDING" /\ app'.stage = "WAITING"
    /\ app'.slot = q /\ app'.saved = app.saved
    /\ Receive(q, app.saved.key, app.saved.content)
    /\ UNCHANGED <<fate, uncertain>>

Failing ==
    /\ app'.slot = None /\ app'.saved = app.saved /\ app'.stage = "IDLE"
    /\ Unanswered /\ UNCHANGED fate
    /\ UNCHANGED creation \/ (app.stage = "WAITING" /\ Collect(app.slot))

Saving(k) ==
    /\ k \in Keys \ (keys \cup UsedKeys)
    /\ app.stage = "IDLE" /\ app'.stage = "SENDING" /\ app'.slot = app.slot /\ app'.saved.key = k
    /\ fate' = IF Pending THEN [fate EXCEPT ![k] = "HELD", ![app.saved.key] = "LEFT"]
                          ELSE [fate EXCEPT ![k] = "HELD"]
    /\ UNCHANGED <<uncertain, creation>>

Resting == app'.slot = None /\ app'.saved = NothingSaved /\ app'.stage = "IDLE" /\ Pending

GivingUp ==
    /\ Resting
    /\ \E how \in {"REFUSED", "LEFT"} : Ends(how)
    /\ Unanswered /\ UNCHANGED creation

Learning ==
    /\ Resting
    /\ app.stage = "WAITING" /\ Collect(app.slot)
    /\ \/ creation[app.slot].outcome = "CREATED" /\ Ends("REPORTED")
       \/ creation[app.slot].outcome \notin {"CREATED", "FAILED"} /\ Ends("REFUSED")
    /\ UNCHANGED uncertain

AppMoves ==
    /\ UNCHANGED transfer
    /\ \/ GoingOn
       \/ \E q \in Slots : Sending(q)
       \/ Failing
       \/ \E k \in Keys : Saving(k)
       \/ GivingUp
       \/ Learning

\* Every step of the app is one of these.
LEMMA AppMove ==
    ASSUME AppInv, AppLogInv, AppNext
    PROVE  AppMoves
<1>0. /\ app \in AppRow
      /\ app.slot \in Slots <=> app.stage = "WAITING"
      /\ app.stage # "IDLE" => Pending
    BY DEF AppInv, AppLogInv
<1>1. UNCHANGED transfer
    BY DEF AppNext, Tap, SignedOut, Send, Receive, Unauthorized, Refreshed, RefreshRefused,
           RefreshFails, Disconnected, Answer, Collect, Restart, Close, Expire, OtherCalls, SignIn,
           SignOut, creationVars
<1>2. ASSUME Like(app', app), UNCHANGED <<fate, uncertain, creation>> PROVE GoingOn
    BY <1>0, <1>2 DEF Like, GoingOn
<1>3. ASSUME Like(app', Failed), Unanswered, UNCHANGED fate,
             UNCHANGED creation \/ (app.stage = "WAITING" /\ Collect(app.slot))
      PROVE  Failing
    BY <1>0, <1>3, Rests DEF Like, Failing
<1>4. ASSUME Like(app', Dropped), Pending PROVE Resting
    BY <1>0, <1>4, Rests DEF Like, Resting
<1>5. ASSUME app.stage # "WAITING", UNCHANGED uncertain PROVE Unanswered
    BY <1>5 DEF Unanswered
<1>6. ASSUME NEW c \in Contents, Tap(c) PROVE GoingOn \/ \E k \in Keys : Saving(k)
  <2>1. app.stage = "IDLE" /\ UNCHANGED <<uncertain, creation>>
      BY <1>6 DEF Tap, creationVars
  <2>2. /\ Goes("SENDING") \in AppRow /\ Goes("SENDING").slot = app.slot
        /\ Goes("SENDING").saved = app.saved /\ Goes("SENDING").stage = "SENDING"
      BY <1>0, GoesOn
  <2>3. CASE SavedFor(c)
      BY <1>0, <1>6, <2>1, <2>2, <2>3 DEF Tap, SavedFor, GoingOn
  <2>4. CASE ~SavedFor(c)
    <3>1. PICK k \in Keys \ (keys \cup UsedKeys) :
            /\ app' = [Goes("SENDING") EXCEPT !.saved = [key |-> k, content |-> c]]
            /\ fate' = IF Pending /\ app.saved.content # c
                       THEN [fate EXCEPT ![k] = "HELD", ![app.saved.key] = "LEFT"]
                       ELSE [fate EXCEPT ![k] = "HELD"]
        BY <1>6, <2>4 DEF Tap
    <3>2. app'.slot = app.slot /\ app'.saved.key = k /\ app'.stage = "SENDING"
        BY <2>2, <3>1 DEF AppRow
    <3>3. Pending => app.saved.content # c
        BY <2>4 DEF SavedFor
    <3> QED
        BY <2>1, <3>1, <3>2, <3>3 DEF Saving
  <2> QED
      BY <2>3, <2>4
<1>7. ASSUME NEW q \in Slots, Send(q) PROVE Sending(q)
  <2>1. app' = [Goes("WAITING") EXCEPT !.slot = q]
      BY <1>7 DEF Send
  <2>2. app'.slot = q /\ app'.saved = app.saved /\ app'.stage = "WAITING"
      BY <1>0, <2>1, GoesOn DEF AppRow
  <2> QED
      BY <1>7, <2>2 DEF Send, Sending
<1>8. ASSUME SignedOut \/ Unauthorized \/ Refreshed PROVE GivingUp \/ GoingOn
  <2>1. app.stage # "IDLE" /\ app.stage # "WAITING" /\ Pending /\ UNCHANGED <<uncertain, creation>>
      BY <1>0, <1>8 DEF SignedOut, Unauthorized, Refreshed, creationVars
  <2>2. CASE app' = ToLoginPage /\ Ends("REFUSED")
      BY <1>0, <1>4, <1>5, <2>1, <2>2, Rests DEF GivingUp
  <2>3. CASE app' = Goes("REFRESHING") /\ UNCHANGED fate
      BY <1>0, <2>1, <2>3, GoesOn DEF GoingOn
  <2>4. CASE Refreshed
    <3>1. /\ app' = [Goes("SENDING") EXCEPT !.session = "FRESH", !.retried = TRUE]
          /\ UNCHANGED fate
        BY <2>4 DEF Refreshed
    <3>2. app'.slot = app.slot /\ app'.saved = app.saved /\ app'.stage = "SENDING"
        BY <1>0, <3>1, GoesOn DEF AppRow
    <3> QED
        BY <2>1, <3>1, <3>2 DEF GoingOn
  <2> QED
      BY <1>8, <2>2, <2>3, <2>4 DEF SignedOut, Unauthorized
<1>9. ASSUME RefreshRefused PROVE GivingUp
  <2>1. /\ app.stage = "REFRESHING" /\ app' = [ToLoginPage EXCEPT !.session = "NONE"]
        /\ Ends("REFUSED") /\ UNCHANGED <<uncertain, creation>>
      BY <1>9 DEF RefreshRefused, creationVars
  <2> QED
      BY <1>0, <1>4, <1>5, <2>1, Rests DEF GivingUp
<1>10. ASSUME RefreshFails PROVE Failing
  <2>1. /\ app.stage = "REFRESHING" /\ app' = [Failed EXCEPT !.session = "NONE"]
        /\ UNCHANGED <<fate, uncertain, creation>>
      BY <1>10 DEF RefreshFails, creationVars
  <2> QED
      BY <1>0, <1>3, <1>5, <2>1, Rests
<1>11. ASSUME Disconnected \/ Restart PROVE Failing
  <2>1. /\ app' \in {Failed} \cup Started(Failed) /\ Unanswered /\ UNCHANGED <<fate, creation>>
      BY <1>11 DEF Disconnected, Restart, creationVars
  <2> QED
      BY <1>0, <1>3, <2>1, Rests, LikeIt
<1>12. ASSUME Answer PROVE Failing \/ Learning
  <2>1. app.stage = "WAITING" /\ Collect(app.slot) /\ Pending
      BY <1>0, <1>12 DEF Answer
  <2>2. CASE app' = Failed /\ Unanswered /\ UNCHANGED fate
      BY <1>0, <1>3, <2>1, <2>2, Rests, LikeIt
  <2>3. CASE /\ creation[app.slot].outcome # "FAILED"
             /\ app' = Dropped
             /\ Ends(IF creation[app.slot].outcome = "CREATED" THEN "REPORTED" ELSE "REFUSED")
             /\ UNCHANGED uncertain
    <3>1. Resting
        BY <1>0, <1>4, <2>1, <2>3, Rests, LikeIt
    <3>2. CASE creation[app.slot].outcome = "CREATED"
        BY <2>1, <2>3, <3>1, <3>2 DEF Learning
    <3>3. CASE creation[app.slot].outcome # "CREATED"
        BY <2>1, <2>3, <3>1, <3>3 DEF Learning
    <3> QED
        BY <3>2, <3>3
  <2> QED
      BY <1>12, <2>2, <2>3 DEF Answer
<1>13. ASSUME Close PROVE GivingUp
  <2>1. /\ app' \in Started(Dropped) /\ Pending /\ Ends("LEFT") /\ Unanswered /\ UNCHANGED creation
      BY <1>13 DEF Close, creationVars
  <2> QED
      BY <1>0, <1>4, <2>1, Rests DEF GivingUp
<1>14. ASSUME Expire \/ OtherCalls \/ SignIn \/ SignOut PROVE GoingOn
  <2>1. UNCHANGED <<fate, uncertain, creation>>
      BY <1>14 DEF Expire, OtherCalls, SignIn, SignOut, creationVars
  <2>2. Like(app', app)
      BY <1>0, <1>14, LikeIt DEF Expire, OtherCalls, SignIn, SignOut
  <2> QED
      BY <1>2, <2>1, <2>2
<1> QED
    BY <1>1, <1>6, <1>7, <1>8, <1>9, <1>10, <1>11, <1>12, <1>13, <1>14 DEF AppNext, AppMoves

\* The held key is the saved one after every step.
LEMMA AppLogStep ==
    ASSUME AppInv, AppLogInv, AppNext
    PROVE  AppLogInv'
<1>0. /\ fate \in [Keys -> {"NONE", "HELD", "REPORTED", "REFUSED", "LEFT"}]
      /\ uncertain \subseteq Keys
      /\ app.slot \in Slots <=> app.stage = "WAITING"
      /\ app.stage # "IDLE" => Pending
      /\ \A k \in Keys : fate[k] = "HELD" <=> k = app.saved.key
      /\ None \notin Keys /\ None \notin Slots
      /\ app.saved.key \in Keys \cup {None}
    BY NoneAssumption DEF AppLogInv, AppInv, AppRow
<1>1. Pending => app.saved.key \in Keys
    BY <1>0 DEF Pending
<1>2. Unanswered => uncertain' \subseteq Keys
    BY <1>0, <1>1 DEF Unanswered
<1>3. CASE GoingOn
    BY <1>0, <1>3 DEF AppLogInv, GoingOn, Pending
<1>4. CASE \E q \in Slots : Sending(q)
    BY <1>0, <1>4 DEF AppLogInv, Sending, Pending
<1>5. CASE Failing
    BY <1>0, <1>2, <1>5 DEF AppLogInv, Failing
<1>6. ASSUME NEW k \in Keys, Saving(k) PROVE AppLogInv'
  <2>1. /\ fate[k] = "NONE" /\ app'.saved.key = k /\ app'.stage = "SENDING" /\ app'.slot \notin Slots
        /\ UNCHANGED uncertain
      BY <1>0, <1>6 DEF Saving, keys
  <2>2. k # app.saved.key
      BY <1>0, <2>1
  <2>3. /\ fate' \in [Keys -> {"NONE", "HELD", "REPORTED", "REFUSED", "LEFT"}]
        /\ \A j \in Keys : fate'[j] = IF j = app.saved.key THEN "LEFT" ELSE IF j = k THEN "HELD" ELSE fate[j]
    <3>1. CASE Pending
        BY <1>0, <1>1, <1>6, <2>2, <3>1 DEF Saving
    <3>2. CASE ~Pending
        BY <1>0, <1>6, <3>2 DEF Saving, Pending
    <3> QED
        BY <3>1, <3>2
  <2>4. Pending'
      BY <1>0, <2>1 DEF Pending
  <2> QED
      BY <1>0, <2>1, <2>2, <2>3, <2>4 DEF AppLogInv
<1>7. ASSUME Resting, uncertain' \subseteq Keys, NEW how \in {"REPORTED", "REFUSED", "LEFT"}, Ends(how)
      PROVE  AppLogInv'
  <2>1. app'.slot \notin Slots /\ app'.stage = "IDLE" /\ app'.saved.key = None
      BY <1>0, <1>7 DEF Resting, NothingSaved
  <2>2. /\ fate' \in [Keys -> {"NONE", "HELD", "REPORTED", "REFUSED", "LEFT"}]
        /\ \A j \in Keys : fate'[j] = IF j = app.saved.key THEN how ELSE fate[j]
      BY <1>0, <1>1, <1>7 DEF Resting, Ends
  <2> QED
      BY <1>0, <1>7, <2>1, <2>2 DEF AppLogInv
<1>8. CASE GivingUp
    BY <1>2, <1>7, <1>8 DEF GivingUp
<1>9. CASE Learning
    BY <1>0, <1>7, <1>9 DEF Learning
<1> QED
    BY <1>3, <1>4, <1>5, <1>6, <1>8, <1>9, AppMove DEF AppMoves

\* What receiving a request does to its key, to the other requests and to the
\* transfers.
LEMMA ReceiveKeeps ==
    ASSUME CreationTypes, NEW q \in Slots, NEW key, NEW c, Receive(q, key, c)
    PROVE  /\ creation[q].stage = "IDLE"
           /\ creation'[q].stage # "IDLE" /\ creation'[q].key = key
           /\ \A o \in Slots \ {q} : creation'[o] = creation[o]
           /\ UNCHANGED transfer
<1>1. creation \in [Slots -> SubmissionRow]
    BY DEF CreationTypes
<1> QED
    BY <1>1 DEF Receive, AnswerStored, NoSubmission

\* The same of serving it: only its commit makes a transfer.
LEMMA ServeKeeps ==
    ASSUME CreationTypes, NEW q \in Slots, Serve(q)
    PROVE  /\ creation[q].stage \notin {"IDLE", "ANSWERED"}
           /\ creation'[q].stage # "IDLE" /\ creation'[q].key = creation[q].key
           /\ \A o \in Slots \ {q} : creation'[o] = creation[o]
           /\ \/ UNCHANGED transfer
              \/ /\ \E t \in Transfers : Create(q, t)
                 /\ creation'[q].stage = "ANSWERED"
                 /\ creation'[q].outcome \in {"CREATED", "FAILED"}
<1>1. creation \in [Slots -> SubmissionRow] /\ creation[q] \in SubmissionRow
    BY DEF CreationTypes
<1>2. ASSUME NEW outcome, NEW t, Answered(q, outcome, t)
      PROVE  /\ creation'[q].stage = "ANSWERED" /\ creation'[q].outcome = outcome
             /\ creation'[q].key = creation[q].key
             /\ \A o \in Slots \ {q} : creation'[o] = creation[o]
    BY <1>1, <1>2 DEF Answered, SubmissionRow
<1>3. CASE LockKey(q)
  <2>1. CASE AnswerStored(q, creation[q].key, creation[q].content)
      BY <1>1, <1>3, <2>1 DEF LockKey, AnswerStored, NoSubmission
  <2>2. CASE creation' = [creation EXCEPT ![q].stage = "KEYED"]
      BY <1>1, <1>3, <2>2 DEF LockKey, SubmissionRow
  <2> QED
      BY <1>3, <2>1, <2>2 DEF LockKey
<1>4. CASE Count(q)
    BY <1>1, <1>2, <1>4 DEF Count, SubmissionRow
<1>5. CASE \E t \in Transfers : Create(q, t)
    BY <1>2, <1>5 DEF Create
<1>6. CASE Retry(q)
    BY <1>1, <1>6 DEF Retry, SubmissionRow
<1>7. CASE Fail(q)
    BY <1>2, <1>7 DEF Fail
<1> QED
    BY <1>3, <1>4, <1>5, <1>6, <1>7 DEF Serve

\* The app's own steps: an attempt is logged when its answer is lost, and a key
\* that the app makes was never used.
LEMMA AppAttempts ==
    ASSUME SubmissionInv, AppLogInv, AttemptsInv, AppNext
    PROVE  AttemptsInv'
<1>0. /\ CreationTypes /\ app \in AppRow /\ AppLogInv'
      /\ fate \in [Keys -> {"NONE", "HELD", "REPORTED", "REFUSED", "LEFT"}]
      /\ app.slot \in Slots <=> app.stage = "WAITING"
      /\ app.stage # "IDLE" => Pending
      /\ \A k \in Keys : fate[k] = "HELD" <=> k = app.saved.key
      /\ None \notin Keys /\ None \notin Slots
      /\ UNCHANGED transfer
    BY AppLogStep, AppMove, NoneAssumption DEF SubmissionInv, AppInv, AppLogInv, AppMoves
<1>1. /\ app.stage = "WAITING" => creation[app.slot].stage # "IDLE" /\ creation[app.slot].key = app.saved.key
      /\ \A q \in Slots : creation[q].key \in keys => q = app.slot \/ creation[q].key \in uncertain
      /\ \A t \in Submitted : transfer[t].key \in keys \ uncertain =>
            \/ fate[transfer[t].key] = "REPORTED"
            \/ /\ app.stage = "WAITING" /\ transfer[t].key = app.saved.key
               /\ creation[app.slot].stage = "ANSWERED"
               /\ creation[app.slot].outcome \in {"CREATED", "FAILED"}
    BY DEF AttemptsInv
<1>2. Submitted' = Submitted
    BY <1>0 DEF Submitted
<1>3. Pending => app.saved.key \in Keys /\ fate[app.saved.key] = "HELD" /\ app.saved.key \in keys
    BY <1>0 DEF Pending, AppRow, keys
<1>4. CASE GoingOn
  <2>1. keys' = keys
      BY <1>4 DEF GoingOn, keys
  <2>2. /\ Submitted' = Submitted /\ transfer' = transfer /\ creation' = creation /\ fate' = fate
        /\ uncertain' = uncertain /\ app'.slot = app.slot /\ app'.saved = app.saved
        /\ app'.stage = "WAITING" <=> app.stage = "WAITING"
      BY <1>0, <1>2, <1>4 DEF GoingOn
  <2> QED
      BY <1>1, <2>1, <2>2 DEF AttemptsInv
<1>5. ASSUME NEW q \in Slots, Sending(q) PROVE AttemptsInv'
  <2>1. /\ creation'[q].stage # "IDLE" /\ creation'[q].key = app.saved.key
        /\ \A o \in Slots \ {q} : creation'[o] = creation[o]
      BY <1>0, <1>5, ReceiveKeeps DEF Sending
  <2>2. /\ app'.slot = q /\ app'.saved = app.saved /\ keys' = keys /\ uncertain' = uncertain
        /\ fate' = fate /\ app.stage # "WAITING"
      BY <1>5 DEF Sending, keys
  <2>3. \A o \in Slots : creation'[o].key \in keys => o = q \/ creation'[o].key \in uncertain
      BY <1>0, <1>1, <2>1, <2>2
  <2>4. \A t \in Submitted : transfer[t].key \in keys \ uncertain => fate[transfer[t].key] = "REPORTED"
      BY <1>1, <2>2
  <2> QED
      BY <1>0, <1>2, <2>1, <2>2, <2>3, <2>4 DEF AttemptsInv
<1>6. ASSUME app'.slot = None, app'.stage = "IDLE", Unanswered, keys' = keys,
             \A k \in keys : fate'[k] = fate[k] \/ k = app.saved.key,
             UNCHANGED creation \/ (app.stage = "WAITING" /\ Collect(app.slot))
      PROVE  AttemptsInv'
  <2>1. uncertain \subseteq uncertain' /\ (app.stage = "WAITING" => app.saved.key \in uncertain')
      BY <1>6 DEF Unanswered
  <2>2. ASSUME NEW o \in Slots, creation'[o].key \in keys PROVE creation'[o].key \in uncertain'
    <3>1. creation'[o] = creation[o]
      <4>1. creation' = [creation EXCEPT ![app.slot] = NoSubmission] => o # app.slot
          BY <1>0, <2>2 DEF CreationTypes, NoSubmission, keys
      <4> QED
          BY <1>0, <1>6, <4>1 DEF Collect, CreationTypes
    <3>2. o = app.slot => app.stage = "WAITING"
        BY <1>0
    <3> QED
        BY <1>1, <2>1, <2>2, <3>1, <3>2
  <2>3. ASSUME NEW t \in Submitted, transfer[t].key \in keys \ uncertain'
        PROVE  fate'[transfer[t].key] = "REPORTED"
    <3>1. transfer[t].key \in keys \ uncertain /\ (app.stage = "WAITING" => transfer[t].key # app.saved.key)
        BY <2>1, <2>3
    <3>2. fate[transfer[t].key] = "REPORTED"
        BY <1>1, <3>1
    <3>3. transfer[t].key # app.saved.key
        BY <1>0, <3>1, <3>2 DEF keys
    <3> QED
        BY <1>6, <3>1, <3>2, <3>3
  <2> QED
      BY <1>0, <1>2, <1>6, <2>2, <2>3 DEF AttemptsInv
<1>7. CASE Failing
    BY <1>6, <1>7 DEF Failing, keys
<1>8. ASSUME NEW how \in {"REPORTED", "REFUSED", "LEFT"}, Ends(how), Pending
      PROVE  /\ keys' = keys /\ fate'[app.saved.key] = how
             /\ \A k \in keys : fate'[k] = fate[k] \/ k = app.saved.key
    BY <1>0, <1>3, <1>8 DEF Ends, keys
<1>9. CASE GivingUp
  <2>1. Resting /\ Unanswered /\ UNCHANGED creation /\ \E how \in {"REFUSED", "LEFT"} : Ends(how)
      BY <1>9 DEF GivingUp
  <2> QED
      BY <1>6, <1>8, <2>1 DEF Resting
<1>10. CASE Learning
  <2>1. /\ app'.slot = None /\ app'.stage = "IDLE" /\ app.stage = "WAITING" /\ Pending
        /\ creation' = [creation EXCEPT ![app.slot] = NoSubmission] /\ uncertain' = uncertain
      BY <1>10 DEF Learning, Resting, Collect
  <2>2. PICK how \in {"REPORTED", "REFUSED"} :
            /\ Ends(how)
            /\ how = "REFUSED" => creation[app.slot].outcome \notin {"CREATED", "FAILED"}
      BY <1>10 DEF Learning
  <2>3. /\ keys' = keys /\ fate'[app.saved.key] = how
        /\ \A k \in keys : fate'[k] = fate[k] \/ k = app.saved.key
      BY <1>8, <2>1, <2>2
  <2>4. ASSUME NEW o \in Slots, creation'[o].key \in keys PROVE creation'[o].key \in uncertain
    <3>1. o # app.slot
        BY <1>0, <2>1, <2>4 DEF CreationTypes, NoSubmission, keys
    <3> QED
        BY <1>1, <2>1, <2>4, <3>1 DEF CreationTypes
  <2>5. ASSUME NEW t \in Submitted, transfer[t].key \in keys \ uncertain
        PROVE  fate'[transfer[t].key] = "REPORTED"
    <3>1. CASE transfer[t].key = app.saved.key
      <4>1. fate[transfer[t].key] # "REPORTED"
          BY <1>3, <2>1, <3>1
      <4>2. creation[app.slot].outcome \in {"CREATED", "FAILED"}
          BY <1>1, <2>5, <4>1
      <4> QED
          BY <2>2, <2>3, <3>1, <4>2
    <3>2. CASE transfer[t].key # app.saved.key
        BY <1>1, <2>3, <2>5, <3>2
    <3> QED
        BY <3>1, <3>2
  <2> QED
      BY <1>0, <1>2, <2>1, <2>3, <2>4, <2>5 DEF AttemptsInv
<1>11. ASSUME NEW k \in Keys, Saving(k) PROVE AttemptsInv'
  <2>1. /\ k \notin keys /\ k \notin UsedKeys /\ app.stage = "IDLE" /\ app'.stage = "SENDING"
        /\ app'.slot = app.slot /\ UNCHANGED <<uncertain, creation>>
      BY <1>11 DEF Saving
  <2>2. \A j \in Keys \ {k} : fate'[j] = fate[j] \/ (fate[j] = "HELD" /\ fate'[j] # "NONE")
    <3>1. CASE Pending
        BY <1>0, <1>3, <1>11, <3>1 DEF Saving
    <3>2. CASE ~Pending
        BY <1>0, <1>11, <3>2 DEF Saving
    <3> QED
        BY <3>1, <3>2
  <2>3. keys' \subseteq keys \cup {k}
      BY <2>2 DEF keys
  <2>4. /\ \A t \in Submitted : transfer[t].key # k
        /\ \A q \in Slots : creation[q].key # k
      BY <2>1 DEF UsedKeys
  <2>5. ASSUME NEW t \in Submitted, transfer[t].key \in keys' \ uncertain
        PROVE  fate'[transfer[t].key] = "REPORTED"
    <3>1. fate[transfer[t].key] = "REPORTED" /\ transfer[t].key \in Keys \ {k}
        BY <1>1, <2>1, <2>3, <2>4, <2>5 DEF keys
    <3> QED
        BY <2>2, <3>1
  <2>6. \A q \in Slots : creation[q].key \in keys' => q = app.slot \/ creation[q].key \in uncertain
      BY <1>1, <2>3, <2>4
  <2> QED
      BY <1>0, <1>2, <2>1, <2>5, <2>6 DEF AttemptsInv
<1> QED
    BY <1>4, <1>5, <1>7, <1>9, <1>10, <1>11, AppMove DEF AppMoves, SubmissionInv

\* The steps of the API and of other clients, who do not have the app's keys.
LEMMA OtherAttempts ==
    ASSUME SubmissionInv, AppLogInv, AttemptsInv, UNCHANGED appVars,
           [SubmissionsNext]_submissionsVars, ~AppNext
    PROVE  AttemptsInv'
<1>0. /\ CreationTypes /\ None \notin Keys
      /\ app.slot \in Slots <=> app.stage = "WAITING"
      /\ UNCHANGED <<app, fate, uncertain, keys>>
    BY NoneAssumption DEF SubmissionInv, AppLogInv, appVars, keys
<1>1. /\ app.stage = "WAITING" => creation[app.slot].stage # "IDLE" /\ creation[app.slot].key = app.saved.key
      /\ \A q \in Slots : creation[q].key \in keys => q = app.slot \/ creation[q].key \in uncertain
      /\ \A t \in Submitted : transfer[t].key \in keys \ uncertain =>
            \/ fate[transfer[t].key] = "REPORTED"
            \/ /\ app.stage = "WAITING" /\ transfer[t].key = app.saved.key
               /\ creation[app.slot].stage = "ANSWERED"
               /\ creation[app.slot].outcome \in {"CREATED", "FAILED"}
    BY DEF AttemptsInv
<1>2. ASSUME \A t \in Submitted' : t \in Submitted /\ transfer'[t].key = transfer[t].key,
             UNCHANGED creation
      PROVE  AttemptsInv'
    BY <1>0, <1>1, <1>2 DEF AttemptsInv
<1>3. ASSUME NEW q \in Slots, q # app.slot, UNCHANGED transfer,
             creation'[q].key \notin keys \/ creation'[q].key = creation[q].key,
             \A o \in Slots \ {q} : creation'[o] = creation[o]
      PROVE  AttemptsInv'
  <2>1. Submitted' = Submitted
      BY <1>3 DEF Submitted
  <2> QED
      BY <1>0, <1>1, <1>3, <2>1 DEF AttemptsInv
<1>4. CASE OtherClients
  <2> PICK q \in Slots :
        \/ \E key \in {None} \cup (Keys \ keys), c \in Contents : Receive(q, key, c)
        \/ app.slot # q /\ Collect(q)
      BY <1>4 DEF OtherClients
  <2>1. ASSUME NEW key \in {None} \cup (Keys \ keys), NEW c, Receive(q, key, c) PROVE AttemptsInv'
    <3>1. /\ creation[q].stage = "IDLE" /\ creation'[q].key = key /\ UNCHANGED transfer
          /\ \A o \in Slots \ {q} : creation'[o] = creation[o]
        BY <1>0, <2>1, ReceiveKeeps
    <3>2. q # app.slot /\ key \notin keys
        BY <1>0, <1>1, <3>1 DEF keys
    <3> QED
        BY <1>3, <3>1, <3>2
  <2>2. CASE app.slot # q /\ Collect(q)
    <3>1. /\ creation'[q].key = None /\ UNCHANGED transfer
          /\ \A o \in Slots \ {q} : creation'[o] = creation[o]
        BY <1>0, <2>2 DEF Collect, CreationTypes, NoSubmission
    <3> QED
        BY <1>0, <1>3, <2>2, <3>1 DEF keys
  <2> QED
      BY <2>1, <2>2
<1>5. ASSUME NEW q \in Slots, Serve(q) PROVE AttemptsInv'
  <2>1. /\ creation[q].stage \notin {"IDLE", "ANSWERED"}
        /\ creation'[q].stage # "IDLE" /\ creation'[q].key = creation[q].key
        /\ \A o \in Slots \ {q} : creation'[o] = creation[o]
      BY <1>0, <1>5, ServeKeeps
  <2>2. app.stage = "WAITING" =>
           creation'[app.slot].stage # "IDLE" /\ creation'[app.slot].key = app.saved.key
      BY <1>0, <1>1, <2>1
  <2>3. \A o \in Slots : creation'[o].key \in keys => o = app.slot \/ creation'[o].key \in uncertain
      BY <1>1, <2>1
  <2>4. ASSUME NEW t \in Submitted, transfer[t].key \in keys \ uncertain
        PROVE  \/ fate[transfer[t].key] = "REPORTED"
               \/ /\ app.stage = "WAITING" /\ transfer[t].key = app.saved.key
                  /\ creation'[app.slot].stage = "ANSWERED"
                  /\ creation'[app.slot].outcome \in {"CREATED", "FAILED"}
      BY <1>0, <1>1, <2>1, <2>4
  <2>5. CASE UNCHANGED transfer
    <3>1. Submitted' = Submitted
        BY <2>5 DEF Submitted
    <3> QED
        BY <1>0, <2>2, <2>3, <2>4, <2>5, <3>1 DEF AttemptsInv
  <2>6. CASE /\ \E t \in Transfers : Create(q, t)
             /\ creation'[q].stage = "ANSWERED" /\ creation'[q].outcome \in {"CREATED", "FAILED"}
    <3> PICK t \in Transfers : Create(q, t)
        BY <2>6
    <3>1. /\ transfer'[t].key = creation[q].key
          /\ \A u \in Transfers \ {t} : transfer'[u] = transfer[u]
        BY CreateEffect
    <3>2. \A u \in Submitted' \ {t} : u \in Submitted /\ transfer'[u].key = transfer[u].key
        BY <3>1 DEF Submitted
    <3>3. creation[q].key \in keys \ uncertain =>
             q = app.slot /\ app.stage = "WAITING" /\ creation[q].key = app.saved.key
        BY <1>0, <1>1
    <3> QED
        BY <1>0, <2>2, <2>3, <2>4, <2>6, <3>1, <3>2, <3>3 DEF AttemptsInv
  <2> QED
      BY <1>0, <1>5, <2>5, <2>6, ServeKeeps
<1>6. CASE CreationNext
  <2>1. CASE \E t \in Transfers : EndTransfer(t)
    <3> PICK t \in Transfers : EndTransfer(t)
        BY <2>1
    <3>1. \A u \in Transfers : transfer'[u].key = transfer[u].key /\ (u \in Submitted' => u \in Submitted)
        BY <1>0 DEF EndTransfer, CreationTypes, TransferRow, Submitted
    <3> QED
        BY <1>2, <3>1 DEF EndTransfer, Submitted
  <2>2. CASE RecipientNext \/ Pass
      BY <1>2, <2>2 DEF RecipientNext, CreateRecipient, UpdateRecipient, DeleteRecipient, Pass, Submitted
  <2> QED
      BY <1>5, <1>6, <2>1, <2>2 DEF CreationNext
<1>7. CASE UNCHANGED creationVars
    BY <1>2, <1>7 DEF creationVars, Submitted
<1> QED
    BY <1>4, <1>6, <1>7 DEF SubmissionsNext, submissionsVars

\* The logs are right always.
LEMMA AppLogInvariance == SubmissionsSpec => [](AppLogInv /\ AttemptsInv)
<1>1. ASSUME SubmissionsInit PROVE AppLogInv /\ AttemptsInv
  <2>1. /\ app.stage = "IDLE" /\ app.slot = None /\ app.saved.key = None
        /\ fate = [k \in Keys |-> "NONE"] /\ uncertain = {}
      BY <1>1 DEF SubmissionsInit, AppInit, NothingSaved
  <2>2. keys = {} /\ None \notin Keys /\ None \notin Slots
      BY <2>1, NoneAssumption DEF keys
  <2> QED
      BY <2>1, <2>2 DEF AppLogInv, AttemptsInv
<1>2. SubmissionInv /\ AppLogInv /\ AttemptsInv /\ [SubmissionsNext]_submissionsVars
         => (AppLogInv /\ AttemptsInv)'
  <2> SUFFICES ASSUME SubmissionInv, AppLogInv, AttemptsInv, [SubmissionsNext]_submissionsVars
               PROVE  AppLogInv' /\ AttemptsInv'
      OBVIOUS
  <2>1. CASE AppNext
      BY <2>1, AppLogStep, AppAttempts DEF SubmissionInv
  <2>2. CASE ~AppNext
    <3>1. UNCHANGED appVars
        BY <2>2, AppSteps
    <3>2. AppLogInv'
        BY <3>1 DEF appVars, AppLogInv, Pending
    <3> QED
        BY <2>2, <3>1, <3>2, OtherAttempts
  <2> QED
      BY <2>1, <2>2
<1> QED
    BY <1>1, <1>2, SubmissionInvariance, PTL DEF SubmissionsSpec

\* Whatever is lost, retried, refused or restarted, the app was told of every
\* transfer that its keys made or holds the key that finds it; what it may not
\* know is a transfer of a key that it gave up after an attempt without an
\* answer (HawellyViewModel, createTransfer and submissionKeyFor).
THEOREM AppTransfersKnown == SubmissionsSpec => []AppKnowsItsTransfers
<1>1. ASSUME AppLogInv, AttemptsInv, NEW t \in Submitted, transfer[t].key \in keys
      PROVE  \/ transfer[t].key = app.saved.key
             \/ fate[transfer[t].key] = "REPORTED"
             \/ fate[transfer[t].key] \in {"REFUSED", "LEFT"} /\ transfer[t].key \in uncertain
    BY <1>1 DEF AppLogInv, AttemptsInv, keys
<1>2. AppLogInv /\ AttemptsInv => AppKnowsItsTransfers
    BY <1>1 DEF AppKnowsItsTransfers
<1> QED
    BY <1>2, AppLogInvariance, PTL

-----------------------------------------------------------------------------
(* The locks and the limits *)

InProgress(p) == p.stage \in {"READ", "KEYED", "COUNTED"}

HoldsKey(p) == p.stage \in {"KEYED", "COUNTED"}

\* The transfers among the rows, those that a limit counts, and those that
\* SubmissionLimitsKept counts from the transfer u on.
Made(rows) == {t \in Transfers : rows[t].state # "NONE"}
Active(rows) == {t \in Transfers : rows[t].state = "ACTIVE"}
Since(at, rows) == {t \in Made(rows) : rows[t].at >= at - CreateWindow}
Stretch(u, rows) == {t \in Made(rows) : rows[t].at \in rows[u].at .. rows[u].at + CreateWindow}

LimitsHold(rows) ==
    /\ IsFiniteSet(Made(rows))
    /\ Cardinality(Active(rows)) <= MaxActive
    /\ \A u \in Made(rows) : Cardinality(Stretch(u, rows)) <= CreateMax

Unused(key, rows) == \A t \in Made(rows) : rows[t].key # key \/ key = None

\* The limits let one more transfer in, created at the time at.
Room(at, rows) ==
    Cardinality(Active(rows)) < MaxActive /\ Cardinality(Since(at, rows)) < CreateMax

\* What is still true when the transaction of the submission p inserts,
\* because of the locks it holds.
Served(p, rows, now) ==
    /\ InProgress(p) => p.attempt \in 1 .. Attempts /\ p.at <= now
    /\ HoldsKey(p) => Unused(p.key, rows)
    /\ p.stage = "COUNTED" => Room(p.at, rows)

\* What the locks keep apart.
Apart(p, o) ==
    /\ p.stage # "COUNTED" \/ o.stage # "COUNTED"
    /\ HoldsKey(p) /\ HoldsKey(o) => p.key # o.key \/ p.key = None

ServedInv ==
    /\ LimitsHold(transfer)
    /\ \A q \in Slots : Served(creation[q], transfer, instant)
    /\ \A q, o \in Slots : q = o \/ Apart(creation[q], creation[o])

SameData(p, r) == p.key = r.key /\ p.at = r.at /\ p.attempt = r.attempt

\* The row p that a step gives to the submission q, and what the step checked.
\* The last is the commit.
RowMoves(q, p) ==
    LET r == creation[q] IN
    \/ ~InProgress(p) /\ UNCHANGED transfer
    \/ p.stage = "READ" /\ p.attempt \in 1 .. Attempts /\ p.at <= instant /\ UNCHANGED transfer
    \/ /\ r.stage = "READ" /\ KeyFree(q) /\ Unused(r.key, transfer)
       /\ p.stage = "KEYED" /\ SameData(p, r) /\ UNCHANGED transfer
    \/ /\ r.stage = "KEYED" /\ SenderFree /\ Room(r.at, transfer)
       /\ p.stage = "COUNTED" /\ SameData(p, r) /\ UNCHANGED transfer
    \/ (\E t \in Transfers : Create(q, t)) /\ ~InProgress(p)

\* What a step does to the submissions: nothing, though a transfer may end, or
\* one of these to one of them.
CreationMoves ==
    \/ /\ UNCHANGED creation /\ instant <= instant'
       /\ UNCHANGED transfer \/ \E t \in Transfers : EndTransfer(t)
    \/ /\ UNCHANGED instant
       /\ \E q \in Slots, p \in SubmissionRow :
             creation' = [creation EXCEPT ![q] = p] /\ RowMoves(q, p)

\* A key without a stored transfer is unused.
LEMMA StoredIsUsed ==
    ASSUME NEW key, Stored(key) = {}
    PROVE  Unused(key, transfer)
BY DEF Stored, Submitted, Unused, Made

\* A submission that is received is answered or begins.
LEMMA ReceiveMoves ==
    ASSUME CreationTypes, NEW q \in Slots, NEW key \in Keys \cup {None}, NEW c \in Contents,
           Receive(q, key, c), creation' \in [Slots -> SubmissionRow]
    PROVE  CreationMoves
<1> DEFINE p == creation'[q]
<1>1. UNCHANGED <<instant, transfer>> /\ p \in SubmissionRow /\ instant \in Nat
    BY DEF Receive, CreationTypes
<1>2. 1 \in 1 .. Attempts
    BY AttemptsAssumption
<1>3. NoSubmission \in SubmissionRow /\ NoSubmission.attempt = 1
    BY NoSubmissionRow DEF NoSubmission
<1>4. CASE AnswerStored(q, key, c)
  <2>1. p.stage = "ANSWERED" /\ creation' = [creation EXCEPT ![q] = p]
      BY <1>3, <1>4 DEF AnswerStored, CreationTypes, SubmissionRow
  <2> QED
      BY <1>1, <2>1 DEF CreationMoves, RowMoves, InProgress
<1>5. CASE creation' = [creation EXCEPT ![q] =
                          [NoSubmission EXCEPT !.stage = "ANSWERED", !.key = key,
                                               !.content = c, !.outcome = "REFUSED"]]
  <2>1. p.stage = "ANSWERED" /\ creation' = [creation EXCEPT ![q] = p]
      BY <1>3, <1>5 DEF CreationTypes, SubmissionRow
  <2> QED
      BY <1>1, <2>1 DEF CreationMoves, RowMoves, InProgress
<1>6. CASE creation' = [creation EXCEPT ![q] =
                          [NoSubmission EXCEPT
                             !.stage = "READ", !.key = key, !.content = c, !.at = instant,
                             !.snapshot = recipient[c.recipient].address]]
  <2>1. /\ p.stage = "READ" /\ p.at = instant /\ p.attempt = 1
        /\ creation' = [creation EXCEPT ![q] = p]
      BY <1>3, <1>6 DEF CreationTypes, SubmissionRow
  <2> QED
      BY <1>1, <1>2, <2>1 DEF CreationMoves, RowMoves
<1> QED
    BY <1>4, <1>5, <1>6 DEF Receive

\* A submission that is served takes a lock, commits, begins again or is
\* answered.
LEMMA ServeMoves ==
    ASSUME CreationTypes, ServedInv, NEW q \in Slots, Serve(q), creation' \in [Slots -> SubmissionRow]
    PROVE  CreationMoves
<1> DEFINE r == creation[q]
           p == creation'[q]
<1>1. r \in SubmissionRow /\ p \in SubmissionRow /\ creation \in [Slots -> SubmissionRow] /\ UNCHANGED instant
    BY DEF CreationTypes, Serve, LockKey, Count, Create, Retry, Fail
<1>2. ASSUME NEW outcome, NEW t, Answered(q, outcome, t)
      PROVE  p.stage = "ANSWERED" /\ creation' = [creation EXCEPT ![q] = p]
    BY <1>1, <1>2 DEF Answered, SubmissionRow
<1>3. CASE LockKey(q)
  <2>1. CASE AnswerStored(q, r.key, r.content)
    <3>1. p.stage = "ANSWERED" /\ creation' = [creation EXCEPT ![q] = p]
        BY <1>1, <2>1, NoSubmissionRow DEF AnswerStored, SubmissionRow
    <3> QED
        BY <1>1, <1>3, <3>1 DEF CreationMoves, RowMoves, InProgress, LockKey
  <2>2. CASE Stored(r.key) = {} /\ creation' = [creation EXCEPT ![q].stage = "KEYED"]
    <3>1. p.stage = "KEYED" /\ SameData(p, r) /\ creation' = [creation EXCEPT ![q] = p]
        BY <1>1, <2>2 DEF SubmissionRow, SameData
    <3> QED
        BY <1>1, <1>3, <2>2, <3>1, StoredIsUsed DEF CreationMoves, RowMoves, LockKey
  <2> QED
      BY <1>3, <2>1, <2>2 DEF LockKey
<1>4. CASE Count(q)
  <2>1. CASE Room(r.at, transfer) /\ creation' = [creation EXCEPT ![q].stage = "COUNTED"]
    <3>1. p.stage = "COUNTED" /\ SameData(p, r) /\ creation' = [creation EXCEPT ![q] = p]
        BY <1>1, <2>1 DEF SubmissionRow, SameData
    <3> QED
        BY <1>1, <1>4, <2>1, <3>1 DEF CreationMoves, RowMoves, Count
  <2>2. CASE Answered(q, "REFUSED", None)
      BY <1>1, <1>2, <1>4, <2>2 DEF CreationMoves, RowMoves, InProgress, Count
  <2> QED
      BY <1>4, <2>1, <2>2 DEF Count, Room, Active, Since, Made, ActiveTransfers, Recent, Submitted
<1>5. CASE \E t \in Transfers : Create(q, t)
  <2>1. p.stage = "ANSWERED" /\ creation' = [creation EXCEPT ![q] = p]
      BY <1>2, <1>5 DEF Create
  <2> QED
      BY <1>1, <1>5, <2>1 DEF CreationMoves, RowMoves, InProgress
<1>6. CASE Retry(q)
  <2>1. p = [r EXCEPT !.stage = "READ", !.attempt = r.attempt + 1] /\ creation' = [creation EXCEPT ![q] = p]
      BY <1>1, <1>6 DEF Retry
  <2>2. p.stage = "READ" /\ p.at = r.at /\ p.attempt = r.attempt + 1
      BY <1>1, <2>1 DEF SubmissionRow
  <2>3. /\ r.attempt \in 1 .. Attempts /\ r.at <= instant /\ r.attempt < Attempts /\ Attempts \in Nat
        /\ UNCHANGED transfer
      BY <1>6, AttemptsAssumption DEF Retry, ServedInv, Served, InProgress
  <2>4. p.attempt \in 1 .. Attempts /\ p.at <= instant
      BY <2>2, <2>3
  <2> QED
      BY <1>1, <2>1, <2>2, <2>3, <2>4 DEF CreationMoves, RowMoves
<1>7. CASE Fail(q)
    BY <1>1, <1>2, <1>7 DEF CreationMoves, RowMoves, InProgress, Fail
<1> QED
    BY <1>3, <1>4, <1>5, <1>6, <1>7 DEF Serve

\* Every step is one of these.
LEMMA CreationMove ==
    ASSUME SubmissionInv, ServedInv, [SubmissionsNext]_submissionsVars
    PROVE  CreationMoves
<1>0. AppInv /\ CreationTypes /\ creation' \in [Slots -> SubmissionRow] /\ instant \in Nat
    BY SubmissionStep DEF SubmissionInv, CreationTypes
<1>1. CASE UNCHANGED <<recipient, transfer, creation>> /\ instant' \in {instant, instant + 1}
  <2>1. instant <= instant'
      BY <1>0, <1>1
  <2> QED
      BY <1>1, <2>1 DEF CreationMoves
<1>2. CASE RecipientNext
  <2>1. UNCHANGED <<instant, transfer, creation>>
      BY <1>2 DEF RecipientNext, CreateRecipient, UpdateRecipient, DeleteRecipient
  <2>2. instant <= instant'
      BY <1>0, <2>1
  <2> QED
      BY <2>1, <2>2 DEF CreationMoves
<1>3. CASE \E x : /\ creation' = [creation EXCEPT ![x] = NoSubmission]
                  /\ UNCHANGED <<instant, recipient, transfer>>
  <2> PICK x : creation' = [creation EXCEPT ![x] = NoSubmission] /\ UNCHANGED <<instant, recipient, transfer>>
      BY <1>3
  <2>1. CASE x \in Slots
    <3>1. RowMoves(x, NoSubmission)
        BY NoSubmissionRow DEF RowMoves, InProgress
    <3> QED
        BY <2>1, <3>1, NoSubmissionRow DEF CreationMoves
  <2>2. CASE x \notin Slots
      BY <1>0, <2>2 DEF CreationMoves, CreationTypes
  <2> QED
      BY <2>1, <2>2
<1>4. CASE \E q \in Slots, key \in Keys \cup {None}, c \in Contents : Receive(q, key, c)
    BY <1>0, <1>4, ReceiveMoves
<1>5. CASE \E q \in Slots : Serve(q)
    BY <1>0, <1>5, ServeMoves
<1>6. CASE \E t \in Transfers : EndTransfer(t)
  <2>1. UNCHANGED <<instant, creation>>
      BY <1>6 DEF EndTransfer
  <2>2. instant <= instant'
      BY <1>0, <2>1
  <2> QED
      BY <1>6, <2>1, <2>2 DEF CreationMoves
<1> QED
    BY <1>0, <1>1, <1>2, <1>3, <1>4, <1>5, <1>6, StepKinds

\* What lies in a set that has room for one more, and in that one.
LEMMA OneMore ==
    ASSUME NEW A, IsFiniteSet(A), NEW m \in Nat, Cardinality(A) < m, NEW x, NEW S, S \subseteq A \cup {x}
    PROVE  IsFiniteSet(S) /\ Cardinality(S) <= m
<1>1. IsFiniteSet(A \cup {x}) /\ Cardinality(A \cup {x}) <= Cardinality(A) + 1
  <2>1. CASE x \in A
    <3>1. A \cup {x} = A /\ Cardinality(A) \in Nat
        BY <2>1, FS_CardinalityType
    <3> QED
        BY <3>1
  <2>2. CASE x \notin A
    <3>1. IsFiniteSet(A \cup {x}) /\ Cardinality(A \cup {x}) = Cardinality(A) + 1 /\ Cardinality(A) \in Nat
        BY <2>2, FS_AddElement, FS_CardinalityType
    <3> QED
        BY <3>1
  <2> QED
      BY <2>1, <2>2
<1>2. /\ IsFiniteSet(S) /\ Cardinality(S) <= Cardinality(A \cup {x})
      /\ Cardinality(A) \in Nat /\ Cardinality(A \cup {x}) \in Nat /\ Cardinality(S) \in Nat
    BY <1>1, FS_Subset, FS_CardinalityType
<1> QED
    BY <1>1, <1>2

\* A commit keeps the limits: it was counted, and nothing was made since.  In a
\* stretch that the new transfer lies in, the others are recent for it, whether
\* it is the first of the stretch or not.
LEMMA CreateKeepsLimits ==
    ASSUME SubmissionInv, ServedInv, NEW q \in Slots, NEW t \in Transfers, Create(q, t)
    PROVE  LimitsHold(transfer')
<1> DEFINE r == creation[q]
<1>0. {MaxActive, CreateMax, CreateWindow} \subseteq Nat
    BY LimitsAssumption
<1>1. /\ r.at \in Nat /\ \A u \in Transfers : transfer[u].at \in Nat
      /\ transfer \in [Transfers -> TransferRow]
    BY DEF SubmissionInv, CreationTypes, SubmissionRow, TransferRow
<1>2. /\ r.stage = "COUNTED" /\ transfer[t].state = "NONE"
      /\ transfer'[t].state = "ACTIVE" /\ transfer'[t].at = r.at
      /\ \A u \in Transfers \ {t} : transfer'[u] = transfer[u]
    BY <1>1 DEF Create
<1>3. /\ IsFiniteSet(Made(transfer)) /\ Room(r.at, transfer)
      /\ \A u \in Made(transfer) : Cardinality(Stretch(u, transfer)) <= CreateMax
    BY <1>2 DEF ServedInv, LimitsHold, Served
<1> HIDE DEF r
<1>4. /\ Made(transfer') = Made(transfer) \cup {t} /\ t \notin Made(transfer)
      /\ Active(transfer') = Active(transfer) \cup {t}
    BY <1>2 DEF Made, Active
<1>5. /\ IsFiniteSet(Active(transfer)) /\ IsFiniteSet(Since(r.at, transfer))
      /\ Cardinality(Active(transfer)) < MaxActive
      /\ Cardinality(Since(r.at, transfer)) < CreateMax
    BY <1>3, FS_Subset DEF Active, Since, Made, Room
<1>6. IsFiniteSet(Made(transfer'))
    BY <1>3, <1>4, FS_AddElement
<1>7. Cardinality(Active(transfer')) <= MaxActive
    BY <1>0, <1>4, <1>5, OneMore
<1>8. ASSUME NEW u \in Made(transfer') PROVE Cardinality(Stretch(u, transfer')) <= CreateMax
  <2>1. CASE t \in Stretch(u, transfer')
    <3>1. transfer'[u].at \in Nat /\ transfer'[u].at <= r.at /\ r.at <= transfer'[u].at + CreateWindow
        BY <1>0, <1>1, <1>2, <2>1 DEF Stretch, Made
    <3>2. transfer'[u].at >= r.at - CreateWindow
        BY <1>0, <1>1, <3>1
    <3>3. ASSUME NEW x \in Stretch(u, transfer'), x # t PROVE x \in Since(r.at, transfer)
      <4>1. x \in Made(transfer) /\ transfer'[x] = transfer[x] /\ transfer[x].at \in Nat
          BY <1>1, <1>2, <1>4, <3>3 DEF Stretch, Made
      <4>2. transfer[x].at >= transfer'[u].at
          BY <1>0, <3>1, <3>3, <4>1 DEF Stretch
      <4>3. transfer[x].at >= r.at - CreateWindow
          BY <1>0, <1>1, <3>1, <3>2, <4>1, <4>2
      <4> QED
          BY <4>1, <4>3 DEF Since
    <3>4. Stretch(u, transfer') \subseteq Since(r.at, transfer) \cup {t}
        BY <3>3
    <3> QED
        BY <1>0, <1>5, <3>4, OneMore
  <2>2. CASE t \notin Stretch(u, transfer')
    <3>1. u # t
        BY <1>0, <1>1, <1>2, <2>2 DEF Stretch, Made
    <3>2. u \in Made(transfer) /\ transfer'[u] = transfer[u]
        BY <1>2, <1>4, <3>1 DEF Made
    <3>3. Stretch(u, transfer') = Stretch(u, transfer)
        BY <1>2, <1>4, <2>2, <3>2 DEF Stretch, Made
    <3> QED
        BY <1>3, <3>2, <3>3
  <2> QED
      BY <2>1, <2>2
<1> QED
    BY <1>6, <1>7, <1>8 DEF LimitsHold

\* Transfers that end take no room, and let nobody's key go.
LEMMA EndingKeeps ==
    ASSUME SubmissionInv, ServedInv, NEW t \in Transfers, EndTransfer(t)
    PROVE  /\ LimitsHold(transfer')
           /\ \A key : Unused(key, transfer) => Unused(key, transfer')
           /\ \A at : Room(at, transfer) => Room(at, transfer')
<1>1. /\ \A u \in Transfers : /\ transfer'[u].state # "NONE" <=> transfer[u].state # "NONE"
                              /\ transfer'[u].state = "ACTIVE" => transfer[u].state = "ACTIVE"
                              /\ transfer'[u].key = transfer[u].key /\ transfer'[u].at = transfer[u].at
  <2>1. /\ transfer \in [Transfers -> TransferRow] /\ transfer[t].state = "ACTIVE"
        /\ transfer' = [transfer EXCEPT ![t].state = "ENDED"]
      BY DEF SubmissionInv, CreationTypes, EndTransfer
  <2> QED
      BY <2>1 DEF TransferRow
<1>2. /\ Made(transfer') = Made(transfer) /\ Active(transfer') \subseteq Active(transfer)
      /\ \A at : Since(at, transfer') = Since(at, transfer)
      /\ \A u \in Made(transfer) : Stretch(u, transfer') = Stretch(u, transfer)
    BY <1>1 DEF Made, Active, Since, Stretch
<1>3. LimitsHold(transfer) /\ MaxActive \in Nat
    BY LimitsAssumption DEF ServedInv
<1>4. IsFiniteSet(Active(transfer))
    BY <1>3, FS_Subset DEF LimitsHold, Made, Active
<1>5. /\ Cardinality(Active(transfer')) <= Cardinality(Active(transfer))
      /\ Cardinality(Active(transfer)) \in Nat /\ Cardinality(Active(transfer')) \in Nat
    BY <1>2, <1>4, FS_Subset, FS_CardinalityType
<1>6. LimitsHold(transfer')
  <2>1. Cardinality(Active(transfer')) <= MaxActive
      BY <1>3, <1>5 DEF LimitsHold
  <2> QED
      BY <1>2, <1>3, <2>1 DEF LimitsHold
<1>7. \A at : Room(at, transfer) => Room(at, transfer')
  <2>1. Cardinality(Active(transfer)) < MaxActive => Cardinality(Active(transfer')) < MaxActive
      BY <1>3, <1>5
  <2> QED
      BY <1>2, <2>1 DEF Room
<1>8. \A key : Unused(key, transfer) => Unused(key, transfer')
    BY <1>1, <1>2 DEF Unused, Made
<1> QED
    BY <1>6, <1>7, <1>8

\* Every step keeps what the locks protect.
LEMMA ServedStep ==
    ASSUME SubmissionInv, ServedInv, [SubmissionsNext]_submissionsVars
    PROVE  ServedInv'
<1>0. /\ creation \in [Slots -> SubmissionRow] /\ instant \in Nat /\ instant' \in Nat
      /\ \A q \in Slots : creation[q].at \in Nat
    BY SubmissionStep DEF SubmissionInv, CreationTypes, SubmissionRow
<1>1. /\ LimitsHold(transfer)
      /\ \A q \in Slots : Served(creation[q], transfer, instant)
      /\ \A q, o \in Slots : q = o \/ Apart(creation[q], creation[o])
    BY DEF ServedInv
<1>2. CASE /\ UNCHANGED creation /\ instant <= instant'
           /\ UNCHANGED transfer \/ \E t \in Transfers : EndTransfer(t)
  <2>1. /\ LimitsHold(transfer')
        /\ \A key : Unused(key, transfer) => Unused(key, transfer')
        /\ \A at : Room(at, transfer) => Room(at, transfer')
    <3>1. CASE UNCHANGED transfer
        BY <1>1, <3>1
    <3>2. CASE \E t \in Transfers : EndTransfer(t)
        BY <3>2, EndingKeeps
    <3> QED
        BY <1>2, <3>1, <3>2
  <2>2. ASSUME NEW q \in Slots PROVE Served(creation'[q], transfer', instant')
    <3>1. creation'[q] = creation[q] /\ Served(creation[q], transfer, instant)
        BY <1>1, <1>2
    <3>2. creation[q].at <= instant => creation[q].at <= instant'
        BY <1>0, <1>2
    <3> QED
        BY <2>1, <3>1, <3>2 DEF Served
  <2> QED
      BY <1>1, <1>2, <2>1, <2>2 DEF ServedInv
<1>3. ASSUME NEW q \in Slots, NEW p \in SubmissionRow, UNCHANGED instant,
             creation' = [creation EXCEPT ![q] = p],
             LimitsHold(transfer'),
             Served(p, transfer', instant),
             \A o \in Slots \ {q} : Served(creation[o], transfer', instant) /\ Apart(p, creation[o])
      PROVE  ServedInv'
  <2>1. creation'[q] = p /\ \A o \in Slots \ {q} : creation'[o] = creation[o]
      BY <1>0, <1>3
  <2>2. \A o \in Slots \ {q} : Apart(creation[o], p)
      BY <1>3 DEF Apart
  <2>3. \A o \in Slots : Served(creation'[o], transfer', instant')
      BY <1>3, <2>1
  <2>4. \A x, o \in Slots : x = o \/ Apart(creation'[x], creation'[o])
      BY <1>1, <1>3, <2>1, <2>2
  <2> QED
      BY <1>3, <2>3, <2>4 DEF ServedInv
<1>4. ASSUME NEW q \in Slots, NEW p \in SubmissionRow, UNCHANGED instant,
             creation' = [creation EXCEPT ![q] = p], RowMoves(q, p)
      PROVE  ServedInv'
  <2> DEFINE r == creation[q]
  <2>0. Served(r, transfer, instant)
      BY <1>1
  <2>1. CASE ~InProgress(p) /\ UNCHANGED transfer
    <3>1. Served(p, transfer', instant) /\ \A o \in Slots : Apart(p, creation[o])
        BY <2>1 DEF Served, Apart, InProgress, HoldsKey
    <3> QED
        BY <1>1, <1>3, <1>4, <2>1, <3>1
  <2>2. CASE p.stage = "READ" /\ p.attempt \in 1 .. Attempts /\ p.at <= instant /\ UNCHANGED transfer
    <3>1. Served(p, transfer', instant) /\ \A o \in Slots : Apart(p, creation[o])
        BY <2>2 DEF Served, Apart, InProgress, HoldsKey
    <3> QED
        BY <1>1, <1>3, <1>4, <2>2, <3>1
  <2>3. CASE /\ r.stage = "READ" /\ KeyFree(q) /\ Unused(r.key, transfer)
             /\ p.stage = "KEYED" /\ SameData(p, r) /\ UNCHANGED transfer
    <3>1. Served(p, transfer', instant)
        BY <2>0, <2>3 DEF Served, InProgress, HoldsKey, SameData
    <3>2. \A o \in Slots \ {q} : Apart(p, creation[o])
        BY <2>3 DEF Apart, HoldsKey, KeyFree, SameData
    <3> QED
        BY <1>1, <1>3, <1>4, <2>3, <3>1, <3>2
  <2>4. CASE /\ r.stage = "KEYED" /\ SenderFree /\ Room(r.at, transfer)
             /\ p.stage = "COUNTED" /\ SameData(p, r) /\ UNCHANGED transfer
    <3>1. Served(p, transfer', instant)
        BY <2>0, <2>4 DEF Served, InProgress, HoldsKey, SameData
    <3>2. ASSUME NEW o \in Slots \ {q} PROVE Apart(p, creation[o])
      <4>1. Apart(r, creation[o]) /\ creation[o].stage # "COUNTED"
          BY <1>1, <2>4 DEF SenderFree
      <4> QED
          BY <2>4, <4>1 DEF Apart, HoldsKey, SameData
    <3> QED
        BY <1>1, <1>3, <1>4, <2>4, <3>1, <3>2
  <2>5. CASE (\E t \in Transfers : Create(q, t)) /\ ~InProgress(p)
    <3> PICK t \in Transfers : Create(q, t)
        BY <2>5
    <3>1. r.stage = "COUNTED" /\ transfer'[t].key = r.key
        /\ \A u \in Transfers \ {t} : transfer'[u] = transfer[u]
        BY CreateEffect DEF Create
    <3>2. ASSUME NEW o \in Slots \ {q} PROVE Served(creation[o], transfer', instant)
      <4>1. Served(creation[o], transfer, instant) /\ Apart(r, creation[o])
          BY <1>1
      <4>2. creation[o].stage # "COUNTED"
          BY <3>1, <4>1 DEF Apart
      <4>3. HoldsKey(creation[o]) => r.key # creation[o].key \/ creation[o].key = None
          BY <3>1, <4>1 DEF Apart, HoldsKey
      <4>4. HoldsKey(creation[o]) => Unused(creation[o].key, transfer')
          BY <3>1, <4>1, <4>3 DEF Served, Unused, Made
      <4> QED
          BY <4>1, <4>2, <4>4 DEF Served
    <3>3. Served(p, transfer', instant) /\ \A o \in Slots : Apart(p, creation[o])
        BY <2>5 DEF Served, Apart, InProgress, HoldsKey
    <3> QED
        BY <1>3, <1>4, <3>2, <3>3, CreateKeepsLimits
  <2> QED
      BY <1>4, <2>1, <2>2, <2>3, <2>4, <2>5 DEF RowMoves
<1> QED
    BY <1>2, <1>4, CreationMove DEF CreationMoves

\* Nothing is made and nothing is served at the start.
LEMMA ServedStart == SubmissionsInit => ServedInv
<1> SUFFICES ASSUME SubmissionsInit PROVE ServedInv
    OBVIOUS
<1>1. /\ transfer = [t \in Transfers |-> NoTransfer] /\ NoTransfer.state = "NONE"
      /\ \A q \in Slots : creation[q].stage = "IDLE"
    BY NoSubmissionRow DEF SubmissionsInit, CreationInit, NoTransfer
<1>2. Made(transfer) = {} /\ Active(transfer) = {}
    BY <1>1 DEF Made, Active
<1>3. IsFiniteSet({}) /\ Cardinality({}) = 0 /\ MaxActive \in Nat
    BY FS_EmptySet, LimitsAssumption
<1>4. LimitsHold(transfer)
    BY <1>2, <1>3 DEF LimitsHold
<1> QED
    BY <1>1, <1>4 DEF ServedInv, Served, Apart, InProgress, HoldsKey

\* What the locks protect holds always.
LEMMA ServedInvariance == SubmissionsSpec => []ServedInv
<1>1. SubmissionInv /\ ServedInv /\ [SubmissionsNext]_submissionsVars => ServedInv'
    BY ServedStep
<1> QED
    BY <1>1, ServedStart, SubmissionInvariance, PTL DEF SubmissionsSpec

\* However submissions overlap, no stretch of time as long as the window has
\* more transfers than the limit, and no more of them are active than allowed
\* (transfers/service.ts): createdAt is older than the lock under which the
\* others are counted, and the count has no end.
THEOREM LimitsCorrect == SubmissionsSpec => []SubmissionLimitsKept
<1>1. ServedInv => SubmissionLimitsKept
    BY DEF ServedInv, LimitsHold, Made, Active, Stretch, SubmissionLimitsKept, Submitted, ActiveTransfers
<1> QED
    BY <1>1, ServedInvariance, PTL

\* A submission that holds its key's lock finds the key unused, has attempts
\* left and a time that has come; the app waits where it says, on a page of its
\* sender, and the key it holds is the one that it saved.
THEOREM SubmissionsTyped == SubmissionsSpec => []SubmissionsTypeOK
<1>1. ASSUME SubmissionInv, ServedInv, AppLogInv PROVE SubmissionsTypeOK
  <2>1. app.session \in {"NONE", "FRESH", "EXPIRED"} /\ (app.stage # "IDLE" => app.page = "PAGES")
      BY <1>1 DEF SubmissionInv, AppInv, AppRow
  <2>2. \A q \in Slots : creation[q].stage \in {"READ", "KEYED", "COUNTED"} =>
           /\ Stored(creation[q].key) = {} \/ creation[q].stage = "READ"
           /\ creation[q].attempt \in 1 .. Attempts
           /\ creation[q].at <= instant
    <3>1. \A key : Unused(key, transfer) => Stored(key) = {}
        BY DEF Unused, Made, Stored, Submitted
    <3> QED
        BY <1>1, <3>1 DEF ServedInv, Served, InProgress, HoldsKey
  <2> QED
      BY <1>1, <2>1, <2>2 DEF SubmissionsTypeOK, AppLogInv
<1> QED
    BY <1>1, SubmissionInvariance, ServedInvariance, AppLogInvariance, PTL

-----------------------------------------------------------------------------
(* The ledger *)

\* What RequestLedger sees of the rows.
LEMMA Mapping ==
    /\ \A t \in Transfers :
          /\ entered[t].state = transfer[t].state /\ entered[t].key = transfer[t].key
          /\ entered[t].content = transfer[t].content /\ entered[t].at = transfer[t].at
          /\ entered'[t].state = transfer'[t].state /\ entered'[t].key = transfer'[t].key
          /\ entered'[t].content = transfer'[t].content /\ entered'[t].at = transfer'[t].at
    /\ Ledger!Entered = Made(transfer)
    /\ {x \in Ledger!Entered : entered[x].state = "ACTIVE"} = Active(transfer)
    /\ \A at : {x \in Ledger!Entered : entered[x].at >= at - CreateWindow} = Since(at, transfer)
<1>1. \A t \in Transfers :
          /\ entered[t].state = transfer[t].state /\ entered[t].key = transfer[t].key
          /\ entered[t].content = transfer[t].content /\ entered[t].at = transfer[t].at
          /\ entered'[t].state = transfer'[t].state /\ entered'[t].key = transfer'[t].key
          /\ entered'[t].content = transfer'[t].content /\ entered'[t].at = transfer'[t].at
    BY DEF entered
<1>2. Ledger!Entered = Made(transfer)
    BY <1>1 DEF Ledger!Entered, Made
<1> QED
    BY <1>1, <1>2 DEF Made, Active, Since

\* RequestLedger counts as TransferCreation does.
LEMMA SameCardinality == \A S : Ledger!Cardinality(S) = Cardinality(S)
BY DEF Cardinality, Ledger!Cardinality

\* A commit enters its request, within the limits and under an unused key.
LEMMA CreateEnters ==
    ASSUME SubmissionInv, ServedInv, NEW q \in Slots, NEW t \in Transfers, Create(q, t)
    PROVE  Ledger!Enter(t)
<1> DEFINE p == creation[q]
           r == entered'[t]
<1>1. /\ p \in SubmissionRow /\ transfer \in [Transfers -> TransferRow]
      /\ p.stage = "COUNTED" /\ Unused(p.key, transfer) /\ Room(p.at, transfer)
    BY DEF Create, SubmissionInv, CreationTypes, ServedInv, Served, HoldsKey
<1>2. /\ transfer[t].state = "NONE" /\ transfer'[t].state = "ACTIVE" /\ transfer'[t].at = p.at
      /\ transfer'[t].key = p.key /\ transfer'[t].content = p.content /\ p.content \in Contents
      /\ \A u \in Transfers \ {t} : transfer'[u] = transfer[u]
    BY <1>1, CreateEffect DEF Create
<1>3. r = [state |-> "ACTIVE", key |-> p.key, content |-> p.content, at |-> p.at]
    BY <1>2 DEF entered
<1>4. p.key \in Keys \cup {None} /\ p.at \in Nat
    BY <1>1 DEF SubmissionRow
<1> HIDE DEF p
<1>5. /\ r \in [state : {"ACTIVE"}, key : Keys \cup {None}, content : Contents, at : Nat]
      /\ r.key = p.key /\ r.at = p.at
    BY <1>2, <1>3, <1>4
<1>6. entered' = [entered EXCEPT ![t] = r]
    BY <1>2 DEF entered
<1>7. entered[t].state = "NONE"
    BY <1>2, Mapping
<1>8. \A x \in Ledger!Entered : entered[x].key # r.key \/ r.key = None
    BY <1>1, <1>5, Mapping DEF Unused, Made
<1> HIDE DEF r
<1>9. /\ Cardinality({x \in Ledger!Entered : entered[x].state = "ACTIVE"}) < MaxActive
      /\ Cardinality({x \in Ledger!Entered : entered[x].at >= r.at - CreateWindow}) < CreateMax
    BY <1>1, <1>5, Mapping DEF Room
<1>10. /\ Ledger!Cardinality({x \in Ledger!Entered : entered[x].state = "ACTIVE"}) < MaxActive
       /\ Ledger!Cardinality({x \in Ledger!Entered : entered[x].at >= r.at - CreateWindow}) < CreateMax
    BY <1>9, SameCardinality
<1> QED
    BY <1>5, <1>6, <1>7, <1>8, <1>10 DEF Ledger!Enter, r

\* The transfer that comes to its end is closed.
LEMMA EndCloses ==
    ASSUME SubmissionInv, NEW t \in Transfers, EndTransfer(t)
    PROVE  Ledger!Close(t)
<1>1. /\ transfer \in [Transfers -> TransferRow] /\ transfer[t].state = "ACTIVE"
      /\ transfer' = [transfer EXCEPT ![t].state = "ENDED"]
    BY DEF SubmissionInv, CreationTypes, EndTransfer
<1>2. /\ transfer'[t].state = "ENDED" /\ transfer'[t].key = transfer[t].key
      /\ transfer'[t].content = transfer[t].content /\ transfer'[t].at = transfer[t].at
      /\ \A u \in Transfers \ {t} : transfer'[u] = transfer[u]
    BY <1>1 DEF TransferRow
<1>3. entered'[t] = [entered[t] EXCEPT !.state = "ENDED"]
    BY <1>2 DEF entered
<1>4. entered' = [entered EXCEPT ![t].state = "ENDED"]
    BY <1>2, <1>3 DEF entered
<1> QED
    BY <1>1, <1>4, Mapping DEF Ledger!Close

\* Every step maps to a step of the ledger or to a stutter.
LEMMA LedgerStep ==
    ASSUME SubmissionInv, ServedInv, [SubmissionsNext]_submissionsVars
    PROVE  Ledger!Next
<1>1. ASSUME NEW m \in reported'
      PROVE  \E e \in Transfers :
                /\ m = [entry |-> e, key |-> entered'[e].key, content |-> entered'[e].content]
                /\ entered'[e].state # "NONE"
  <2>1. PICK q \in Slots :
          /\ creation'[q].outcome = "CREATED"
          /\ m = [entry |-> creation'[q].transfer, key |-> creation'[q].key, content |-> creation'[q].content]
      BY <1>1 DEF reported
  <2>2. Truthful(creation'[q], transfer')
      BY SubmissionStep DEF SubmissionInv
  <2> QED
      BY <2>1, <2>2, Mapping DEF Truthful
<1>2. Ledger!Report
    BY <1>1 DEF Ledger!Report
<1>3. UNCHANGED entered \/ \E t \in Transfers : Ledger!Enter(t) \/ Ledger!Close(t)
  <2>1. CASE UNCHANGED transfer
      BY <2>1 DEF entered
  <2>2. CASE \E t \in Transfers : EndTransfer(t)
      BY <2>2, EndCloses
  <2>3. CASE \E q \in Slots, t \in Transfers : Create(q, t)
      BY <2>3, CreateEnters
  <2> QED
      BY <2>1, <2>2, <2>3, CreationMove DEF CreationMoves, RowMoves
<1> QED
    BY <1>2, <1>3 DEF Ledger!Next

\* The initial states map to initial states.
LEMMA LedgerStart == SubmissionsInit => Ledger!Init
<1> SUFFICES ASSUME SubmissionsInit PROVE Ledger!Init
    OBVIOUS
<1>1. transfer = [t \in Transfers |-> NoTransfer] /\ \A q \in Slots : creation[q].outcome = "NONE"
    BY NoSubmissionRow DEF SubmissionsInit, CreationInit
<1>2. entered = [t \in Transfers |-> Ledger!Blank]
    BY <1>1 DEF entered, Ledger!Blank, NoTransfer
<1>3. reported = {}
    BY <1>1 DEF reported
<1> QED
    BY <1>2, <1>3 DEF Ledger!Init

\* createTransfer checks before its transaction, takes two locks one after the
\* other, counts, tries again and loses answers, and administrators and other
\* requests go on in between: it is a ledger in which each submission is one
\* step (transfers/service.ts).
THEOREM SubmissionsImplementLedger == SubmissionsSpec => ImplementsLedger
<1>1. SubmissionInv /\ ServedInv /\ [SubmissionsNext]_submissionsVars => [Ledger!Next]_Ledger!vars
    BY LedgerStep
<1> QED
    BY <1>1, LedgerStart, SubmissionInvariance, ServedInvariance, PTL
       DEF SubmissionsSpec, ImplementsLedger, Ledger!Spec
=============================================================================
