---------------------------- MODULE AuthSessions ----------------------------
(***************************************************************************)
(* The sessions of auth/service.ts and the account changes of              *)
(* admin/service.ts that end them.  A request that the API serves is       *)
(* followed from what it reads first to its commit: refresh reads the      *)
(* session before its transaction, revokeFamilyForReplay revokes the       *)
(* sessions that its UPDATE finds when it starts, and logoutAll and        *)
(* changePassword are Serializable transactions, which fail when a row     *)
(* they write was changed after their snapshot.                            *)
(*                                                                         *)
(* The secret in a refresh token is matched by hash, so a token is its     *)
(* session.  A family is named after its first session.  What the rate     *)
(* limiter decides is in RateLimit: here a request that it blocks, or that *)
(* brings a wrong password, leaves no trace.                               *)
(***************************************************************************)
EXTENDS Integers, FiniteSets

CONSTANTS
    Users,        \* accounts
    Sessions,     \* AuthSession rows, by UUID
    Requests,     \* requests the API serves at once
    RefreshTtl,   \* AUTH_REFRESH_TTL_SECONDS
    AbsoluteTtl,  \* AUTH_SESSION_ABSOLUTE_TTL_SECONDS
    MaxTime,      \* bound on the clock
    MaxVersion    \* bound on User.sessionVersion

ASSUME NamesAssumption == "NONE" \notin Users \cup Sessions
ASSUME TtlAssumption == RefreshTtl \in Nat /\ AbsoluteTtl \in Nat
ASSUME BoundsAssumption == MaxTime \in Nat /\ MaxVersion \in Nat

VARIABLES
    clock,
    account,  \* the User row: its role, its status, with
              \* StaffProfile.operationalStatus folded in, its sessionVersion,
              \* which password it has, and one capability of a staff account
    session,  \* the AuthSession rows
    request   \* what each request has read and has yet to write

vars == <<clock, account, session, request>>

-----------------------------------------------------------------------------

\* "LIVE" is revokedAt IS NULL.  Of the revocation reasons only ROTATED is told
\* apart by the code: a token of such a session is a replay.  signed is the
\* session version in the access token that came with the session, and password
\* the password its family was opened with.
SessionStatus == {"UNUSED", "LIVE", "ROTATED", "REVOKED"}

Unused == [status |-> "UNUSED", user |-> "NONE", family |-> "NONE",
           expires |-> 0, ends |-> 0, signed |-> 0, password |-> 0, replay |-> "NO"]

StaffOps == {"ACTIVATE", "DEACTIVATE", "GRANT", "REVOKE"}

SerializableOps == {"LOGOUT_ALL", "CHANGE_PASSWORD"}

\* READ: the request holds what it read before its transaction; OPEN: its
\* transaction has its snapshot, in seen, and has yet to commit.
Idle == [op |-> "NONE", stage |-> "IDLE", user |-> "NONE", token |-> "NONE",
         now |-> 0, version |-> 0, password |-> 0, seen |-> {}, stale |-> FALSE]

Init ==
    /\ clock = 0
    /\ account = [u \in Users |->
                    [role |-> "SENDER", status |-> "ABSENT", version |-> 0,
                     password |-> 0, granted |-> FALSE]]
    /\ session = [s \in Sessions |-> Unused]
    /\ request = [r \in Requests |-> Idle]

Live(s) == session[s].status = "LIVE"

LiveOf(u) == {s \in Sessions : Live(s) /\ session[s].user = u}

LiveIn(f) == {s \in Sessions : Live(s) /\ session[s].family = f}

Active(u) == account[u].status = "ACTIVE"

Earlier(a, b) == IF a < b THEN a ELSE b

Unexpired(s, now) == session[s].expires > now /\ session[s].ends > now

At(r, ops, stage) == request[r].op \in ops /\ request[r].stage = stage

\* A mistake the properties must catch: lockStaff takes no row lock.
NeverLocked(u) == FALSE

\* lockStaff holds the User row FOR UPDATE, which the foreign key of a new
\* session and every update of the row wait for.
Locked(u) == \E r \in Requests : request[r].op \in StaffOps /\ request[r].user = u

\* login holds the advisory lock on the account's rate-limit key while it
\* verifies the password; changePassword takes the same lock to commit.
Verifying(u) == \E r \in Requests : request[r].op = "LOGIN" /\ request[r].user = u

\* The row of a new session.
Issued(u, f, now, ends, signed, password) ==
    [status |-> "LIVE", user |-> u, family |-> f,
     expires |-> Earlier(now + RefreshTtl, ends), ends |-> ends,
     signed |-> signed, password |-> password, replay |-> "NO"]

Revoked(S) ==
    [s \in Sessions |-> IF s \in S THEN [session[s] EXCEPT !.status = "REVOKED"] ELSE session[s]]

\* The snapshot of a Serializable transaction is overtaken by the commit of
\* another that wrote the User row or one of the session rows it will write.
Overtakes(q, users, rows) ==
    /\ At(q, SerializableOps, "OPEN")
    /\ request[q].user \in users \/ request[q].seen \cap rows # {}

\* A transaction that wrote these rows of User and AuthSession commits; in the
\* second form it is request r's.
Overtaken(users, rows) ==
    [q \in Requests |->
        IF Overtakes(q, users, rows) THEN [request[q] EXCEPT !.stale = TRUE] ELSE request[q]]

Commits(r, users, rows) == request' = [Overtaken(users, rows) EXCEPT ![r] = Idle]

-----------------------------------------------------------------------------
(* Registration and login *)

\* registerSender, and createStaff of an administrator: the second creates the
\* account only.  A used e-mail address is refused by its unique index.
RegisterSender(u, s) ==
    /\ account[u].status = "ABSENT"
    /\ session[s].status = "UNUSED"
    /\ account' = [account EXCEPT ![u].status = "ACTIVE"]
    /\ session' = [session EXCEPT ![s] =
                     Issued(u, s, clock, clock + AbsoluteTtl, account[u].version, account[u].password)]
    /\ UNCHANGED <<clock, request>>

CreateStaff(u, granted) ==
    /\ account[u].status = "ABSENT"
    /\ account' = [account EXCEPT ![u].role = "STAFF", ![u].status = "ACTIVE", ![u].granted = granted]
    /\ UNCHANGED <<clock, session, request>>

\* The limiter's locks are taken, the user is read and the password matches.
LoginRead(r, u) ==
    /\ request[r] = Idle
    /\ Active(u) /\ ~Verifying(u)
    /\ request' = [request EXCEPT ![r] =
                     [Idle EXCEPT !.op = "LOGIN", !.stage = "READ", !.user = u, !.now = clock,
                                  !.version = account[u].version, !.password = account[u].password]]
    /\ UNCHANGED <<clock, account, session>>

\* A mistake the properties must catch: lastLoginAt is no longer recorded.
LoginWritesNothing(r) == {}

\* lastLoginAt is written to the User row: it is what a concurrent
\* changePassword conflicts with.
LoginWritesUser(r) == {request[r].user}

LoginCommit(r, s) ==
    LET q == request[r] IN
    /\ At(r, {"LOGIN"}, "READ")
    /\ session[s].status = "UNUSED" /\ ~Locked(q.user)
    /\ session' = [session EXCEPT ![s] =
                     Issued(q.user, s, q.now, q.now + AbsoluteTtl, q.version, q.password)]
    /\ Commits(r, LoginWritesUser(r), {})
    /\ UNCHANGED <<clock, account>>

-----------------------------------------------------------------------------
(* Refresh *)

Present(r, op, s) ==
    request' = [request EXCEPT ![r] =
                  [Idle EXCEPT !.op = op, !.stage = "READ", !.user = session[s].user, !.token = s,
                               !.now = clock, !.version = account[session[s].user].version]]

\* The read before the transaction: a session that cannot be used is refused,
\* and one that was rotated is a replay.
RefreshRead(r, s) ==
    /\ request[r] = Idle
    /\ \/ /\ Live(s) /\ Unexpired(s, clock) /\ Active(session[s].user)
          /\ Present(r, "REFRESH", s)
       \/ /\ session[s].status = "ROTATED"
          /\ Present(r, "REPLAY", s)
    /\ UNCHANGED <<clock, account, session>>

\* A mistake the properties must catch: revokedAt is not in the condition.
ConsumableAgain(s, now) == session[s].status \in {"LIVE", "ROTATED"} /\ Unexpired(s, now)

\* The condition of the UPDATE that consumes the token.
Consumable(s, now) == Live(s) /\ Unexpired(s, now)

\* A mistake the properties must catch: each rotation starts a new lifetime.
RenewedEnd(r) == request[r].now + AbsoluteTtl

\* The absolute expiry that the new session gets from the one it replaces.
InheritedEnd(r) == session[request[r].token].ends

Rotate(r, t) ==
    LET q == request[r]
        s == q.token
    IN
    /\ At(r, {"REFRESH"}, "READ")
    /\ Consumable(s, q.now)
    /\ session[t].status = "UNUSED" /\ ~Locked(q.user)
    /\ session' = [session EXCEPT
                     ![s].status = "ROTATED",
                     ![t] = Issued(q.user, session[s].family, q.now, InheritedEnd(r),
                                   q.version, session[s].password)]
    /\ Commits(r, {}, {s})
    /\ UNCHANGED <<clock, account>>

\* The token was consumed or revoked meanwhile, or the transaction lost to a
\* concurrent one on the account (P2034).
RefreshLoses(r) ==
    LET q == request[r] IN
    /\ At(r, {"REFRESH"}, "READ")
    /\ \/ ~Consumable(q.token, q.now)
       \/ \E o \in Requests \ {r} : request[o].user = q.user
    /\ request' = [request EXCEPT ![r].op = "REPLAY"]
    /\ UNCHANGED <<clock, account, session>>

\* A mistake the properties must catch: every submission is claimed.
UnclaimedNow(s) == session[s].replay # "CLAIMED"

\* replayDetectedAt is still null: this request claims the replay.
Unclaimed(s) == session[s].replay = "NO"

\* A claim under way makes the next one wait.  The sweep that follows the claim
\* finds the sessions live at its start.
ReplayClaim(r) ==
    LET s == request[r].token IN
    /\ At(r, {"REPLAY"}, "READ")
    /\ \/ /\ session[s].status = "ROTATED" /\ Unclaimed(s)
          /\ session' = [session EXCEPT ![s].replay = "CLAIMED"]
          /\ request' = [request EXCEPT ![r].stage = "OPEN", ![r].seen = LiveIn(session[s].family)]
       \/ /\ session[s].status # "ROTATED" \/ session[s].replay = "DONE"
          /\ request' = [request EXCEPT ![r] = Idle]
          /\ UNCHANGED session
    /\ UNCHANGED <<clock, account>>

\* The rows found are revoked where they are still live.
ReplayCommit(r) ==
    LET q == request[r]
        S == {s \in q.seen : Live(s)}
    IN
    /\ At(r, {"REPLAY"}, "OPEN")
    /\ ~Locked(q.user) /\ account[q.user].version < MaxVersion
    /\ session' = [Revoked(S) EXCEPT ![q.token].replay = "DONE"]
    /\ account' = [account EXCEPT ![q.user].version = @ + 1]
    /\ Commits(r, {q.user}, S)
    /\ UNCHANGED clock

-----------------------------------------------------------------------------
(* Logout, of one session and of all *)

\* logout finds the session live and revokes it where it still is: between the
\* two only another end of the session can come, and then nothing is written.
Logout(s) ==
    /\ Live(s)
    /\ session' = Revoked({s})
    /\ request' = Overtaken({}, {s})
    /\ UNCHANGED <<clock, account>>

\* A mistake the properties must catch: the session version is not compared.
AuthenticatesAnyVersion(s) == Live(s) /\ Unexpired(s, clock) /\ Active(session[s].user)

\* authenticate accepts the access token that came with session s.
Authenticates(s) ==
    /\ Live(s) /\ Unexpired(s, clock)
    /\ Active(session[s].user)
    /\ session[s].signed = account[session[s].user].version

\* A request with an access token; changePassword reads the password hash here
\* and later finds that currentPassword matches it.
Authenticate(r, op, s) ==
    LET u == session[s].user IN
    /\ request[r] = Idle
    /\ op \in SerializableOps
    /\ Authenticates(s)
    /\ request' = [request EXCEPT ![r] =
                     [Idle EXCEPT !.op = op, !.stage = "READ", !.user = u, !.token = s,
                                  !.password = account[u].password]]
    /\ UNCHANGED <<clock, account, session>>

\* The Serializable transaction takes its snapshot; changePassword then waits
\* for the limiter's lock.
OpenRevocation(r) ==
    /\ At(r, SerializableOps, "READ")
    /\ request' = [request EXCEPT ![r].stage = "OPEN", ![r].seen = LiveOf(request[r].user)]
    /\ UNCHANGED <<clock, account, session>>

LogoutAllCommit(r) ==
    LET q == request[r] IN
    /\ At(r, {"LOGOUT_ALL"}, "OPEN")
    /\ ~q.stale /\ ~Locked(q.user) /\ account[q.user].version < MaxVersion
    /\ session' = Revoked(q.seen)
    /\ account' = [account EXCEPT ![q.user].version = @ + 1]
    /\ Commits(r, {q.user}, q.seen)
    /\ UNCHANGED clock

\* The UPDATE of the User row is conditioned on the password hash read first.
ChangePasswordCommit(r) ==
    LET q == request[r] IN
    /\ At(r, {"CHANGE_PASSWORD"}, "OPEN")
    /\ ~q.stale /\ ~Verifying(q.user) /\ ~Locked(q.user)
    /\ Active(q.user) /\ account[q.user].password = q.password
    /\ account[q.user].version < MaxVersion
    /\ session' = Revoked(q.seen)
    /\ account' = [account EXCEPT
                     ![q.user] = [account[q.user] EXCEPT !.version = @ + 1, !.password = @ + 1]]
    /\ Commits(r, {q.user}, q.seen)
    /\ UNCHANGED clock

-----------------------------------------------------------------------------
(* What administrators change about staff *)

\* A grant needs that there is no active one, a revocation that there is.
ChangeAllowed(op, u) ==
    /\ op = "GRANT" => ~account[u].granted
    /\ op = "REVOKE" => account[u].granted

Changed(op, a) ==
    CASE op = "ACTIVATE" -> [a EXCEPT !.status = "ACTIVE"]
      [] op = "DEACTIVATE" -> [a EXCEPT !.status = "INACTIVE"]
      [] op = "GRANT" -> [a EXCEPT !.granted = TRUE]
      [] op = "REVOKE" -> [a EXCEPT !.granted = FALSE]

\* A mistake the properties must catch: lockStaff finds any account.
AnyAccount(u) == account[u].status # "ABSENT"

\* The account lockStaff looks for.
IsStaff(u) == account[u].role = "STAFF"

\* updateStaff, grantCapability and revokeCapability: lockStaff takes the row,
\* and from then on no session of the account appears, so the sweep of
\* invalidateStaffSessions finds at most those that are live now.
LockStaff(r, op, u) ==
    /\ request[r] = Idle
    /\ op \in StaffOps /\ IsStaff(u)
    /\ ~Locked(u) /\ ChangeAllowed(op, u)
    /\ request' = [request EXCEPT ![r] =
                     [Idle EXCEPT !.op = op, !.stage = "OPEN", !.user = u, !.seen = LiveOf(u)]]
    /\ UNCHANGED <<clock, account, session>>

StaffCommit(r) ==
    LET q == request[r]
        S == {s \in q.seen : Live(s)}
    IN
    /\ At(r, StaffOps, "OPEN")
    /\ account[q.user].version < MaxVersion
    /\ account' = [account EXCEPT ![q.user] = [Changed(q.op, account[q.user]) EXCEPT !.version = @ + 1]]
    /\ session' = Revoked(S)
    /\ Commits(r, {q.user}, S)
    /\ UNCHANGED clock

-----------------------------------------------------------------------------

\* A transaction is rolled back: it was overtaken, was chosen to break a
\* deadlock, ran out of time, or the process died.  The answer is an error.
Abort(r) ==
    LET q == request[r] IN
    /\ q # Idle
    /\ request' = [request EXCEPT ![r] = Idle]
    /\ session' = IF At(r, {"REPLAY"}, "OPEN")
                  THEN [session EXCEPT ![q.token].replay = "NO"] ELSE session
    /\ UNCHANGED <<clock, account>>

Tick ==
    /\ clock < MaxTime
    /\ clock' = clock + 1
    /\ UNCHANGED <<account, session, request>>

SessionStep(r) ==
    \/ \E s \in Sessions : LoginCommit(r, s)
    \/ \E s \in Sessions : RefreshRead(r, s)
    \/ \E s \in Sessions, op \in SerializableOps : Authenticate(r, op, s)
    \/ \E t \in Sessions : Rotate(r, t)
    \/ RefreshLoses(r)
    \/ ReplayClaim(r)
    \/ ReplayCommit(r)
    \/ OpenRevocation(r)
    \/ LogoutAllCommit(r)
    \/ ChangePasswordCommit(r)

Next ==
    \/ \E u \in Users, s \in Sessions : RegisterSender(u, s)
    \/ \E u \in Users, granted \in BOOLEAN : CreateStaff(u, granted)
    \/ \E r \in Requests, u \in Users : LoginRead(r, u)
    \/ \E s \in Sessions : Logout(s)
    \/ \E r \in Requests : SessionStep(r)
    \/ \E r \in Requests, op \in StaffOps, u \in Users : LockStaff(r, op, u)
    \/ \E r \in Requests : StaffCommit(r)
    \/ \E r \in Requests : Abort(r)
    \/ Tick

Spec == Init /\ [][Next]_vars

-----------------------------------------------------------------------------
(* Properties *)

AccountRow == [role : {"SENDER", "STAFF"}, status : {"ABSENT", "ACTIVE", "INACTIVE"},
               version : 0 .. MaxVersion, password : Nat, granted : BOOLEAN]

SessionRow == [status : SessionStatus, user : Users \cup {"NONE"}, family : Sessions \cup {"NONE"},
               expires : Int, ends : Int, signed : Nat, password : Nat,
               replay : {"NO", "CLAIMED", "DONE"}]

RequestRow == [op : {"NONE", "LOGIN", "REFRESH", "REPLAY"} \cup SerializableOps \cup StaffOps,
               stage : {"IDLE", "READ", "OPEN"}, user : Users \cup {"NONE"},
               token : Sessions \cup {"NONE"}, now : Nat, version : Nat, password : Nat,
               seen : SUBSET Sessions, stale : BOOLEAN]

\* The values of the variables; capabilities are granted to staff only.
TypeOK ==
    /\ clock \in 0 .. MaxTime
    /\ account \in [Users -> AccountRow]
    /\ \A u \in Users : account[u].granted => account[u].role = "STAFF"
    /\ session \in [Sessions -> SessionRow]
    /\ request \in [Requests -> RequestRow]

\* However refreshes of one token race, a family never has two sessions that
\* work: refresh consumes the old session in the transaction that creates the
\* new one.
OneLiveSessionPerFamily ==
    \A s, t \in Sessions :
        Live(s) /\ Live(t) /\ session[s].family = session[t].family => s = t

\* No session that was opened with an older password is left working, also by
\* a login that verified it while changePassword was on its way.
PasswordIsCurrent ==
    \A s \in Sessions : Live(s) => session[s].password = account[session[s].user].password

\* Rotation never carries a family beyond the absolute lifetime that its first
\* session was given.
FamilyEndsOnTime ==
    \A s \in Sessions : session[s].status # "UNUSED" =>
        /\ session[s].expires <= session[s].ends
        /\ session[s].ends = session[session[s].family].ends

\* Request r has committed what signs its user out.
EndsAll(r) ==
    /\ At(r, SerializableOps \cup StaffOps, "OPEN") /\ request'[r] = Idle
    /\ account'[request[r].user].version > account[request[r].user].version

\* logoutAll, changePassword and every change of a staff account leave the user
\* without a working session, whatever was rotated or opened in between.
EveryDeviceSignedOut ==
    [][\A r \in Requests : EndsAll(r) =>
          \A s \in Sessions : session[s].user = request[r].user => ~Live(s)']_vars

\* Raising the session version ends every access token of the account, also of
\* the families that go on, and none that was refused is accepted again: not
\* after the account was closed and opened, nor issued late by a slow request.
AccessTokensDie ==
    [][\A s \in Sessions :
          LET u == session[s].user IN
          /\ session[s].status # "UNUSED"
          /\ ~Authenticates(s) \/ account'[u].version # account[u].version
          => ~Authenticates(s)']_vars

\* However often a rotated token is presented, its family is revoked and the
\* session version raised once: replayDetectedAt is set and never claimed again.
ReplayHandledOnce ==
    [][\A s \in Sessions : session[s].replay = "DONE" => session'[s].replay = "DONE"]_vars

\* The sessions of a family in the terms of SessionFamilies.
currentToken ==
    [f \in Sessions |-> IF LiveIn(f) = {} THEN "NONE" ELSE CHOOSE s \in LiveIn(f) : TRUE]

spentTokens ==
    [f \in Sessions |-> {s \in Sessions : session[s].family = f /\ ~Live(s)}]

Families == INSTANCE SessionFamilies WITH
    Families <- Sessions, Tokens <- Sessions, current <- currentToken, spent <- spentTokens

\* The sessions implement the promise made of refresh-token families.
ImplementsFamilies == Families!Spec

\* docs/design/MILESTONE_1.md: the first detected reuse of a rotated token
\* revokes the complete session family.
ReplayRevokesFamily ==
    \A s \in Sessions : session[s].replay = "DONE" => LiveIn(session[s].family) = {}
=============================================================================
