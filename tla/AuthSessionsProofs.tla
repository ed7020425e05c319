------------------------- MODULE AuthSessionsProofs -------------------------
(***************************************************************************)
(* The sessions of AuthSessions for any number of accounts, sessions and   *)
(* requests served at once.  Three lemmas say what a step may do to the    *)
(* accounts, to the sessions and to the requests; the invariants follow    *)
(* from these, without going through the actions again.                    *)
(***************************************************************************)
EXTENDS AuthSessions, TLAPS

\* What holds of the rows that are not free.
SessionsInv ==
    \A s \in Sessions :
        /\ session[s].status = "UNUSED" => session[s] = Unused
        /\ session[s].status # "UNUSED" =>
              /\ session[s].user \in Users
              /\ account[session[s].user].status # "ABSENT"
              /\ session[s].family \in Sessions
              /\ session[session[s].family].status # "UNUSED"

\* What a request has read still says whom it acts for; a login holds the
\* password that the account has.
RequestsInv ==
    \A r \in Requests :
        /\ request[r].op # "NONE" =>
              /\ request[r].user \in Users
              /\ account[request[r].user].status # "ABSENT"
        /\ request[r].op = "NONE" => request[r] = Idle
        /\ request[r].op \in {"REFRESH", "REPLAY"} =>
              /\ request[r].token \in Sessions
              /\ session[request[r].token].status # "UNUSED"
              /\ session[request[r].token].user = request[r].user
        /\ request[r].op \in StaffOps => account[request[r].user].role = "STAFF"
        /\ request[r].op = "LOGIN" => request[r].password = account[request[r].user].password

\* The accounts of staff are created with that role.
AccountsInv == \A u \in Users : account[u].role = "STAFF" => account[u].status # "ABSENT"

Consistent == TypeOK /\ AccountsInv /\ SessionsInv /\ RequestsInv

-----------------------------------------------------------------------------
(* Helpers *)

\* A session as it is issued: typed, live, within its family's end, unreplayed.
LEMMA IssuedRow ==
    ASSUME NEW u \in Users, NEW f \in Sessions, NEW now \in Nat, NEW ends \in Int,
           NEW signed \in Nat, NEW password \in Nat
    PROVE  /\ Issued(u, f, now, ends, signed, password) \in SessionRow
           /\ Issued(u, f, now, ends, signed, password).expires <= ends
           /\ Issued(u, f, now, ends, signed, password).ends = ends
           /\ Issued(u, f, now, ends, signed, password).status = "LIVE"
           /\ Issued(u, f, now, ends, signed, password).user = u
           /\ Issued(u, f, now, ends, signed, password).family = f
           /\ Issued(u, f, now, ends, signed, password).password = password
           /\ Issued(u, f, now, ends, signed, password).replay = "NO"
BY TtlAssumption DEF Issued, Earlier, SessionRow, SessionStatus

\* Revoking the sessions of a set changes the status of those and nothing else.
LEMMA RevokedRows ==
    ASSUME session \in [Sessions -> SessionRow], NEW S
    PROVE  /\ Revoked(S) \in [Sessions -> SessionRow]
           /\ \A s \in Sessions :
                 /\ s \notin S => Revoked(S)[s] = session[s]
                 /\ s \in S => Revoked(S)[s] = [session[s] EXCEPT !.status = "REVOKED"]
BY DEF Revoked, SessionRow, SessionStatus

\* A request that is over is a request.
LEMMA IdleRow == Idle \in RequestRow
BY DEF Idle, RequestRow

\* What waits goes on waiting, perhaps overtaken.
Waits(q) ==
    \/ request'[q] = request[q]
    \/ request[q].op # "NONE" /\ request'[q] = [request[q] EXCEPT !.stale = TRUE]

\* A commit marks what it overtakes as stale, and changes no more of it.
LEMMA OvertakenRows ==
    ASSUME request \in [Requests -> RequestRow], NEW users, NEW rows
    PROVE  /\ Overtaken(users, rows) \in [Requests -> RequestRow]
           /\ \A q \in Requests :
                 /\ \/ Overtaken(users, rows)[q] = request[q]
                    \/ /\ request[q].op # "NONE"
                       /\ Overtaken(users, rows)[q] = [request[q] EXCEPT !.stale = TRUE]
                 /\ Overtakes(q, users, rows) => Overtaken(users, rows)[q].stale = TRUE
<1>1. \A q \in Requests : Overtakes(q, users, rows) => request[q].op # "NONE"
    BY DEF Overtakes, At, SerializableOps
<1>2. \A q \in Requests :
         Overtaken(users, rows)[q] =
            IF Overtakes(q, users, rows) THEN [request[q] EXCEPT !.stale = TRUE] ELSE request[q]
    BY DEF Overtaken
<1>3. \A q \in Requests :
         /\ [request[q] EXCEPT !.stale = TRUE] \in RequestRow
         /\ [request[q] EXCEPT !.stale = TRUE].stale = TRUE
    BY DEF RequestRow
<1>4. Overtaken(users, rows) \in [Requests -> RequestRow]
    BY <1>3 DEF Overtaken
<1> QED
    BY <1>1, <1>2, <1>3, <1>4

\* A transaction that commits ends, and marks what it overtakes.
LEMMA CommitRows ==
    ASSUME request \in [Requests -> RequestRow], NEW r \in Requests, NEW users, NEW rows,
           Commits(r, users, rows)
    PROVE  /\ request' \in [Requests -> RequestRow]
           /\ request'[r] = Idle
           /\ \A q \in Requests \ {r} :
                 Waits(q) /\ (Overtakes(q, users, rows) => request'[q].stale = TRUE)
<1>1. request' = [Overtaken(users, rows) EXCEPT ![r] = Idle]
    BY DEF Commits
<1>2. Overtaken(users, rows) \in [Requests -> RequestRow]
    BY OvertakenRows
<1>3. request' \in [Requests -> RequestRow] /\ request'[r] = Idle
    BY <1>1, <1>2, IdleRow
<1>4. \A q \in Requests \ {r} : request'[q] = Overtaken(users, rows)[q]
    BY <1>1, <1>2
<1>5. \A q \in Requests :
         /\ \/ Overtaken(users, rows)[q] = request[q]
            \/ /\ request[q].op # "NONE"
               /\ Overtaken(users, rows)[q] = [request[q] EXCEPT !.stale = TRUE]
         /\ Overtakes(q, users, rows) => Overtaken(users, rows)[q].stale = TRUE
    BY OvertakenRows
<1> QED
    BY <1>3, <1>4, <1>5 DEF Waits

\* What a staff operation writes to an account keeps its role, its version and
\* its password, and only a grant gives the capability.
LEMMA ChangedRow ==
    ASSUME NEW a \in AccountRow, NEW op \in StaffOps
    PROVE  /\ Changed(op, a) \in AccountRow
           /\ Changed(op, a).role = a.role
           /\ Changed(op, a).version = a.version
           /\ Changed(op, a).password = a.password
           /\ a.status # "ABSENT" => Changed(op, a).status # "ABSENT"
           /\ Changed(op, a).granted => a.granted \/ op = "GRANT"
<1>1. CASE op = "ACTIVATE"
    BY <1>1 DEF Changed, AccountRow
<1>2. CASE op = "DEACTIVATE"
    BY <1>2 DEF Changed, AccountRow
<1>3. CASE op = "GRANT"
    BY <1>3 DEF Changed, AccountRow
<1>4. CASE op = "REVOKE"
    BY <1>4 DEF Changed, AccountRow
<1> QED
    BY <1>1, <1>2, <1>3, <1>4 DEF StaffOps

-----------------------------------------------------------------------------
(* The types *)

\* Who and what an account or a session belongs to.
LEMMA BoundTypes ==
    ASSUME TypeOK
    PROVE  /\ clock \in Nat /\ clock + AbsoluteTtl \in Int
           /\ \A u \in Users : account[u].version \in Nat /\ account[u].password \in Nat
           /\ "NONE" \notin Users /\ "NONE" \notin Sessions
BY TtlAssumption, BoundsAssumption, NamesAssumption DEF TypeOK, AccountRow

\* The steps of accounts and of opening a session keep the types.
LEMMA OpeningTypes ==
    ASSUME Consistent
    PROVE  /\ \A u \in Users, s \in Sessions : RegisterSender(u, s) => TypeOK'
           /\ \A u \in Users, granted \in BOOLEAN : CreateStaff(u, granted) => TypeOK'
           /\ \A r \in Requests, u \in Users : LoginRead(r, u) => TypeOK'
           /\ \A r \in Requests, s \in Sessions : LoginCommit(r, s) => TypeOK'
<1>1. ASSUME NEW u \in Users, NEW s \in Sessions, RegisterSender(u, s) PROVE TypeOK'
  <2>1. session' \in [Sessions -> SessionRow]
      BY <1>1, IssuedRow, BoundTypes DEF RegisterSender, Consistent, TypeOK
  <2>2. account' \in [Users -> AccountRow] /\ \A x \in Users : account'[x].granted => account'[x].role = "STAFF"
      BY <1>1 DEF RegisterSender, Consistent, TypeOK, AccountRow
  <2> QED
      BY <1>1, <2>1, <2>2 DEF RegisterSender, Consistent, TypeOK
<1>2. ASSUME NEW u \in Users, NEW granted \in BOOLEAN, CreateStaff(u, granted) PROVE TypeOK'
  <2>1. account' \in [Users -> AccountRow] /\ \A x \in Users : account'[x].granted => account'[x].role = "STAFF"
      BY <1>2 DEF CreateStaff, Consistent, TypeOK, AccountRow
  <2> QED
      BY <1>2, <2>1 DEF CreateStaff, Consistent, TypeOK
<1>3. ASSUME NEW r \in Requests, NEW u \in Users, LoginRead(r, u) PROVE TypeOK'
  <2>1. request' \in [Requests -> RequestRow]
      BY <1>3, BoundTypes DEF LoginRead, Consistent, TypeOK, RequestRow, Idle
  <2> QED
      BY <1>3, <2>1 DEF LoginRead, Consistent, TypeOK
<1>4. ASSUME NEW r \in Requests, NEW s \in Sessions, LoginCommit(r, s) PROVE TypeOK'
  <2>1. /\ request[r].user \in Users
        /\ request[r].now \in Nat /\ request[r].version \in Nat /\ request[r].password \in Nat
        /\ request[r].now + AbsoluteTtl \in Int
      BY <1>4, TtlAssumption DEF LoginCommit, At, Consistent, RequestsInv, TypeOK, RequestRow
  <2>2. session' \in [Sessions -> SessionRow]
      BY <1>4, <2>1, IssuedRow DEF LoginCommit, Consistent, TypeOK
  <2>3. request' \in [Requests -> RequestRow]
      BY <1>4, CommitRows DEF LoginCommit, Consistent, TypeOK
  <2> QED
      BY <1>4, <2>2, <2>3 DEF LoginCommit, Consistent, TypeOK
<1> QED
    BY <1>1, <1>2, <1>3, <1>4

\* The steps of a refresh keep the types.
LEMMA RefreshTypes ==
    ASSUME Consistent, NEW r \in Requests
    PROVE  /\ \A s \in Sessions : RefreshRead(r, s) => TypeOK'
           /\ \A t \in Sessions : Rotate(r, t) => TypeOK'
           /\ RefreshLoses(r) => TypeOK'
           /\ ReplayClaim(r) => TypeOK'
           /\ ReplayCommit(r) => TypeOK'
<1>1. ASSUME NEW s \in Sessions, RefreshRead(r, s) PROVE TypeOK'
  <2>1. /\ session[s].user \in Users
        /\ account[session[s].user].version \in Nat
      BY <1>1, BoundTypes DEF RefreshRead, Live, Consistent, SessionsInv
  <2>2. PICK op \in {"REFRESH", "REPLAY"} : Present(r, op, s)
      BY <1>1 DEF RefreshRead
  <2>3. [Idle EXCEPT !.op = op, !.stage = "READ", !.user = session[s].user, !.token = s,
                     !.now = clock, !.version = account[session[s].user].version] \in RequestRow
      BY <2>1, BoundTypes DEF RequestRow, Idle, Consistent
  <2>4. request' \in [Requests -> RequestRow]
      BY <2>2, <2>3 DEF Present, Consistent, TypeOK
  <2> QED
      BY <1>1, <2>4 DEF RefreshRead, Consistent, TypeOK
<1>2. ASSUME NEW t \in Sessions, Rotate(r, t) PROVE TypeOK'
  <2> DEFINE s == request[r].token
  <2>1. /\ s \in Sessions /\ session[s] \in SessionRow
        /\ request[r].user \in Users
        /\ request[r].now \in Nat /\ request[r].version \in Nat
        /\ session[s].family \in Sessions
        /\ session[s].ends \in Int /\ session[s].password \in Nat
      BY <1>2 DEF Rotate, At, Consistent, RequestsInv, SessionsInv, TypeOK, RequestRow, SessionRow
  <2>2. Issued(request[r].user, session[s].family, request[r].now, InheritedEnd(r),
               request[r].version, session[s].password) \in SessionRow
      BY <2>1, IssuedRow DEF InheritedEnd
  <2>3. [session[s] EXCEPT !.status = "ROTATED"] \in SessionRow
      BY <2>1 DEF SessionRow, SessionStatus
  <2>4. session' \in [Sessions -> SessionRow]
      BY <1>2, <2>1, <2>2, <2>3 DEF Rotate, Consistent, TypeOK
  <2>5. request' \in [Requests -> RequestRow]
      BY <1>2, CommitRows DEF Rotate, Consistent, TypeOK
  <2> QED
      BY <1>2, <2>4, <2>5 DEF Rotate, Consistent, TypeOK
<1>3. ASSUME RefreshLoses(r) PROVE TypeOK'
  <2>1. request' \in [Requests -> RequestRow]
      BY <1>3 DEF RefreshLoses, Consistent, TypeOK, RequestRow
  <2> QED
      BY <1>3, <2>1 DEF RefreshLoses, Consistent, TypeOK
<1>4. ASSUME ReplayClaim(r) PROVE TypeOK'
  <2>1. session' \in [Sessions -> SessionRow]
      BY <1>4 DEF ReplayClaim, Consistent, TypeOK, SessionRow
  <2>2. request' \in [Requests -> RequestRow]
      BY <1>4, IdleRow DEF ReplayClaim, Consistent, TypeOK, RequestRow, LiveIn
  <2> QED
      BY <1>4, <2>1, <2>2 DEF ReplayClaim, Consistent, TypeOK
<1>5. ASSUME ReplayCommit(r) PROVE TypeOK'
  <2> DEFINE u == request[r].user
             S == {s \in request[r].seen : Live(s)}
  <2>1. u \in Users /\ account[u].version \in 0 .. MaxVersion /\ account[u].version < MaxVersion
      BY <1>5 DEF ReplayCommit, At, Consistent, RequestsInv, TypeOK, AccountRow
  <2>2. account' = [account EXCEPT ![u].version = @ + 1]
      BY <1>5 DEF ReplayCommit
  <2>3. account' \in [Users -> AccountRow] /\ \A x \in Users : account'[x].granted => account'[x].role = "STAFF"
      BY <2>1, <2>2, BoundsAssumption DEF Consistent, TypeOK, AccountRow
  <2>4. Revoked(S) \in [Sessions -> SessionRow]
      BY RevokedRows DEF Consistent, TypeOK
  <2>5. session' \in [Sessions -> SessionRow]
      BY <1>5, <2>4 DEF ReplayCommit, SessionRow
  <2>6. request' \in [Requests -> RequestRow]
      BY <1>5, CommitRows DEF ReplayCommit, Consistent, TypeOK
  <2> QED
      BY <1>5, <2>3, <2>5, <2>6 DEF ReplayCommit, Consistent, TypeOK
<1> QED
    BY <1>1, <1>2, <1>3, <1>4, <1>5

\* The steps of logoutAll and changePassword keep the types.
LEMMA RevocationTypes ==
    ASSUME Consistent, NEW r \in Requests
    PROVE  /\ \A s \in Sessions, op \in SerializableOps : Authenticate(r, op, s) => TypeOK'
           /\ OpenRevocation(r) => TypeOK'
           /\ LogoutAllCommit(r) => TypeOK'
           /\ ChangePasswordCommit(r) => TypeOK'
<1>1. ASSUME NEW s \in Sessions, NEW op \in SerializableOps, Authenticate(r, op, s) PROVE TypeOK'
  <2>1. session[s].user \in Users /\ account[session[s].user].password \in Nat
      BY <1>1, BoundTypes DEF Authenticate, Authenticates, Live, Consistent, SessionsInv
  <2>2. [Idle EXCEPT !.op = op, !.stage = "READ", !.user = session[s].user, !.token = s,
                     !.password = account[session[s].user].password] \in RequestRow
      BY <2>1 DEF RequestRow, Idle
  <2>3. request' \in [Requests -> RequestRow]
      BY <1>1, <2>2 DEF Authenticate, Consistent, TypeOK
  <2> QED
      BY <1>1, <2>3 DEF Authenticate, Consistent, TypeOK
<1>2. ASSUME OpenRevocation(r) PROVE TypeOK'
  <2>2. [request[r] EXCEPT !.stage = "OPEN", !.seen = LiveOf(request[r].user)] \in RequestRow
      BY DEF LiveOf, Consistent, TypeOK, RequestRow
  <2>1. request' \in [Requests -> RequestRow]
      BY <1>2, <2>2 DEF OpenRevocation, Consistent, TypeOK
  <2> QED
      BY <1>2, <2>1 DEF OpenRevocation, Consistent, TypeOK
<1>3. ASSUME LogoutAllCommit(r) \/ ChangePasswordCommit(r) PROVE TypeOK'
  <2> DEFINE u == request[r].user
  <2>1. u \in Users /\ account[u].version \in 0 .. MaxVersion /\ account[u].version < MaxVersion
      BY <1>3 DEF LogoutAllCommit, ChangePasswordCommit, At, SerializableOps, Consistent,
                  RequestsInv, TypeOK, AccountRow
  <2>2. \/ account' = [account EXCEPT ![u] = [account[u] EXCEPT !.version = @ + 1]]
        \/ account' = [account EXCEPT ![u] = [account[u] EXCEPT !.version = @ + 1, !.password = @ + 1]]
      BY <1>3 DEF LogoutAllCommit, ChangePasswordCommit
  <2>6. account \in [Users -> AccountRow] /\ account[u] \in AccountRow
      BY <2>1 DEF Consistent, TypeOK
  <2>7. /\ [account[u] EXCEPT !.version = @ + 1] \in AccountRow
        /\ [account[u] EXCEPT !.version = @ + 1, !.password = @ + 1] \in AccountRow
    <3>1. account[u].version + 1 \in 0 .. MaxVersion /\ account[u].password + 1 \in Nat
        BY <2>1, <2>6, BoundsAssumption DEF AccountRow
    <3> QED
        BY <2>6, <3>1 DEF AccountRow
  <2>8. /\ [account[u] EXCEPT !.version = @ + 1].granted = account[u].granted
        /\ [account[u] EXCEPT !.version = @ + 1].role = account[u].role
        /\ [account[u] EXCEPT !.version = @ + 1, !.password = @ + 1].granted = account[u].granted
        /\ [account[u] EXCEPT !.version = @ + 1, !.password = @ + 1].role = account[u].role
      BY <2>6 DEF AccountRow
  <2>9. account' \in [Users -> AccountRow]
      BY <2>1, <2>2, <2>6, <2>7
  <2>10. \A x \in Users : account'[x].granted = account[x].granted /\ account'[x].role = account[x].role
      BY <2>1, <2>2, <2>6, <2>8
  <2>3. \A x \in Users : account'[x].granted => account'[x].role = "STAFF"
      BY <2>10 DEF Consistent, TypeOK
  <2>4. session' \in [Sessions -> SessionRow]
      BY <1>3, RevokedRows DEF LogoutAllCommit, ChangePasswordCommit, Consistent, TypeOK
  <2>5. request' \in [Requests -> RequestRow]
      BY <1>3, CommitRows DEF LogoutAllCommit, ChangePasswordCommit, Consistent, TypeOK
  <2> QED
      BY <1>3, <2>3, <2>9, <2>4, <2>5 DEF LogoutAllCommit, ChangePasswordCommit, Consistent, TypeOK
<1> QED
    BY <1>1, <1>2, <1>3

\* The steps of administrators, and the end of a request without a commit, keep
\* the types.
LEMMA StaffTypes ==
    ASSUME Consistent, NEW r \in Requests
    PROVE  /\ \A op \in StaffOps, u \in Users : LockStaff(r, op, u) => TypeOK'
           /\ StaffCommit(r) => TypeOK'
           /\ Abort(r) => TypeOK'
<1>1. ASSUME NEW op \in StaffOps, NEW u \in Users, LockStaff(r, op, u) PROVE TypeOK'
  <2>1. [Idle EXCEPT !.op = op, !.stage = "OPEN", !.user = u, !.seen = LiveOf(u)] \in RequestRow
      BY DEF RequestRow, Idle, LiveOf
  <2>2. request' \in [Requests -> RequestRow]
      BY <1>1, <2>1 DEF LockStaff, Consistent, TypeOK
  <2> QED
      BY <1>1, <2>2 DEF LockStaff, Consistent, TypeOK
<1>2. ASSUME StaffCommit(r) PROVE TypeOK'
  <2> DEFINE u == request[r].user
             a == Changed(request[r].op, account[u])
  <2>1. /\ u \in Users /\ account[u] \in AccountRow /\ request[r].op \in StaffOps
        /\ account[u].version < MaxVersion /\ account[u].role = "STAFF"
      BY <1>2 DEF StaffCommit, At, StaffOps, Consistent, RequestsInv, TypeOK
  <2>2. a \in AccountRow /\ a.role = "STAFF" /\ a.version < MaxVersion
    <3>1. a \in AccountRow /\ a.role = account[u].role /\ a.version = account[u].version
        BY <2>1, ChangedRow
    <3> QED
        BY <2>1, <3>1
  <2>3. [a EXCEPT !.version = @ + 1] \in AccountRow
      BY <2>2, BoundsAssumption DEF AccountRow
  <2>4. [a EXCEPT !.version = @ + 1].role = "STAFF"
      BY <2>2 DEF AccountRow
  <2>5. account' = [account EXCEPT ![u] = [a EXCEPT !.version = @ + 1]]
      BY <1>2 DEF StaffCommit
  <2>6. /\ account' \in [Users -> AccountRow]
        /\ \A x \in Users : account'[x].granted => account'[x].role = "STAFF"
      BY <2>1, <2>3, <2>4, <2>5 DEF Consistent, TypeOK
  <2>7. session' \in [Sessions -> SessionRow]
      BY <1>2, RevokedRows DEF StaffCommit, Consistent, TypeOK
  <2>8. request' \in [Requests -> RequestRow]
      BY <1>2, CommitRows DEF StaffCommit, Consistent, TypeOK
  <2> QED
      BY <1>2, <2>6, <2>7, <2>8 DEF StaffCommit, Consistent, TypeOK
<1>3. ASSUME Abort(r) PROVE TypeOK'
  <2>1. request' \in [Requests -> RequestRow]
      BY <1>3, IdleRow DEF Abort, Consistent, TypeOK
  <2>2. session' \in [Sessions -> SessionRow]
      BY <1>3 DEF Abort, Consistent, TypeOK, SessionRow
  <2> QED
      BY <1>3, <2>1, <2>2 DEF Abort, Consistent, TypeOK
<1> QED
    BY <1>1, <1>2, <1>3

\* Every step keeps the types.
LEMMA StepTypes == Consistent /\ [Next]_vars => TypeOK'
<1> SUFFICES ASSUME Consistent, [Next]_vars PROVE TypeOK'
    OBVIOUS
<1>1. CASE \E r \in Requests : SessionStep(r)
    BY <1>1, OpeningTypes, RefreshTypes, RevocationTypes DEF SessionStep
<1>2. CASE Tick \/ UNCHANGED vars
    BY <1>2, BoundsAssumption DEF Tick, vars, Consistent, TypeOK
<1>3. CASE \E s \in Sessions : Logout(s)
  <2> PICK s \in Sessions : Logout(s)
      BY <1>3
  <2>1. session' \in [Sessions -> SessionRow] /\ request' \in [Requests -> RequestRow]
      BY RevokedRows, OvertakenRows DEF Logout, Consistent, TypeOK
  <2> QED
      BY <2>1 DEF Logout, Consistent, TypeOK
<1> QED
    BY <1>1, <1>2, <1>3, OpeningTypes, StaffTypes DEF Next
-----------------------------------------------------------------------------
(* What a step does *)

\* What a transaction is going to revoke: a Serializable one that nobody has
\* overtaken finds every session of its user; one that holds the account's row
\* lock has found them all.
SweepsInv ==
    \A r \in Requests :
        /\ At(r, SerializableOps, "OPEN") /\ request[r].stale # TRUE =>
              request[r].seen = LiveOf(request[r].user)
        /\ At(r, StaffOps, "OPEN") => LiveOf(request[r].user) \subseteq request[r].seen
        /\ request[r].op \in StaffOps => request[r].stage = "OPEN"

\* An account stays what it is.
AccountKept(u) ==
    /\ account[u].status # "ABSENT" => account'[u].status # "ABSENT"
    /\ account[u].role = "STAFF" => account'[u].role = "STAFF"
    /\ account'[u].role = "STAFF" => account[u].role = "STAFF" \/ account'[u].status # "ABSENT"
    /\ \/ account'[u].password = account[u].password
       \/ \E r \in Requests : ChangePasswordCommit(r) /\ request[r].user = u

\* A session stays what it is, or stops working.
Kept(s) ==
    /\ session'[s].user = session[s].user
    /\ session'[s].family = session[s].family
    /\ session'[s].expires = session[s].expires
    /\ session'[s].ends = session[s].ends
    /\ session'[s].password = session[s].password
    /\ session[s].status = "UNUSED" => session'[s] = session[s]
    /\ session[s].status # "UNUSED" => session'[s].status # "UNUSED"
    /\ session'[s].status = "LIVE" => Live(s)

\* A Serializable transaction with one of these rows in its snapshot, or of
\* this user, is now over or overtaken.
RowsOvertaken(rows) ==
    \A q \in Requests :
        At(q, SerializableOps, "OPEN") /\ request[q].seen \cap rows # {} =>
            request'[q] = Idle \/ request'[q].stale = TRUE

UserOvertaken(u) ==
    \A q \in Requests :
        At(q, SerializableOps, "OPEN") /\ request[q].user = u =>
            request'[q] = Idle \/ request'[q].stale = TRUE

\* The three things that can happen to the sessions: some end, one is opened, or
\* one replaces another.
SomeEnd ==
    /\ \A s \in Sessions : Kept(s)
    /\ RowsOvertaken({s \in Sessions : Live(s) /\ session'[s].status # "LIVE"})

Opened(s) ==
    LET new == session'[s] IN
    /\ session[s].status = "UNUSED"
    /\ new.status = "LIVE" /\ new.family = s
    /\ new.user \in Users /\ account'[new.user].status # "ABSENT" /\ ~Locked(new.user)
    /\ new.expires <= new.ends
    /\ new.password = account[new.user].password
    /\ account'[new.user].password = account[new.user].password
    /\ UserOvertaken(new.user)
    /\ \A t \in Sessions \ {s} : session'[t] = session[t]

Replaced(s, t) ==
    LET new == session'[t] IN
    /\ Live(s) /\ session'[s] = [session[s] EXCEPT !.status = "ROTATED"]
    /\ session[t].status = "UNUSED"
    /\ new.status = "LIVE" /\ new.family = session[s].family
    /\ new.user = session[s].user /\ new.password = session[s].password
    /\ ~Locked(new.user)
    /\ new.ends = session[s].ends /\ new.expires <= new.ends
    /\ RowsOvertaken({s})
    /\ \A x \in Sessions \ {s, t} : session'[x] = session[x]
    /\ account' = account

\* Every step keeps an account: it stays, its role is fixed, its version and
\* password never go back, and each version step revokes its sessions.
LEMMA AccountEffect ==
    ASSUME Consistent, [Next]_vars, NEW u \in Users
    PROVE  AccountKept(u)
<1>1. account \in [Users -> AccountRow]
    BY DEF Consistent, TypeOK
<1>2. CASE UNCHANGED account
    BY <1>2 DEF AccountKept
<1>3. ASSUME NEW v \in Users, NEW s \in Sessions, RegisterSender(v, s) PROVE AccountKept(u)
    BY <1>1, <1>3 DEF RegisterSender, AccountKept, AccountRow
<1>4. ASSUME NEW v \in Users, NEW granted \in BOOLEAN, CreateStaff(v, granted) PROVE AccountKept(u)
    BY <1>1, <1>4 DEF CreateStaff, AccountKept, AccountRow
<1>5. ASSUME NEW r \in Requests, ReplayCommit(r) \/ LogoutAllCommit(r) PROVE AccountKept(u)
  <2>1. account' = [account EXCEPT ![request[r].user].version = @ + 1]
      BY <1>5 DEF ReplayCommit, LogoutAllCommit
  <2> QED
      BY <1>1, <2>1 DEF AccountKept, AccountRow
<1>6. ASSUME NEW r \in Requests, ChangePasswordCommit(r) PROVE AccountKept(u)
  <2>1. account' = [account EXCEPT ![request[r].user] =
                      [account[request[r].user] EXCEPT !.version = @ + 1, !.password = @ + 1]]
      BY <1>6 DEF ChangePasswordCommit
  <2>2. CASE u = request[r].user
    <3>1. account'[u] = [account[u] EXCEPT !.version = @ + 1, !.password = @ + 1]
        BY <1>1, <2>1, <2>2
    <3> QED
        BY <1>1, <1>6, <2>2, <3>1 DEF AccountKept, AccountRow
  <2>3. CASE u # request[r].user
      BY <1>1, <2>1, <2>3 DEF AccountKept
  <2> QED
      BY <2>2, <2>3
<1>7. ASSUME NEW r \in Requests, StaffCommit(r) PROVE AccountKept(u)
  <2>1. account' = [account EXCEPT ![request[r].user] =
                      [Changed(request[r].op, account[request[r].user]) EXCEPT !.version = @ + 1]]
      BY <1>7 DEF StaffCommit
  <2>2. CASE u = request[r].user
    <3> DEFINE a == Changed(request[r].op, account[u])
    <3>1. account'[u] = [a EXCEPT !.version = @ + 1]
        BY <1>1, <2>1, <2>2
    <3>2. account[u] \in AccountRow /\ request[r].op \in StaffOps
        BY <1>1, <1>7 DEF StaffCommit, At
    <3>3. /\ a \in AccountRow /\ a.role = account[u].role /\ a.password = account[u].password
          /\ account[u].status # "ABSENT" => a.status # "ABSENT"
        BY <3>2, ChangedRow
    <3> HIDE DEF a
    <3>4. /\ account'[u].role = a.role /\ account'[u].password = a.password
          /\ account'[u].status = a.status
        BY <3>1, <3>3 DEF AccountRow
    <3> QED
        BY <3>3, <3>4 DEF AccountKept
  <2>3. CASE u # request[r].user
      BY <1>1, <2>1, <2>3 DEF AccountKept
  <2> QED
      BY <2>2, <2>3
<1>8. ASSUME NEW r \in Requests, SessionStep(r) PROVE AccountKept(u)
  <2>1. UNCHANGED account \/ ReplayCommit(r) \/ LogoutAllCommit(r) \/ ChangePasswordCommit(r)
      BY <1>8 DEF SessionStep, LoginCommit, RefreshRead, Authenticate, Rotate, RefreshLoses,
                  ReplayClaim, OpenRevocation
  <2> QED
      BY <1>2, <1>5, <1>6, <2>1
<1>9. CASE \/ \E r \in Requests, v \in Users : LoginRead(r, v)
           \/ \E s \in Sessions : Logout(s)
           \/ \E r \in Requests, op \in StaffOps, v \in Users : LockStaff(r, op, v)
           \/ \E r \in Requests : Abort(r)
           \/ Tick
           \/ UNCHANGED vars
    BY <1>2, <1>9 DEF LoginRead, Logout, LockStaff, Abort, Tick, vars
<1> QED
    BY <1>3, <1>4, <1>7, <1>8, <1>9 DEF Next
\* Revoking sessions that work ends these and nothing else.
LEMMA RevokingEnds ==
    ASSUME session \in [Sessions -> SessionRow],
           NEW S, \A s \in S : s \in Sessions /\ Live(s),
           session' = Revoked(S),
           RowsOvertaken(S)
    PROVE  SomeEnd
<1>1. \A s \in Sessions : session[s] \in SessionRow
    OBVIOUS
<1>2. \A s \in Sessions : Kept(s)
  <2> SUFFICES ASSUME NEW s \in Sessions PROVE Kept(s)
      OBVIOUS
  <2>1. CASE s \in S
    <3>1. session'[s] = [session[s] EXCEPT !.status = "REVOKED"] /\ Live(s)
        BY <2>1, RevokedRows
    <3> QED
        BY <1>1, <3>1 DEF Kept, Live, SessionRow
  <2>2. CASE s \notin S
      BY <2>2, RevokedRows DEF Kept, Live
  <2> QED
      BY <2>1, <2>2
<1>3. \A s \in Sessions : s \notin S => session'[s] = session[s]
    BY RevokedRows
<1>4. {s \in Sessions : Live(s) /\ session'[s].status # "LIVE"} \subseteq S
    BY <1>3 DEF Live
<1> QED
    BY <1>2, <1>4 DEF SomeEnd, RowsOvertaken

\* Where nothing but the claim of a replay changes, nothing ends.
LEMMA ClaimsEndNothing ==
    ASSUME session \in [Sessions -> SessionRow],
           \A s \in Sessions :
               \/ session'[s] = session[s]
               \/ /\ session[s].status # "UNUSED"
                  /\ \E v \in {"NO", "CLAIMED", "DONE"} : session'[s] = [session[s] EXCEPT !.replay = v]
    PROVE  SomeEnd
<1>1. \A s \in Sessions : session[s] \in SessionRow
    OBVIOUS
<1>2. \A s \in Sessions : Kept(s) /\ session'[s].status = session[s].status
  <2> SUFFICES ASSUME NEW s \in Sessions PROVE Kept(s) /\ session'[s].status = session[s].status
      OBVIOUS
  <2>1. CASE session'[s] = session[s]
      BY <2>1 DEF Kept, Live
  <2>2. CASE session'[s] # session[s]
    <3>1. PICK v \in {"NO", "CLAIMED", "DONE"} : session'[s] = [session[s] EXCEPT !.replay = v]
        BY <2>2
    <3> QED
        BY <1>1, <2>2, <3>1 DEF Kept, Live, SessionRow
  <2> QED
      BY <2>1, <2>2
<1>3. {s \in Sessions : Live(s) /\ session'[s].status # "LIVE"} = {}
    BY <1>2 DEF Live
<1> QED
    BY <1>2, <1>3 DEF SomeEnd, RowsOvertaken

\* A commit overtakes what depends on the rows it wrote.
LEMMA CommitOvertakes ==
    ASSUME request \in [Requests -> RequestRow], NEW r \in Requests, NEW users, NEW rows,
           Commits(r, users, rows)
    PROVE  /\ RowsOvertaken(rows)
           /\ \A u \in users : UserOvertaken(u)
<1>1. \A q \in Requests : Overtakes(q, users, rows) => request'[q] = Idle \/ request'[q].stale = TRUE
    BY CommitRows
<1>2. RowsOvertaken(rows)
    BY <1>1 DEF RowsOvertaken, Overtakes
<1>3. \A u \in users : UserOvertaken(u)
    BY <1>1 DEF UserOvertaken, Overtakes
<1> QED
    BY <1>2, <1>3

\* A login or a registration opens a session.
LEMMA OpeningEffect ==
    ASSUME Consistent
    PROVE  /\ \A u \in Users, s \in Sessions : RegisterSender(u, s) => Opened(s)
           /\ \A r \in Requests, s \in Sessions : LoginCommit(r, s) => Opened(s)
<1>0. /\ session \in [Sessions -> SessionRow] /\ account \in [Users -> AccountRow]
      /\ request \in [Requests -> RequestRow]
    BY DEF Consistent, TypeOK
<1>1. ASSUME NEW u \in Users, NEW s \in Sessions, RegisterSender(u, s) PROVE Opened(s)
  <2> DEFINE new == Issued(u, s, clock, clock + AbsoluteTtl, account[u].version, account[u].password)
  <2>1. /\ session[s].status = "UNUSED" /\ session' = [session EXCEPT ![s] = new]
        /\ account' = [account EXCEPT ![u].status = "ACTIVE"] /\ account[u].status = "ABSENT"
        /\ request' = request
      BY <1>1 DEF RegisterSender
  <2>2. /\ new.status = "LIVE" /\ new.family = s /\ new.user = u /\ new.expires <= new.ends
        /\ new.password = account[u].password
    <3>1. clock \in Nat /\ AbsoluteTtl \in Nat /\ RefreshTtl \in Nat
        BY BoundTypes, TtlAssumption DEF Consistent
    <3> QED
        BY <3>1 DEF Issued, Earlier
  <2> HIDE DEF new
  <2>3. \A r \in Requests : request[r].op # "NONE" => request[r].user # u
      BY <2>1 DEF Consistent, RequestsInv
  <2>4. ~Locked(u)
      BY <2>3 DEF Locked, StaffOps
  <2>5. UserOvertaken(u)
      BY <2>3 DEF UserOvertaken, At, SerializableOps
  <2>6. account'[u].status # "ABSENT" /\ account'[u].password = account[u].password
      BY <1>0, <2>1 DEF AccountRow
  <2>7. session'[s] = new /\ \A t \in Sessions \ {s} : session'[t] = session[t]
      BY <1>0, <2>1
  <2> QED
      BY <2>1, <2>2, <2>4, <2>5, <2>6, <2>7 DEF Opened
<1>2. ASSUME NEW r \in Requests, NEW s \in Sessions, LoginCommit(r, s) PROVE Opened(s)
  <2> DEFINE q == request[r]
             new == Issued(q.user, s, q.now, q.now + AbsoluteTtl, q.version, q.password)
  <2>1. /\ session[s].status = "UNUSED" /\ session' = [session EXCEPT ![s] = new]
        /\ ~Locked(q.user) /\ Commits(r, {q.user}, {}) /\ account' = account
        /\ q.op = "LOGIN"
      BY <1>2 DEF LoginCommit, LoginWritesUser, At
  <2>2. /\ q.user \in Users /\ account[q.user].status # "ABSENT"
        /\ q.password = account[q.user].password
      BY <2>1 DEF Consistent, RequestsInv
  <2>3. q.now \in Nat /\ q.now + AbsoluteTtl \in Int /\ q.version \in Nat /\ q.password \in Nat
      BY <1>0, TtlAssumption DEF RequestRow
  <2>4. /\ new.status = "LIVE" /\ new.family = s /\ new.user = q.user /\ new.expires <= new.ends
        /\ new.password = q.password
      BY <2>3, TtlAssumption DEF Issued, Earlier
  <2>5. UserOvertaken(q.user)
      BY <1>0, <2>1, CommitOvertakes
  <2> HIDE DEF new, q
  <2>6. session'[s] = new /\ \A t \in Sessions \ {s} : session'[t] = session[t]
      BY <1>0, <2>1
  <2> QED
      BY <2>1, <2>2, <2>4, <2>5, <2>6 DEF Opened
<1> QED
    BY <1>1, <1>2

\* A refresh replaces the session that it was asked with.
LEMMA RotateEffect ==
    ASSUME Consistent, NEW r \in Requests, NEW t \in Sessions, Rotate(r, t)
    PROVE  request[r].token \in Sessions /\ Replaced(request[r].token, t)
<1> DEFINE q == request[r]
           s == q.token
           new == Issued(q.user, session[s].family, q.now, session[s].ends, q.version, session[s].password)
<1>0. session \in [Sessions -> SessionRow] /\ request \in [Requests -> RequestRow]
    BY DEF Consistent, TypeOK
<1>1. /\ Live(s) /\ session[t].status = "UNUSED" /\ ~Locked(q.user)
      /\ session' = [session EXCEPT ![s].status = "ROTATED", ![t] = new]
      /\ Commits(r, {}, {s}) /\ account' = account /\ q.op = "REFRESH"
    BY DEF Rotate, Consumable, InheritedEnd, At
<1>2. /\ s \in Sessions /\ session[s].user = q.user /\ session[s] \in SessionRow
      /\ q.user \in Users
    BY <1>0, <1>1 DEF Consistent, RequestsInv
<1>3. session[s].family \in Sessions
    BY <1>1, <1>2 DEF Consistent, SessionsInv, Live
<1>4. /\ q.now \in Nat /\ q.version \in Nat
      /\ session[s].ends \in Int /\ session[s].password \in Nat
    BY <1>0, <1>2 DEF RequestRow, SessionRow
<1>5. /\ new.status = "LIVE" /\ new.family = session[s].family /\ new.user = q.user
      /\ new.password = session[s].password
      /\ new.ends = session[s].ends /\ new.expires <= session[s].ends
    BY <1>4, TtlAssumption DEF Issued, Earlier
<1>6. RowsOvertaken({s})
    BY <1>0, <1>1, CommitOvertakes
<1>7. s # t
    BY <1>1 DEF Live
<1> HIDE DEF new, q, s
<1>8. /\ session'[t] = new /\ session'[s] = [session[s] EXCEPT !.status = "ROTATED"]
      /\ \A x \in Sessions \ {s, t} : session'[x] = session[x]
    BY <1>0, <1>1, <1>2, <1>7
<1>9. Replaced(s, t)
    BY <1>1, <1>2, <1>5, <1>6, <1>8 DEF Replaced
<1> QED
    BY <1>2, <1>9 DEF s, q
\* The commits that revoke what they found, and logout.
LEMMA RevocationEffect ==
    ASSUME Consistent, SweepsInv, NEW r \in Requests,
           \/ ReplayCommit(r) \/ LogoutAllCommit(r) \/ ChangePasswordCommit(r) \/ StaffCommit(r)
    PROVE  SomeEnd
<1> DEFINE q == request[r]
           S == {s \in q.seen : Live(s)}
<1>0. /\ session \in [Sessions -> SessionRow] /\ request \in [Requests -> RequestRow]
      /\ q.seen \subseteq Sessions
    BY DEF Consistent, TypeOK, RequestRow
<1>1. CASE LogoutAllCommit(r) \/ ChangePasswordCommit(r)
  <2>1. /\ At(r, SerializableOps, "OPEN") /\ request[r].stale # TRUE
        /\ session' = Revoked(q.seen) /\ Commits(r, {q.user}, q.seen)
      BY <1>1 DEF LogoutAllCommit, ChangePasswordCommit, At, SerializableOps
  <2>2. \A s \in q.seen : s \in Sessions /\ Live(s)
      BY <2>1 DEF SweepsInv, LiveOf
  <2>3. RowsOvertaken(q.seen)
      BY <1>0, <2>1, CommitOvertakes
  <2> QED
      BY <1>0, <2>1, <2>2, <2>3, RevokingEnds
<1>2. CASE StaffCommit(r)
  <2>1. session' = Revoked(S) /\ Commits(r, {q.user}, S)
      BY <1>2 DEF StaffCommit
  <2>2. RowsOvertaken(S)
      BY <1>0, <2>1, CommitOvertakes
  <2> QED
      BY <1>0, <2>1, <2>2, RevokingEnds
<1>3. CASE ReplayCommit(r)
  <2>1. /\ session' = [Revoked(S) EXCEPT ![q.token].replay = "DONE"]
        /\ Commits(r, {q.user}, S) /\ q.op = "REPLAY"
      BY <1>3 DEF ReplayCommit, At
  <2>2. q.token \in Sessions /\ session[q.token].status # "UNUSED"
      BY <2>1 DEF Consistent, RequestsInv
  <2>3. RowsOvertaken(S)
      BY <1>0, <2>1, CommitOvertakes
  <2>4. /\ Revoked(S) \in [Sessions -> SessionRow]
        /\ \A s \in Sessions : /\ s \notin S => Revoked(S)[s] = session[s]
                               /\ s \in S => Revoked(S)[s] = [session[s] EXCEPT !.status = "REVOKED"]
      BY <1>0, RevokedRows
  <2>5. \A s \in Sessions : Kept(s) /\ (s \notin S => session'[s].status = session[s].status)
    <3> SUFFICES ASSUME NEW s \in Sessions
                 PROVE  Kept(s) /\ (s \notin S => session'[s].status = session[s].status)
        OBVIOUS
    <3> DEFINE row == Revoked(S)[s]
    <3>1. /\ s # q.token => session'[s] = row
          /\ s = q.token => session'[s] = [row EXCEPT !.replay = "DONE"]
        BY <2>1, <2>4
    <3>2. row \in SessionRow /\ session[s] \in SessionRow
        BY <1>0, <2>4
    <3>3. CASE s \in S
      <4>1. row = [session[s] EXCEPT !.status = "REVOKED"] /\ Live(s)
          BY <2>4, <3>3
      <4> HIDE DEF row, S, q
      <4> QED
          BY <3>1, <3>2, <3>3, <4>1 DEF Kept, Live, SessionRow
    <3>4. CASE s \notin S
      <4>1. row = session[s]
          BY <2>4, <3>4
      <4> HIDE DEF row, S, q
      <4> QED
          BY <2>2, <3>1, <3>2, <3>4, <4>1 DEF Kept, Live, SessionRow
    <3> QED
        BY <3>3, <3>4
  <2>6. {s \in Sessions : Live(s) /\ session'[s].status # "LIVE"} \subseteq S
      BY <2>5 DEF Live
  <2> QED
      BY <2>3, <2>5, <2>6 DEF SomeEnd, RowsOvertaken
<1> QED
    BY <1>1, <1>2, <1>3

\* A logout only ends sessions.
LEMMA LogoutEffect ==
    ASSUME Consistent, NEW s \in Sessions, Logout(s)
    PROVE  SomeEnd
<1>1. /\ session \in [Sessions -> SessionRow] /\ request \in [Requests -> RequestRow]
      /\ Live(s) /\ session' = Revoked({s}) /\ request' = Overtaken({}, {s})
    BY DEF Consistent, TypeOK, Logout
<1>2. RowsOvertaken({s})
    BY <1>1, OvertakenRows DEF RowsOvertaken, Overtakes
<1> QED
    BY <1>1, <1>2, RevokingEnds

\* A claim of a replay, and its rollback.
LEMMA ClaimEffect ==
    ASSUME Consistent, NEW r \in Requests, ReplayClaim(r) \/ Abort(r)
    PROVE  SomeEnd
<1>0. session \in [Sessions -> SessionRow]
    BY DEF Consistent, TypeOK
<1>1. CASE UNCHANGED session
    BY <1>0, <1>1, ClaimsEndNothing
<1>2. CASE ~ UNCHANGED session
  <2>1. /\ request[r].op = "REPLAY"
        /\ \E v \in {"NO", "CLAIMED", "DONE"} : session' = [session EXCEPT ![request[r].token].replay = v]
      BY <1>2 DEF ReplayClaim, Abort, At
  <2>2. request[r].token \in Sessions /\ session[request[r].token].status # "UNUSED"
      BY <2>1 DEF Consistent, RequestsInv
  <2> DEFINE k == request[r].token
  <2>3. PICK v \in {"NO", "CLAIMED", "DONE"} : session' = [session EXCEPT ![k].replay = v]
      BY <2>1
  <2> HIDE DEF k
  <2>4. /\ session'[k] = [session[k] EXCEPT !.replay = v]
        /\ \A s \in Sessions \ {k} : session'[s] = session[s]
      BY <1>0, <2>2, <2>3 DEF k
  <2> QED
      BY <1>0, <2>2, <2>4, ClaimsEndNothing DEF k
<1> QED
    BY <1>1, <1>2

\* What a step does to the sessions: it ends some, opens a family, or replaces
\* one session by its successor. Nothing ever revives a session.
LEMMA SessionEffect ==
    ASSUME Consistent, SweepsInv, [Next]_vars
    PROVE  \/ SomeEnd
           \/ \E s \in Sessions : Opened(s)
           \/ \E s, t \in Sessions : Replaced(s, t)
<1>1. CASE UNCHANGED session
    BY <1>1, ClaimsEndNothing DEF Consistent, TypeOK
<1>2. CASE \E r \in Requests : SessionStep(r)
  <2> PICK r \in Requests : SessionStep(r)
      BY <1>2
  <2>1. \/ UNCHANGED session
        \/ ReplayClaim(r)
        \/ ReplayCommit(r) \/ LogoutAllCommit(r) \/ ChangePasswordCommit(r)
        \/ \E s \in Sessions : LoginCommit(r, s)
        \/ \E t \in Sessions : Rotate(r, t)
      BY DEF SessionStep, RefreshRead, Authenticate, RefreshLoses, OpenRevocation
  <2> QED
      BY <1>1, <2>1, ClaimEffect, RevocationEffect, OpeningEffect, RotateEffect
<1>3. CASE \E u \in Users, s \in Sessions : RegisterSender(u, s)
    BY <1>3, OpeningEffect
<1>4. CASE \E s \in Sessions : Logout(s)
    BY <1>4, LogoutEffect
<1>5. CASE \E r \in Requests : StaffCommit(r)
    BY <1>5, RevocationEffect
<1>6. CASE \E r \in Requests : Abort(r)
    BY <1>6, ClaimEffect
<1>7. CASE \/ \E u \in Users, granted \in BOOLEAN : CreateStaff(u, granted)
           \/ \E r \in Requests, u \in Users : LoginRead(r, u)
           \/ \E r \in Requests, op \in StaffOps, u \in Users : LockStaff(r, op, u)
           \/ Tick
           \/ UNCHANGED vars
    BY <1>1, <1>7 DEF CreateStaff, LoginRead, LockStaff, Tick, vars
<1> QED
    BY <1>2, <1>3, <1>4, <1>5, <1>6, <1>7 DEF Next

\* What a step does to a request: it ends, waits, or takes one of its own steps
\* before the commit.
RequestStep(r) ==
    \/ request'[r] = Idle
    \/ Waits(r)
    \/ \E u \in Users : LoginRead(r, u)
    \/ \E s \in Sessions : RefreshRead(r, s)
    \/ \E s \in Sessions, op \in SerializableOps : Authenticate(r, op, s)
    \/ RefreshLoses(r)
    \/ ReplayClaim(r)
    \/ OpenRevocation(r)
    \/ \E op \in StaffOps, u \in Users : LockStaff(r, op, u)

\* What a step does to a request: it waits, moves on, or is over.
LEMMA RequestEffect ==
    ASSUME Consistent, [Next]_vars, NEW r \in Requests
    PROVE  RequestStep(r)
<1>0. request \in [Requests -> RequestRow]
    BY DEF Consistent, TypeOK
<1>1. CASE UNCHANGED request
    BY <1>1 DEF RequestStep, Waits
<1>2. ASSUME NEW users, NEW rows, NEW q \in Requests, Commits(q, users, rows) PROVE RequestStep(r)
    BY <1>0, <1>2, CommitRows DEF RequestStep
<1>3. CASE \E s \in Sessions : Logout(s)
  <2>1. ASSUME NEW users, NEW rows, request' = Overtaken(users, rows) PROVE RequestStep(r)
    <3>1. \A q \in Requests :
             /\ \/ Overtaken(users, rows)[q] = request[q]
                \/ /\ request[q].op # "NONE"
                   /\ Overtaken(users, rows)[q] = [request[q] EXCEPT !.stale = TRUE]
             /\ Overtakes(q, users, rows) => Overtaken(users, rows)[q].stale = TRUE
        BY <1>0, OvertakenRows
    <3> QED
        BY <2>1, <3>1 DEF RequestStep, Waits
  <2> QED
      BY <1>3, <2>1 DEF Logout
<1>4. CASE \E q \in Requests : SessionStep(q)
  <2> PICK q \in Requests : SessionStep(q)
      BY <1>4
  <2>1. CASE q = r
    <3>1. \/ RequestStep(r)
          \/ \E users, rows : Commits(r, users, rows)
        BY <2>1 DEF SessionStep, RequestStep, LoginCommit, Rotate, ReplayCommit, LogoutAllCommit,
                    ChangePasswordCommit
    <3> QED
        BY <1>2, <3>1
  <2>2. CASE q # r
    <3>1. \/ request'[r] = request[r]
          \/ \E users, rows : Commits(q, users, rows)
        BY <1>0, <2>2 DEF SessionStep, LoginCommit, RefreshRead, Present, Authenticate, Rotate,
              RefreshLoses, ReplayClaim, ReplayCommit, OpenRevocation, LogoutAllCommit,
              ChangePasswordCommit
    <3> QED
        BY <1>2, <3>1 DEF RequestStep, Waits
  <2> QED
      BY <2>1, <2>2
<1>5. ASSUME NEW q \in Requests,
             \/ \E u \in Users : LoginRead(q, u)
             \/ \E op \in StaffOps, u \in Users : LockStaff(q, op, u)
             \/ Abort(q)
      PROVE  RequestStep(r)
  <2>1. CASE q = r
      BY <1>0, <1>5, <2>1 DEF RequestStep, Abort
  <2>2. CASE q # r
      BY <1>0, <1>5, <2>2 DEF RequestStep, Waits, LoginRead, LockStaff, Abort
  <2> QED
      BY <2>1, <2>2
<1>6. CASE \E q \in Requests : StaffCommit(q)
    BY <1>2, <1>6 DEF StaffCommit
<1>7. CASE \/ \E u \in Users, s \in Sessions : RegisterSender(u, s)
           \/ \E u \in Users, granted \in BOOLEAN : CreateStaff(u, granted)
           \/ Tick
           \/ UNCHANGED vars
    BY <1>1, <1>7 DEF RegisterSender, CreateStaff, Tick, vars
<1> QED
    BY <1>3, <1>4, <1>5, <1>6, <1>7 DEF Next
-----------------------------------------------------------------------------
(* The invariants *)

\* A session that is not free keeps what it was given.
LEMMA SessionStays ==
    ASSUME Consistent, SweepsInv, [Next]_vars, NEW s \in Sessions, session[s].status # "UNUSED"
    PROVE  /\ session'[s].status # "UNUSED"
           /\ session'[s].user = session[s].user
           /\ session'[s].family = session[s].family
           /\ session'[s].expires = session[s].expires
           /\ session'[s].ends = session[s].ends
           /\ session'[s].password = session[s].password
<1>0. session[s] \in SessionRow
    BY DEF Consistent, TypeOK
<1>1. CASE SomeEnd
    BY <1>1 DEF SomeEnd, Kept
<1>2. CASE \E x \in Sessions : Opened(x)
    BY <1>2 DEF Opened
<1>3. CASE \E x, t \in Sessions : Replaced(x, t)
  <2> PICK x \in Sessions, t \in Sessions : Replaced(x, t)
      BY <1>3
  <2>1. session'[s] = session[s] \/ session'[s] = [session[s] EXCEPT !.status = "ROTATED"]
      BY DEF Replaced
  <2> QED
      BY <1>0, <2>1 DEF SessionRow
<1> QED
    BY <1>1, <1>2, <1>3, SessionEffect

\* Where a session that works comes from.
LEMMA LiveOrigin ==
    ASSUME Consistent, SweepsInv, [Next]_vars, NEW s \in Sessions, session'[s].status = "LIVE"
    PROVE  \/ Live(s)
           \/ Opened(s)
           \/ \E x \in Sessions : Replaced(x, s)
<1>0. session[s] \in SessionRow
    BY DEF Consistent, TypeOK
<1>1. CASE SomeEnd
    BY <1>1 DEF SomeEnd, Kept
<1>2. CASE \E x \in Sessions : Opened(x)
    BY <1>2 DEF Opened, Live
<1>3. CASE \E x, t \in Sessions : Replaced(x, t)
  <2> PICK x \in Sessions, t \in Sessions : Replaced(x, t)
      BY <1>3
  <2>1. CASE s = t
      BY <2>1
  <2>2. CASE s # t
    <3>1. s # x
        BY <1>0, <2>2 DEF Replaced, SessionRow
    <3> QED
        BY <2>2, <3>1 DEF Replaced, Live
  <2> QED
      BY <2>1, <2>2
<1> QED
    BY <1>1, <1>2, <1>3, SessionEffect

\* A step keeps what a session promises of its user and its family.
LEMMA SessionsStep ==
    ASSUME Consistent, SweepsInv, [Next]_vars
    PROVE  SessionsInv'
<1> SUFFICES ASSUME NEW s \in Sessions
             PROVE  /\ session'[s].status = "UNUSED" => session'[s] = Unused
                    /\ session'[s].status # "UNUSED" =>
                          /\ session'[s].user \in Users
                          /\ account'[session'[s].user].status # "ABSENT"
                          /\ session'[s].family \in Sessions
                          /\ session'[session'[s].family].status # "UNUSED"
    BY DEF SessionsInv
<1>1. CASE session[s].status # "UNUSED"
  <2> DEFINE u == session[s].user
             f == session[s].family
  <2>1. /\ u \in Users /\ account[u].status # "ABSENT"
        /\ f \in Sessions /\ session[f].status # "UNUSED"
      BY <1>1 DEF Consistent, SessionsInv
  <2>2. account'[u].status # "ABSENT"
      BY <2>1, AccountEffect DEF AccountKept
  <2>3. session'[f].status # "UNUSED"
      BY <2>1, SessionStays
  <2>4. session'[s].user = u /\ session'[s].family = f /\ session'[s].status # "UNUSED"
      BY <1>1, SessionStays
  <2> QED
      BY <2>1, <2>2, <2>3, <2>4
<1>2. CASE session[s].status = "UNUSED"
  <2>0. session[s] = Unused
      BY <1>2 DEF Consistent, SessionsInv
  <2>1. CASE SomeEnd
      BY <1>2, <2>0, <2>1 DEF SomeEnd, Kept
  <2>2. CASE \E x \in Sessions : Opened(x)
      BY <1>2, <2>0, <2>2 DEF Opened
  <2>3. CASE \E x, t \in Sessions : Replaced(x, t)
    <3> PICK x \in Sessions, t \in Sessions : Replaced(x, t)
        BY <2>3
    <3>1. /\ session[x].status # "UNUSED"
          /\ session[x].user \in Users /\ account[session[x].user].status # "ABSENT"
          /\ session[x].family \in Sessions /\ session[session[x].family].status # "UNUSED"
        BY DEF Replaced, Live, Consistent, SessionsInv
    <3>2. CASE s = t
      <4>1. session'[session[x].family].status # "UNUSED"
          BY <3>1, SessionStays
      <4> QED
          BY <3>1, <3>2, <4>1 DEF Replaced
    <3>3. CASE s # t
        BY <1>2, <2>0, <3>1, <3>3 DEF Replaced
    <3> QED
        BY <3>2, <3>3
  <2> QED
      BY <2>1, <2>2, <2>3, SessionEffect
<1> QED
    BY <1>1, <1>2
\* What one of the steps of request r itself makes of it.
LEMMA OwnStep ==
    ASSUME Consistent, NEW r \in Requests
    PROVE  /\ \A u \in Users : LoginRead(r, u) =>
                 /\ request'[r].op = "LOGIN" /\ request'[r].user = u
                 /\ request'[r].password = account[u].password
                 /\ Active(u) /\ UNCHANGED <<account, session>>
           /\ \A s \in Sessions : RefreshRead(r, s) =>
                 /\ request'[r].op \in {"REFRESH", "REPLAY"} /\ request'[r].stage = "READ"
                 /\ request'[r].user = session[s].user /\ request'[r].token = s
                 /\ session[s].status # "UNUSED" /\ UNCHANGED <<account, session>>
           /\ \A s \in Sessions, op \in SerializableOps : Authenticate(r, op, s) =>
                 /\ request'[r].op = op /\ request'[r].stage = "READ"
                 /\ request'[r].user = session[s].user
                 /\ session[s].status # "UNUSED" /\ UNCHANGED <<account, session>>
           /\ RefreshLoses(r) =>
                 /\ request[r].op = "REFRESH" /\ request[r].stage = "READ"
                 /\ request'[r].op = "REPLAY" /\ request'[r].stage = "READ"
                 /\ request'[r].user = request[r].user /\ request'[r].token = request[r].token
                 /\ UNCHANGED <<account, session>>
           /\ ReplayClaim(r) /\ request'[r] # Idle =>
                 /\ request[r].op = "REPLAY" /\ request'[r].op = "REPLAY"
                 /\ request'[r].user = request[r].user /\ request'[r].token = request[r].token
                 /\ session[request[r].token].replay = "NO"
                 /\ session' = [session EXCEPT ![request[r].token].replay = "CLAIMED"]
                 /\ UNCHANGED account
           /\ OpenRevocation(r) =>
                 /\ request[r].op \in SerializableOps
                 /\ request'[r].op = request[r].op /\ request'[r].user = request[r].user
                 /\ request'[r].seen = LiveOf(request[r].user)
                 /\ UNCHANGED <<account, session>>
           /\ \A op \in StaffOps, u \in Users : LockStaff(r, op, u) =>
                 /\ request'[r].op = op /\ request'[r].stage = "OPEN" /\ request'[r].user = u
                 /\ request'[r].seen = LiveOf(u)
                 /\ account[u].role = "STAFF" /\ UNCHANGED <<account, session>>
<1>0. request \in [Requests -> RequestRow] /\ request[r] \in RequestRow
    BY DEF Consistent, TypeOK
<1>1. ASSUME NEW u \in Users, LoginRead(r, u)
      PROVE  /\ request'[r].op = "LOGIN" /\ request'[r].user = u
             /\ request'[r].password = account[u].password
             /\ Active(u) /\ UNCHANGED <<account, session>>
    BY <1>0, <1>1 DEF LoginRead, Idle
<1>2. ASSUME NEW s \in Sessions, RefreshRead(r, s)
      PROVE  /\ request'[r].op \in {"REFRESH", "REPLAY"} /\ request'[r].stage = "READ"
             /\ request'[r].user = session[s].user /\ request'[r].token = s
             /\ session[s].status # "UNUSED" /\ UNCHANGED <<account, session>>
    BY <1>0, <1>2 DEF RefreshRead, Present, Idle, Live
<1>3. ASSUME NEW s \in Sessions, NEW op \in SerializableOps, Authenticate(r, op, s)
      PROVE  /\ request'[r].op = op /\ request'[r].stage = "READ"
             /\ request'[r].user = session[s].user
             /\ session[s].status # "UNUSED" /\ UNCHANGED <<account, session>>
    BY <1>0, <1>3 DEF Authenticate, Authenticates, Idle, Live
<1>4. ASSUME RefreshLoses(r)
      PROVE  /\ request[r].op = "REFRESH" /\ request[r].stage = "READ"
             /\ request'[r].op = "REPLAY" /\ request'[r].stage = "READ"
             /\ request'[r].user = request[r].user /\ request'[r].token = request[r].token
             /\ UNCHANGED <<account, session>>
  <2>1. request'[r] = [request[r] EXCEPT !.op = "REPLAY"]
      BY <1>0, <1>4 DEF RefreshLoses
  <2> QED
      BY <1>0, <1>4, <2>1 DEF RefreshLoses, At, RequestRow
<1>5. ASSUME ReplayClaim(r), request'[r] # Idle
      PROVE  /\ request[r].op = "REPLAY" /\ request'[r].op = "REPLAY"
             /\ request'[r].user = request[r].user /\ request'[r].token = request[r].token
             /\ session[request[r].token].replay = "NO"
             /\ session' = [session EXCEPT ![request[r].token].replay = "CLAIMED"]
             /\ UNCHANGED account
  <2>1. /\ At(r, {"REPLAY"}, "READ") /\ Unclaimed(request[r].token)
        /\ session' = [session EXCEPT ![request[r].token].replay = "CLAIMED"]
        /\ request' = [request EXCEPT ![r].stage = "OPEN",
                                      ![r].seen = LiveIn(session[request[r].token].family)]
        /\ UNCHANGED account
      BY <1>0, <1>5 DEF ReplayClaim
  <2>2. request'[r] = [request[r] EXCEPT !.stage = "OPEN",
                                         !.seen = LiveIn(session[request[r].token].family)]
      BY <1>0, <2>1
  <2> QED
      BY <1>0, <2>1, <2>2 DEF At, Unclaimed, RequestRow
<1>6. ASSUME OpenRevocation(r)
      PROVE  /\ request[r].op \in SerializableOps
             /\ request'[r].op = request[r].op /\ request'[r].user = request[r].user
             /\ request'[r].seen = LiveOf(request[r].user)
             /\ UNCHANGED <<account, session>>
  <2>1. request'[r] = [request[r] EXCEPT !.stage = "OPEN", !.seen = LiveOf(request[r].user)]
      BY <1>0, <1>6 DEF OpenRevocation
  <2> QED
      BY <1>0, <1>6, <2>1 DEF OpenRevocation, At, RequestRow
<1>7. ASSUME NEW op \in StaffOps, NEW u \in Users, LockStaff(r, op, u)
      PROVE  /\ request'[r].op = op /\ request'[r].stage = "OPEN" /\ request'[r].user = u
             /\ request'[r].seen = LiveOf(u)
             /\ account[u].role = "STAFF" /\ UNCHANGED <<account, session>>
    BY <1>0, <1>7 DEF LockStaff, IsStaff, Idle
<1> QED
    BY <1>1, <1>2, <1>3, <1>4, <1>5, <1>6, <1>7

\* A request that waits keeps what it read.
LEMMA WaitingRow ==
    ASSUME Consistent, NEW r \in Requests, Waits(r)
    PROVE  /\ request'[r].op = request[r].op /\ request'[r].stage = request[r].stage
           /\ request'[r].user = request[r].user /\ request'[r].token = request[r].token
           /\ request'[r].password = request[r].password /\ request'[r].seen = request[r].seen
           /\ request'[r].stale # TRUE => request[r].stale # TRUE
BY DEF Waits, Consistent, TypeOK, RequestRow
\* A step keeps what a request promises of its user and its token.
LEMMA RequestsStep ==
    ASSUME Consistent, SweepsInv, [Next]_vars
    PROVE  RequestsInv'
<1> SUFFICES ASSUME NEW r \in Requests
             PROVE  /\ request'[r].op # "NONE" =>
                          /\ request'[r].user \in Users
                          /\ account'[request'[r].user].status # "ABSENT"
                    /\ request'[r].op = "NONE" => request'[r] = Idle
                    /\ request'[r].op \in {"REFRESH", "REPLAY"} =>
                          /\ request'[r].token \in Sessions
                          /\ session'[request'[r].token].status # "UNUSED"
                          /\ session'[request'[r].token].user = request'[r].user
                    /\ request'[r].op \in StaffOps => account'[request'[r].user].role = "STAFF"
                    /\ request'[r].op = "LOGIN" =>
                          request'[r].password = account'[request'[r].user].password
    BY DEF RequestsInv
<1> DEFINE q == request[r]
           p == request'[r]
<1>1. CASE p = Idle
    BY <1>1 DEF Idle, StaffOps
<1>2. CASE Waits(r) /\ q.op = "NONE"
  <2>1. q = Idle
      BY <1>2 DEF Consistent, RequestsInv
  <2>2. p = Idle
      BY <1>2, <2>1 DEF Waits
  <2> QED
      BY <1>1, <2>2
<1>3. CASE Waits(r) /\ q.op # "NONE"
  <2>1. /\ p.op = q.op /\ p.user = q.user /\ p.token = q.token /\ p.password = q.password
      BY <1>3, WaitingRow
  <2>2. q.user \in Users /\ account'[q.user].status # "ABSENT"
      BY <1>3, AccountEffect DEF Consistent, RequestsInv, AccountKept
  <2>3. q.op \in {"REFRESH", "REPLAY"} =>
           /\ q.token \in Sessions
           /\ session'[q.token].status # "UNUSED"
           /\ session'[q.token].user = q.user
      BY SessionStays DEF Consistent, RequestsInv
  <2>4. q.op \in StaffOps => account'[q.user].role = "STAFF"
      BY <2>2, AccountEffect DEF Consistent, RequestsInv, AccountKept
  <2>5. q.op = "LOGIN" => q.password = account'[q.user].password
    <3> SUFFICES ASSUME q.op = "LOGIN" PROVE q.password = account'[q.user].password
        OBVIOUS
    <3>1. q.password = account[q.user].password
        BY DEF Consistent, RequestsInv
    <3>2. \A x \in Requests : ~(ChangePasswordCommit(x) /\ request[x].user = q.user)
        BY DEF ChangePasswordCommit, Verifying
    <3>3. account'[q.user].password = account[q.user].password
        BY <2>2, <3>2, AccountEffect DEF AccountKept
    <3> QED
        BY <3>1, <3>3
  <2> QED
      BY <1>3, <2>1, <2>2, <2>3, <2>4, <2>5
<1>4. ASSUME NEW u \in Users, LoginRead(r, u) PROVE \/ p = Idle
                                                    \/ /\ p.op = "LOGIN" /\ p.user \in Users
                                                       /\ account'[p.user].status # "ABSENT"
                                                       /\ p.password = account'[p.user].password
    BY <1>4, OwnStep DEF Active
<1>5. ASSUME NEW s \in Sessions, RefreshRead(r, s)
      PROVE  /\ p.op \in {"REFRESH", "REPLAY"} /\ p.user \in Users
             /\ account'[p.user].status # "ABSENT"
             /\ p.token \in Sessions /\ session'[p.token].status # "UNUSED"
             /\ session'[p.token].user = p.user
  <2>1. /\ p.op \in {"REFRESH", "REPLAY"} /\ p.user = session[s].user /\ p.token = s
        /\ session[s].status # "UNUSED" /\ account' = account /\ session' = session
      BY <1>5, OwnStep
  <2>2. session[s].user \in Users /\ account[session[s].user].status # "ABSENT"
      BY <2>1 DEF Consistent, SessionsInv
  <2> QED
      BY <2>1, <2>2
<1>6. ASSUME NEW s \in Sessions, NEW op \in SerializableOps, Authenticate(r, op, s)
      PROVE  p.op \in SerializableOps /\ p.user \in Users /\ account'[p.user].status # "ABSENT"
    BY <1>6, OwnStep DEF Consistent, SessionsInv
<1>7. ASSUME RefreshLoses(r)
      PROVE  /\ p.op = "REPLAY" /\ p.user \in Users
             /\ account'[p.user].status # "ABSENT"
             /\ p.token \in Sessions /\ session'[p.token].status # "UNUSED"
             /\ session'[p.token].user = p.user
  <2>1. /\ q.op = "REFRESH" /\ p.op = "REPLAY" /\ p.user = q.user /\ p.token = q.token
        /\ account' = account /\ session' = session
      BY <1>7, OwnStep
  <2>2. /\ q.user \in Users /\ account[q.user].status # "ABSENT" /\ q.token \in Sessions
        /\ session[q.token].status # "UNUSED" /\ session[q.token].user = q.user
      BY <2>1 DEF Consistent, RequestsInv
  <2> QED
      BY <2>1, <2>2
<1>8. ASSUME ReplayClaim(r), p # Idle
      PROVE  /\ p.op = "REPLAY" /\ p.user \in Users
             /\ account'[p.user].status # "ABSENT"
             /\ p.token \in Sessions /\ session'[p.token].status # "UNUSED"
             /\ session'[p.token].user = p.user
  <2>1. /\ q.op = "REPLAY" /\ p.op = "REPLAY" /\ p.user = q.user /\ p.token = q.token
        /\ account' = account
      BY <1>8, OwnStep
  <2>2. /\ q.user \in Users /\ account[q.user].status # "ABSENT" /\ q.token \in Sessions
        /\ session[q.token].status # "UNUSED" /\ session[q.token].user = q.user
      BY <2>1 DEF Consistent, RequestsInv
  <2>3. session'[q.token].status # "UNUSED" /\ session'[q.token].user = q.user
      BY <2>2, SessionStays
  <2> QED
      BY <2>1, <2>2, <2>3
<1>9. ASSUME OpenRevocation(r)
      PROVE  p.op \in SerializableOps /\ p.user \in Users /\ account'[p.user].status # "ABSENT"
    BY <1>9, OwnStep DEF Consistent, RequestsInv, SerializableOps
<1>10. ASSUME NEW op \in StaffOps, NEW u \in Users, LockStaff(r, op, u)
       PROVE  /\ p.op \in StaffOps /\ p.user \in Users /\ account'[p.user].status # "ABSENT"
              /\ account'[p.user].role = "STAFF"
  <2>1. p.op = op /\ p.user = u /\ account[u].role = "STAFF" /\ account' = account
      BY <1>10, OwnStep
  <2> QED
      BY <2>1 DEF Consistent, AccountsInv
<1>11. \/ p = Idle
       \/ Waits(r)
       \/ \E u \in Users : LoginRead(r, u)
       \/ \E s \in Sessions : RefreshRead(r, s)
       \/ \E s \in Sessions, op \in SerializableOps : Authenticate(r, op, s)
       \/ RefreshLoses(r)
       \/ ReplayClaim(r)
       \/ OpenRevocation(r)
       \/ \E op \in StaffOps, u \in Users : LockStaff(r, op, u)
    BY RequestEffect DEF RequestStep
<1> HIDE DEF p, q
<1>13. CASE p = Idle \/ Waits(r)
    BY <1>1, <1>2, <1>3, <1>13 DEF p
<1>14. CASE \E u \in Users : LoginRead(r, u)
    BY <1>4, <1>1, <1>14 DEF StaffOps, p
<1>15. CASE (\E s \in Sessions : RefreshRead(r, s)) \/ RefreshLoses(r)
    BY <1>5, <1>7, <1>15 DEF StaffOps, p
<1>16. CASE ReplayClaim(r)
    BY <1>1, <1>8, <1>16 DEF StaffOps, p
<1>17. CASE \/ \E s \in Sessions, op \in SerializableOps : Authenticate(r, op, s)
            \/ OpenRevocation(r)
    BY <1>6, <1>9, <1>17 DEF SerializableOps, StaffOps, p
<1>18. CASE \E op \in StaffOps, u \in Users : LockStaff(r, op, u)
    BY <1>10, <1>18 DEF StaffOps, p
<1> QED
    BY <1>11, <1>13, <1>14, <1>15, <1>16, <1>17, <1>18
\* A step keeps what an account promises.
LEMMA AccountsStep ==
    ASSUME Consistent, [Next]_vars
    PROVE  AccountsInv'
BY AccountEffect DEF AccountKept, Consistent, AccountsInv

\* LiveOf in the next state.
LiveAfter(u) == {s \in Sessions : session'[s].status = "LIVE" /\ session'[s].user = u}

\* A Serializable transaction that nobody overtakes still finds every session
\* of its user.
LEMMA SerializableSweep ==
    ASSUME Consistent, SweepsInv, [Next]_vars, NEW r \in Requests, Waits(r),
           At(r, SerializableOps, "OPEN"), request'[r].stale # TRUE
    PROVE  LiveAfter(request[r].user) = LiveOf(request[r].user)
<1> DEFINE u == request[r].user
<1>0. /\ request'[r] # Idle
      /\ request[r].seen = LiveOf(u)
  <2>1. request'[r].op = request[r].op /\ request[r].stale # TRUE
      BY WaitingRow
  <2> QED
    <3>1. request[r].op # "NONE" /\ Idle.op = "NONE"
        BY DEF At, SerializableOps, Idle
    <3>2. request[r].seen = LiveOf(u)
        BY <2>1 DEF SweepsInv
    <3> QED
        BY <2>1, <3>1, <3>2
<1>1. \A rows : RowsOvertaken(rows) => LiveOf(u) \cap rows = {}
    BY <1>0 DEF RowsOvertaken
<1>2. ~UserOvertaken(u)
    BY <1>0 DEF UserOvertaken
<1>3. ASSUME NEW s \in LiveOf(u) PROVE session'[s].status = "LIVE" /\ session'[s].user = u
  <2>1. s \in Sessions /\ session[s].status = "LIVE" /\ session[s].user = u
      BY <1>3 DEF LiveOf, Live
  <2>2. session'[s].user = u
      BY <2>1, SessionStays
  <2>3. CASE SomeEnd
    <3> DEFINE ended == {x \in Sessions : Live(x) /\ session'[x].status # "LIVE"}
    <3>1. RowsOvertaken(ended)
        BY <2>3 DEF SomeEnd
    <3>2. s \notin ended
        BY <1>1, <1>3, <3>1
    <3> QED
        BY <2>1, <2>2, <3>2 DEF Live
  <2>4. CASE \E x \in Sessions : Opened(x)
      BY <2>1, <2>4 DEF Opened
  <2>5. CASE \E x, t \in Sessions : Replaced(x, t)
    <3> PICK x \in Sessions, t \in Sessions : Replaced(x, t)
        BY <2>5
    <3>1. s # x
        BY <1>1, <1>3 DEF Replaced
    <3>2. s # t
        BY <2>1 DEF Replaced
    <3> QED
        BY <2>1, <3>1, <3>2 DEF Replaced
  <2> QED
      BY <2>2, <2>3, <2>4, <2>5, SessionEffect
<1>4. ASSUME NEW s \in Sessions, session'[s].status = "LIVE", session'[s].user = u
      PROVE  s \in LiveOf(u)
  <2>1. CASE Live(s)
    <3>1. session'[s].user = session[s].user
        BY <2>1, SessionStays DEF Live
    <3> QED
        BY <1>4, <2>1, <3>1 DEF LiveOf
  <2>2. CASE Opened(s)
      BY <1>2, <1>4, <2>2 DEF Opened
  <2>3. CASE \E x \in Sessions : Replaced(x, s)
      BY <1>1, <1>4, <2>3 DEF Replaced, LiveOf
  <2> QED
      BY <1>4, <2>1, <2>2, <2>3, LiveOrigin
<1> QED
    BY <1>3, <1>4 DEF LiveAfter, LiveOf

\* While the row lock of an account is held, no session of it appears.
LEMMA StaffSweep ==
    ASSUME Consistent, SweepsInv, [Next]_vars, NEW r \in Requests, request[r].op \in StaffOps
    PROVE  LiveAfter(request[r].user) \subseteq LiveOf(request[r].user)
<1> DEFINE u == request[r].user
<1>1. Locked(u)
    BY DEF Locked
<1> SUFFICES ASSUME NEW s \in Sessions, session'[s].status = "LIVE", session'[s].user = u
             PROVE  Live(s) /\ session[s].user = u
    BY DEF LiveAfter, LiveOf
<1>2. CASE Live(s)
    BY <1>2, SessionStays DEF Live
<1>3. CASE Opened(s) \/ \E x \in Sessions : Replaced(x, s)
    BY <1>1, <1>3 DEF Opened, Replaced
<1> QED
    BY <1>2, <1>3, LiveOrigin

\* A step keeps what a transaction under way knows of its user's sessions.
LEMMA SweepsStep ==
    ASSUME Consistent, SweepsInv, [Next]_vars
    PROVE  SweepsInv'
<1> SUFFICES ASSUME NEW r \in Requests
             PROVE  /\ /\ request'[r].op \in SerializableOps /\ request'[r].stage = "OPEN"
                       /\ request'[r].stale # TRUE
                       => request'[r].seen = LiveAfter(request'[r].user)
                    /\ request'[r].op \in StaffOps /\ request'[r].stage = "OPEN" =>
                          LiveAfter(request'[r].user) \subseteq request'[r].seen
                    /\ request'[r].op \in StaffOps => request'[r].stage = "OPEN"
    BY DEF SweepsInv, At, LiveOf, Live, LiveAfter
<1>0. ASSUME UNCHANGED session, NEW u PROVE LiveAfter(u) = LiveOf(u)
    BY <1>0 DEF LiveAfter, LiveOf, Live
<1>1. CASE request'[r] = Idle
    BY <1>1 DEF Idle, SerializableOps, StaffOps
<1>2. CASE Waits(r)
  <2>1. /\ request'[r].op = request[r].op /\ request'[r].stage = request[r].stage
        /\ request'[r].user = request[r].user /\ request'[r].seen = request[r].seen
        /\ request'[r].stale # TRUE => request[r].stale # TRUE
      BY <1>2, WaitingRow
  <2>2. ASSUME request[r].op \in SerializableOps, request[r].stage = "OPEN", request'[r].stale # TRUE
        PROVE  request[r].seen = LiveAfter(request[r].user)
    <3>1. request[r].seen = LiveOf(request[r].user)
        BY <2>1, <2>2 DEF SweepsInv, At
    <3> QED
        BY <1>2, <2>2, <3>1, SerializableSweep DEF At
  <2>3. ASSUME request[r].op \in StaffOps
        PROVE  request[r].stage = "OPEN" /\ LiveAfter(request[r].user) \subseteq request[r].seen
    <3>1. request[r].stage = "OPEN" /\ LiveOf(request[r].user) \subseteq request[r].seen
        BY <2>3 DEF SweepsInv, At
    <3>2. LiveAfter(request[r].user) \subseteq LiveOf(request[r].user)
        BY <2>3, StaffSweep
    <3> QED
        BY <3>1, <3>2
  <2> QED
      BY <2>1, <2>2, <2>3
<1>3. CASE \/ \E u \in Users : LoginRead(r, u)
           \/ \E s \in Sessions : RefreshRead(r, s)
           \/ RefreshLoses(r)
           \/ ReplayClaim(r)
  <2>1. request'[r] = Idle \/ request'[r].op \in {"LOGIN", "REFRESH", "REPLAY"}
      BY <1>3, OwnStep
  <2> QED
      BY <1>1, <2>1 DEF SerializableOps, StaffOps
<1>4. CASE \E s \in Sessions, op \in SerializableOps : Authenticate(r, op, s)
  <2>1. request'[r].op \in SerializableOps /\ request'[r].stage = "READ"
      BY <1>4, OwnStep
  <2> QED
      BY <2>1 DEF SerializableOps, StaffOps
<1>5. CASE OpenRevocation(r)
  <2>1. /\ request'[r].op \in SerializableOps /\ request'[r].user = request[r].user
        /\ request'[r].seen = LiveOf(request[r].user) /\ UNCHANGED session
      BY <1>5, OwnStep
  <2>2. LiveAfter(request[r].user) = LiveOf(request[r].user)
      BY <1>0, <2>1
  <2> QED
      BY <2>1, <2>2 DEF SerializableOps, StaffOps
<1>6. CASE \E op \in StaffOps, u \in Users : LockStaff(r, op, u)
  <2>1. PICK u \in Users :
            /\ request'[r].op \in StaffOps /\ request'[r].stage = "OPEN" /\ request'[r].user = u
            /\ request'[r].seen = LiveOf(u) /\ UNCHANGED session
      BY <1>6, OwnStep
  <2>2. LiveAfter(u) = LiveOf(u)
      BY <1>0, <2>1
  <2> QED
      BY <2>1, <2>2 DEF SerializableOps, StaffOps
<1> QED
    BY <1>1, <1>2, <1>3, <1>4, <1>5, <1>6, RequestEffect DEF RequestStep
\* No step leaves a family with two sessions that work.
LEMMA OneLiveStep ==
    ASSUME Consistent, SweepsInv, OneLiveSessionPerFamily, [Next]_vars
    PROVE  OneLiveSessionPerFamily'
<1> SUFFICES ASSUME NEW s \in Sessions, NEW t \in Sessions,
                    session'[s].status = "LIVE", session'[t].status = "LIVE",
                    session'[s].family = session'[t].family
             PROVE  s = t
    BY DEF OneLiveSessionPerFamily, Live
<1>0. \A x \in Sessions : session[x] \in SessionRow
    BY DEF Consistent, TypeOK
<1>1. \A x \in Sessions : Live(x) => session'[x].family = session[x].family
    BY SessionStays DEF Live
<1>2. \A x \in Sessions : Live(x) => session[session[x].family].status # "UNUSED"
    BY DEF Consistent, SessionsInv, Live
<1>3. CASE SomeEnd
  <2>1. Live(s) /\ Live(t)
      BY <1>3 DEF SomeEnd, Kept
  <2> QED
      BY <1>1, <2>1 DEF OneLiveSessionPerFamily
<1>4. CASE \E x \in Sessions : Opened(x)
  <2> PICK x \in Sessions : Opened(x)
      BY <1>4
  <2>1. \A y \in Sessions \ {x} : session'[y].status = "LIVE" =>
            Live(y) /\ session'[y].family = session[y].family /\ session'[y].family # x
      BY <1>2 DEF Opened, Live
  <2>2. session'[x].family = x
      BY DEF Opened
  <2>3. s # x /\ t # x => s = t
      BY <1>1, <2>1 DEF OneLiveSessionPerFamily
  <2> QED
      BY <2>1, <2>2, <2>3
<1>5. CASE \E x, y \in Sessions : Replaced(x, y)
  <2> PICK x \in Sessions, y \in Sessions : Replaced(x, y)
      BY <1>5
  <2>1. Live(x) /\ session'[x].status = "ROTATED" /\ session'[y].family = session[x].family
      BY <1>0 DEF Replaced, SessionRow
  <2>2. \A z \in Sessions \ {x, y} : session'[z] = session[z]
      BY DEF Replaced
  <2>3. \A z \in Sessions \ {y} : session'[z].status = "LIVE" =>
            Live(z) /\ session[z].family = session'[z].family /\ z # x
      BY <2>1, <2>2 DEF Live
  <2>4. \A z \in Sessions \ {y} : session'[z].status = "LIVE" => session'[z].family # session'[y].family
      BY <2>1, <2>3 DEF OneLiveSessionPerFamily
  <2>5. s # y /\ t # y => s = t
      BY <2>3 DEF OneLiveSessionPerFamily
  <2> QED
      BY <2>4, <2>5
<1> QED
    BY <1>3, <1>4, <1>5, SessionEffect

\* No step gives a family a longer life.
LEMMA FamilyEndsStep ==
    ASSUME Consistent, SweepsInv, FamilyEndsOnTime, [Next]_vars
    PROVE  FamilyEndsOnTime'
<1> SUFFICES ASSUME NEW s \in Sessions, session'[s].status # "UNUSED"
             PROVE  /\ session'[s].expires <= session'[s].ends
                    /\ session'[s].ends = session'[session'[s].family].ends
    BY DEF FamilyEndsOnTime
<1>1. CASE session[s].status # "UNUSED"
  <2> DEFINE f == session[s].family
  <2>1. f \in Sessions /\ session[f].status # "UNUSED"
      BY <1>1 DEF Consistent, SessionsInv
  <2>2. session[s].expires <= session[s].ends /\ session[s].ends = session[f].ends
      BY <1>1 DEF FamilyEndsOnTime
  <2>3. /\ session'[s].expires = session[s].expires /\ session'[s].ends = session[s].ends
        /\ session'[s].family = f
      BY <1>1, SessionStays
  <2>4. session'[f].ends = session[f].ends
      BY <2>1, SessionStays
  <2> QED
      BY <2>2, <2>3, <2>4
<1>2. CASE session[s].status = "UNUSED"
  <2>1. CASE SomeEnd
      BY <1>2, <2>1 DEF SomeEnd, Kept
  <2>2. CASE \E x \in Sessions : Opened(x)
      BY <1>2, <2>2 DEF Opened
  <2>3. CASE \E x, t \in Sessions : Replaced(x, t)
    <3> PICK x \in Sessions, t \in Sessions : Replaced(x, t)
        BY <2>3
    <3>1. /\ session[x].status # "UNUSED" /\ session[x].family \in Sessions
          /\ session[session[x].family].status # "UNUSED"
        BY DEF Replaced, Live, Consistent, SessionsInv
    <3>2. session[x].ends = session[session[x].family].ends
        BY <3>1 DEF FamilyEndsOnTime
    <3>3. session'[session[x].family].ends = session[session[x].family].ends
        BY <3>1, SessionStays
    <3>4. s = t
        BY <1>2, <3>1 DEF Replaced
    <3> QED
        BY <3>2, <3>3, <3>4 DEF Replaced
  <2> QED
      BY <2>1, <2>2, <2>3, SessionEffect
<1> QED
    BY <1>1, <1>2

\* No step leaves a session working that was opened with an older password.
LEMMA PasswordStep ==
    ASSUME Consistent, SweepsInv, PasswordIsCurrent, [Next]_vars
    PROVE  PasswordIsCurrent'
<1> SUFFICES ASSUME NEW s \in Sessions, session'[s].status = "LIVE"
             PROVE  session'[s].password = account'[session'[s].user].password
    BY DEF PasswordIsCurrent, Live
<1>1. CASE Live(s)
  <2> DEFINE u == session[s].user
  <2>1. /\ session'[s].user = u /\ session'[s].password = session[s].password
        /\ u \in Users /\ session[s].password = account[u].password
      BY <1>1, SessionStays DEF Live, Consistent, SessionsInv, PasswordIsCurrent
  <2>2. ASSUME NEW r \in Requests, ChangePasswordCommit(r), request[r].user = u PROVE FALSE
    <3>1. /\ At(r, SerializableOps, "OPEN") /\ request[r].stale # TRUE
          /\ session' = Revoked(request[r].seen)
        BY <2>2 DEF ChangePasswordCommit, At, SerializableOps
    <3>2. s \in request[r].seen
        BY <1>1, <2>2, <3>1 DEF SweepsInv, LiveOf
    <3>3. session'[s] = [session[s] EXCEPT !.status = "REVOKED"] /\ session[s] \in SessionRow
        BY <3>1, <3>2, RevokedRows DEF Consistent, TypeOK
    <3> QED
        BY <3>3 DEF SessionRow
  <2>3. account'[u].password = account[u].password
      BY <2>1, <2>2, AccountEffect DEF AccountKept
  <2> QED
      BY <2>1, <2>3
<1>2. CASE Opened(s)
    BY <1>2 DEF Opened
<1>3. CASE \E x \in Sessions : Replaced(x, s)
    BY <1>3 DEF Replaced, PasswordIsCurrent
<1> QED
    BY <1>1, <1>2, <1>3, LiveOrigin
\* A claim under way is marked, and no other request has it.
ClaimsInv ==
    \A r \in Requests : At(r, {"REPLAY"}, "OPEN") =>
        /\ session[request[r].token].replay = "CLAIMED"
        /\ \A q \in Requests :
              At(q, {"REPLAY"}, "OPEN") /\ request[q].token = request[r].token => q = r

\* Request r ends its claim of the replay of session s.
EndsClaim(r, s) == At(r, {"REPLAY"}, "OPEN") /\ request[r].token = s /\ request'[r] = Idle

\* Revoking changes no mark of a replay.
LEMMA RevokingKeepsMarks ==
    ASSUME session \in [Sessions -> SessionRow], NEW S
    PROVE  \A s \in Sessions : Revoked(S)[s].replay = session[s].replay
<1>1. \A s \in Sessions : session[s] \in SessionRow
    OBVIOUS
<1>2. \A s \in Sessions : Revoked(S)[s] = session[s]
                          \/ Revoked(S)[s] = [session[s] EXCEPT !.status = "REVOKED"]
    BY DEF Revoked
<1> QED
    BY <1>1, <1>2 DEF SessionRow

\* Only a request that claims the replay, or ends its claim, changes the mark.
LEMMA MarkEffect ==
    ASSUME Consistent, [Next]_vars, NEW s \in Sessions, session[s].status # "UNUSED"
    PROVE  \/ session'[s].replay = session[s].replay
           \/ \E r \in Requests : ReplayClaim(r) /\ session[s].replay = "NO"
           \/ \E r \in Requests : EndsClaim(r, s)
<1>0. /\ session \in [Sessions -> SessionRow] /\ session[s] \in SessionRow
      /\ request \in [Requests -> RequestRow]
    BY DEF Consistent, TypeOK
<1>1. CASE UNCHANGED session
    BY <1>1
<1>2. ASSUME NEW t \in Sessions, NEW row, session[t].status = "UNUSED", session' = [session EXCEPT ![t] = row]
      PROVE  session'[s].replay = session[s].replay
    BY <1>0, <1>2
<1>3. ASSUME NEW S, session' = Revoked(S) PROVE session'[s].replay = session[s].replay
    BY <1>0, <1>3, RevokingKeepsMarks
<1>4. ASSUME NEW r \in Requests, NEW t \in Sessions, Rotate(r, t)
      PROVE  session'[s].replay = session[s].replay
  <2>1. PICK x \in Sessions : Replaced(x, t)
      BY <1>4, RotateEffect
  <2>2. session'[s] = session[s] \/ session'[s] = [session[s] EXCEPT !.status = "ROTATED"]
      BY <2>1 DEF Replaced
  <2> QED
      BY <1>0, <2>2 DEF SessionRow
<1>5. ASSUME NEW r \in Requests, ReplayClaim(r)
      PROVE  session'[s].replay = session[s].replay \/ session[s].replay = "NO"
  <2>1. \/ UNCHANGED session
        \/ /\ session[request[r].token].replay = "NO"
           /\ session' = [session EXCEPT ![request[r].token].replay = "CLAIMED"]
      BY <1>5 DEF ReplayClaim, Unclaimed
  <2>2. CASE s = request[r].token
      BY <2>1, <2>2
  <2>3. CASE s # request[r].token
      BY <1>0, <2>1, <2>3
  <2> QED
      BY <2>2, <2>3
<1>6. ASSUME NEW r \in Requests, ReplayCommit(r)
      PROVE  session'[s].replay = session[s].replay \/ EndsClaim(r, s)
  <2> DEFINE S == {x \in request[r].seen : Live(x)}
  <2>1. /\ At(r, {"REPLAY"}, "OPEN")
        /\ session' = [Revoked(S) EXCEPT ![request[r].token].replay = "DONE"]
        /\ Commits(r, {request[r].user}, S)
      BY <1>6 DEF ReplayCommit
  <2>2. request'[r] = Idle
      BY <1>0, <2>1, CommitRows
  <2>3. Revoked(S) \in [Sessions -> SessionRow] /\ Revoked(S)[s].replay = session[s].replay
      BY <1>0, RevokedRows, RevokingKeepsMarks
  <2> HIDE DEF S
  <2>4. CASE s = request[r].token
      BY <2>1, <2>2, <2>4 DEF EndsClaim
  <2>5. CASE s # request[r].token
      BY <2>1, <2>3, <2>5
  <2> QED
      BY <2>4, <2>5
<1>7. ASSUME NEW r \in Requests, Abort(r)
      PROVE  session'[s].replay = session[s].replay \/ EndsClaim(r, s)
  <2>1. /\ request'[r] = Idle
        /\ \/ UNCHANGED session
           \/ /\ At(r, {"REPLAY"}, "OPEN")
              /\ session' = [session EXCEPT ![request[r].token].replay = "NO"]
      BY <1>0, <1>7 DEF Abort
  <2>2. CASE s = request[r].token
      BY <2>1, <2>2 DEF EndsClaim
  <2>3. CASE s # request[r].token
      BY <1>0, <2>1, <2>3
  <2> QED
      BY <2>2, <2>3
<1>8. CASE \E r \in Requests : SessionStep(r)
  <2> PICK r \in Requests : SessionStep(r)
      BY <1>8
  <2>1. \/ UNCHANGED session
        \/ ReplayClaim(r)
        \/ ReplayCommit(r)
        \/ \E S : session' = Revoked(S)
        \/ \E t \in Sessions : session[t].status = "UNUSED" /\ \E row : session' = [session EXCEPT ![t] = row]
        \/ \E t \in Sessions : Rotate(r, t)
      BY DEF SessionStep, RefreshRead, Authenticate, RefreshLoses, OpenRevocation,
             LogoutAllCommit, ChangePasswordCommit, LoginCommit
  <2> QED
      BY <1>1, <1>2, <1>3, <1>4, <1>5, <1>6, <2>1
<1>9. CASE \E r \in Requests : StaffCommit(r)
    BY <1>3, <1>9 DEF StaffCommit
<1>10. CASE \E x \in Sessions : Logout(x)
    BY <1>3, <1>10 DEF Logout
<1>11. CASE \E u \in Users, t \in Sessions : RegisterSender(u, t)
    BY <1>2, <1>11 DEF RegisterSender
<1>12. CASE \/ \E u \in Users, granted \in BOOLEAN : CreateStaff(u, granted)
            \/ \E r \in Requests, u \in Users : LoginRead(r, u)
            \/ \E r \in Requests, op \in StaffOps, u \in Users : LockStaff(r, op, u)
            \/ Tick
            \/ UNCHANGED vars
    BY <1>1, <1>12 DEF CreateStaff, LoginRead, LockStaff, Tick, vars
<1> QED
    BY <1>7, <1>8, <1>9, <1>10, <1>11, <1>12 DEF Next

\* A claim that is open after the step was open before it or is made by it.
LEMMA OpenClaim ==
    ASSUME Consistent, [Next]_vars, NEW r \in Requests,
           request'[r].op = "REPLAY", request'[r].stage = "OPEN"
    PROVE  \/ At(r, {"REPLAY"}, "OPEN") /\ request'[r].token = request[r].token
           \/ /\ ReplayClaim(r) /\ request'[r].token = request[r].token
              /\ request[r].stage = "READ"
              /\ session[request[r].token].replay = "NO"
              /\ session' = [session EXCEPT ![request[r].token].replay = "CLAIMED"]
              /\ \A q \in Requests \ {r} : request'[q] = request[q]
<1>1. CASE request'[r] = Idle
    BY <1>1 DEF Idle
<1>2. CASE Waits(r)
    BY <1>2, WaitingRow DEF At
<1>3. CASE ReplayClaim(r) /\ request'[r] # Idle
  <2>1. /\ request'[r].token = request[r].token
        /\ session[request[r].token].replay = "NO"
        /\ session' = [session EXCEPT ![request[r].token].replay = "CLAIMED"]
      BY <1>3, OwnStep
  <2>2. request[r].stage = "READ" /\ \A q \in Requests \ {r} : request'[q] = request[q]
      BY <1>3 DEF ReplayClaim, At, Consistent, TypeOK
  <2> QED
      BY <1>3, <2>1, <2>2
<1>4. CASE \/ \E u \in Users : LoginRead(r, u)
           \/ \E s \in Sessions : RefreshRead(r, s)
           \/ \E s \in Sessions, op \in SerializableOps : Authenticate(r, op, s)
           \/ RefreshLoses(r)
           \/ OpenRevocation(r)
           \/ \E op \in StaffOps, u \in Users : LockStaff(r, op, u)
  <2>1. \/ request'[r].op \in {"LOGIN"} \cup SerializableOps \cup StaffOps
        \/ request'[r].stage = "READ"
      BY <1>4, OwnStep
  <2> QED
      BY <2>1 DEF SerializableOps, StaffOps
<1> QED
    BY <1>1, <1>2, <1>3, <1>4, RequestEffect DEF RequestStep

\* A step keeps a replay claimed by one transaction only.
LEMMA ClaimsStep ==
    ASSUME Consistent, ClaimsInv, [Next]_vars
    PROVE  ClaimsInv'
<1> SUFFICES ASSUME NEW r \in Requests, request'[r].op = "REPLAY", request'[r].stage = "OPEN"
             PROVE  /\ session'[request'[r].token].replay = "CLAIMED"
                    /\ \A q \in Requests :
                          request'[q].op = "REPLAY" /\ request'[q].stage = "OPEN"
                          /\ request'[q].token = request'[r].token => q = r
    BY DEF ClaimsInv, At
<1> DEFINE s == request[r].token
           Claims(q) == /\ ReplayClaim(q) /\ request'[q].token = request[q].token
                        /\ request[q].stage = "READ"
                        /\ session[request[q].token].replay = "NO"
                        /\ session' = [session EXCEPT ![request[q].token].replay = "CLAIMED"]
                        /\ \A x \in Requests \ {q} : request'[x] = request[x]
           Has(q) == At(q, {"REPLAY"}, "OPEN") /\ request'[q].token = request[q].token
<1>1. \A q \in Requests : request'[q].op = "REPLAY" /\ request'[q].stage = "OPEN" => Has(q) \/ Claims(q)
    BY OpenClaim
<1>2. request'[r].token = s
    BY <1>1
<1>3. s \in Sessions /\ session[s].status # "UNUSED"
  <2>1. request[r].op = "REPLAY"
      BY <1>1 DEF ReplayClaim, At
  <2> QED
      BY <2>1 DEF Consistent, RequestsInv
<1>4. session'[s].replay = "CLAIMED"
  <2>1. CASE Claims(r)
    <3>1. session[s] \in SessionRow /\ session \in [Sessions -> SessionRow]
        BY <1>3 DEF Consistent, TypeOK
    <3>2. session'[s] = [session[s] EXCEPT !.replay = "CLAIMED"]
        BY <1>3, <2>1, <3>1
    <3> QED
        BY <3>1, <3>2 DEF SessionRow
  <2>2. CASE Has(r)
    <3>1. session[s].replay = "CLAIMED"
        BY <2>2 DEF ClaimsInv
    <3>2. \A q \in Requests : ~EndsClaim(q, s)
      <4> SUFFICES ASSUME NEW q \in Requests, EndsClaim(q, s) PROVE FALSE
          OBVIOUS
      <4>1. q = r
          BY <2>2 DEF ClaimsInv, EndsClaim
      <4> QED
          BY <4>1 DEF EndsClaim, Idle
    <3> QED
        BY <1>3, <3>1, <3>2, MarkEffect
  <2> QED
      BY <1>1, <2>1, <2>2
<1>5. ASSUME NEW q \in Requests, request'[q].op = "REPLAY", request'[q].stage = "OPEN",
             request'[q].token = request'[r].token, q # r
      PROVE  FALSE
  <2>1. request'[q].token = s /\ request[q].token = s
      BY <1>1, <1>2, <1>5
  <2>2. ~(Has(q) /\ Has(r))
      BY <1>5, <2>1 DEF ClaimsInv
  <2>3. Has(q) => session[s].replay = "CLAIMED"
      BY <2>1 DEF ClaimsInv
  <2>4. Has(r) => session[s].replay = "CLAIMED"
      BY DEF ClaimsInv
  <2>5. ~(Claims(q) /\ Claims(r))
      BY <1>5
  <2> QED
      BY <1>1, <1>5, <2>1, <2>2, <2>3, <2>4, <2>5
<1> QED
    BY <1>2, <1>4, <1>5
-----------------------------------------------------------------------------
(* Theorems *)

\* The inductive invariant: the rows and the requests agree, every sweep finds
\* what it must, every claim has one owner.
IInv ==
    /\ Consistent
    /\ SweepsInv
    /\ ClaimsInv
    /\ OneLiveSessionPerFamily
    /\ FamilyEndsOnTime
    /\ PasswordIsCurrent

\* The inductive invariant holds at the start.
LEMMA InitHolds == Init => IInv
<1> SUFFICES ASSUME Init PROVE IInv
    OBVIOUS
<1>1. TypeOK
  <2>1. Unused \in SessionRow
      BY DEF Unused, SessionRow, SessionStatus
  <2>2. \A u \in Users : account[u] = [role |-> "SENDER", status |-> "ABSENT", version |-> 0,
                                       password |-> 0, granted |-> FALSE]
      BY DEF Init
  <2>3. account \in [Users -> AccountRow]
      BY BoundsAssumption DEF Init, AccountRow
  <2> QED
      BY <2>1, <2>2, <2>3, IdleRow, BoundsAssumption DEF Init, TypeOK
<1>2. /\ \A s \in Sessions : session[s] = Unused /\ session[s].status = "UNUSED"
      /\ \A r \in Requests : request[r] = Idle /\ request[r].op = "NONE"
    BY DEF Init, Unused, Idle
<1>3. SessionsInv /\ RequestsInv
    BY <1>2 DEF SessionsInv, RequestsInv, StaffOps
<1>4. AccountsInv
    BY DEF Init, AccountsInv
<1>5. SweepsInv /\ ClaimsInv
    BY <1>2 DEF SweepsInv, ClaimsInv, At, SerializableOps, StaffOps
<1>6. OneLiveSessionPerFamily /\ FamilyEndsOnTime /\ PasswordIsCurrent
    BY <1>2 DEF OneLiveSessionPerFamily, FamilyEndsOnTime, PasswordIsCurrent, Live
<1> QED
    BY <1>1, <1>3, <1>4, <1>5, <1>6 DEF IInv, Consistent

\* Every step keeps the inductive invariant.
LEMMA StepHolds == IInv /\ [Next]_vars => IInv'
<1> SUFFICES ASSUME IInv, [Next]_vars PROVE IInv'
    OBVIOUS
<1>1. Consistent'
    BY StepTypes, AccountsStep, SessionsStep, RequestsStep DEF IInv, Consistent
<1>2. SweepsInv' /\ ClaimsInv'
    BY SweepsStep, ClaimsStep DEF IInv
<1>3. OneLiveSessionPerFamily' /\ FamilyEndsOnTime' /\ PasswordIsCurrent'
    BY OneLiveStep, FamilyEndsStep, PasswordStep DEF IInv
<1> QED
    BY <1>1, <1>2, <1>3 DEF IInv

\* The inductive invariant holds always.
LEMMA Invariance == Spec => []IInv
BY InitHolds, StepHolds, PTL DEF Spec

\* Every reachable state of accounts, sessions and requests is well typed, and
\* capabilities are held by staff only (auth/service.ts, admin/service.ts).
THEOREM SessionTypesCorrect == Spec => []TypeOK
<1>1. IInv => TypeOK
    BY DEF IInv, Consistent
<1> QED
    BY <1>1, Invariance, PTL

\* However many refreshes of one token are under way, a family never has two
\* sessions that work: the UPDATE that consumes the token is in the transaction
\* that issues the next.
THEOREM FamiliesHaveOneLiveSession == Spec => []OneLiveSessionPerFamily
<1>1. IInv => OneLiveSessionPerFamily
    BY DEF IInv
<1> QED
    BY <1>1, Invariance, PTL

\* refresh never carries a family beyond the absolute lifetime of its first
\* session, however often it rotates.
THEOREM RotationKeepsTheEnd == Spec => []FamilyEndsOnTime
<1>1. IInv => FamilyEndsOnTime
    BY DEF IInv
<1> QED
    BY <1>1, Invariance, PTL

\* After changePassword no session works that an older password opened, whatever
\* logins and refreshes raced with it: the transaction's snapshot holds every
\* live session of the user until somebody overtakes it.
THEOREM OldPasswordsOpenNothing == Spec => []PasswordIsCurrent
<1>1. IInv => PasswordIsCurrent
    BY DEF IInv
<1> QED
    BY <1>1, Invariance, PTL

\* Only the commits of logoutAll, changePassword and the staff changes end all.
LEMMA EndsAllByCommit ==
    ASSUME Consistent, [Next]_vars, NEW r \in Requests, EndsAll(r)
    PROVE  LogoutAllCommit(r) \/ ChangePasswordCommit(r) \/ StaffCommit(r)
<1>0. /\ request \in [Requests -> RequestRow]
      /\ request'[r].op = "NONE" /\ request[r].op \in SerializableOps \cup StaffOps
      /\ request[r].op # "NONE" /\ request[r].op \notin {"LOGIN", "REFRESH", "REPLAY"}
      /\ request[r].stage = "OPEN"
    BY DEF EndsAll, At, Idle, SerializableOps, StaffOps, Consistent, TypeOK
<1>1. request[r].user \in Users
    BY <1>0 DEF Consistent, RequestsInv
<1>2. ~Waits(r)
    BY <1>0, WaitingRow
<1>3. ASSUME NEW q \in Requests, q # r, NEW users, NEW rows, Commits(q, users, rows) PROVE FALSE
    BY <1>0, <1>2, <1>3, CommitRows
<1>4. request' # request /\ request[r] # Idle
    BY <1>0, <1>2 DEF Waits, Idle
<1>5. ASSUME NEW q \in Requests, SessionStep(q)
      PROVE  LogoutAllCommit(r) \/ ChangePasswordCommit(r)
  <2>1. CASE q = r
      BY <1>0, <1>4, <1>5, <2>1 DEF SessionStep, LoginCommit, RefreshRead, Authenticate, Rotate,
            RefreshLoses, ReplayClaim, ReplayCommit, OpenRevocation, At
  <2>2. CASE q # r
    <3>1. request'[r] = request[r] \/ \E users, rows : Commits(q, users, rows)
        BY <1>0, <1>5, <2>2 DEF SessionStep, LoginCommit, RefreshRead, Present, Authenticate,
              Rotate, RefreshLoses, ReplayClaim, ReplayCommit, OpenRevocation, LogoutAllCommit,
              ChangePasswordCommit
    <3> QED
        BY <1>2, <1>3, <2>2, <3>1 DEF Waits
  <2> QED
      BY <2>1, <2>2
<1>6. ASSUME NEW q \in Requests, StaffCommit(q) PROVE StaffCommit(r)
    BY <1>3, <1>6 DEF StaffCommit
<1>7. ASSUME NEW q \in Requests,
             \/ \E u \in Users : LoginRead(q, u)
             \/ \E op \in StaffOps, u \in Users : LockStaff(q, op, u)
      PROVE  FALSE
  <2>1. q # r
      BY <1>4, <1>7 DEF LoginRead, LockStaff
  <2> QED
      BY <1>0, <1>2, <1>7, <2>1 DEF LoginRead, LockStaff, Waits
<1>8. ASSUME NEW q \in Requests, Abort(q) PROVE FALSE
  <2>1. account[request[r].user].version \in Int /\ account' = account
      BY <1>1, <1>8, BoundsAssumption DEF Abort, Consistent, TypeOK, AccountRow
  <2> QED
      BY <2>1 DEF EndsAll
<1>9. ASSUME NEW s \in Sessions, Logout(s) PROVE FALSE
  <2>1. account[request[r].user].version \in Int /\ account' = account
      BY <1>1, <1>9, BoundsAssumption DEF Logout, Consistent, TypeOK, AccountRow
  <2> QED
      BY <2>1 DEF EndsAll
<1>10. CASE \/ \E u \in Users, s \in Sessions : RegisterSender(u, s)
            \/ \E u \in Users, granted \in BOOLEAN : CreateStaff(u, granted)
            \/ Tick
            \/ UNCHANGED vars
    BY <1>4, <1>10 DEF RegisterSender, CreateStaff, Tick, vars
<1> QED
    BY <1>5, <1>6, <1>7, <1>8, <1>9, <1>10 DEF Next

\* logoutAll, changePassword and every change of a staff account leave the user
\* without a working session, whatever was rotated or opened since they started.
THEOREM SignOutIsComplete == Spec => EveryDeviceSignedOut
<1>1. ASSUME IInv, [Next]_vars, NEW r \in Requests, EndsAll(r),
             NEW s \in Sessions, session[s].user = request[r].user
      PROVE  session'[s].status # "LIVE"
  <2>0. session \in [Sessions -> SessionRow] /\ session[s] \in SessionRow /\ Consistent
      BY <1>1 DEF IInv, Consistent, TypeOK
  <2>1. PICK S : session' = Revoked(S) /\ LiveOf(request[r].user) \subseteq S
    <3>1. CASE LogoutAllCommit(r) \/ ChangePasswordCommit(r)
      <4>1. /\ session' = Revoked(request[r].seen)
            /\ At(r, SerializableOps, "OPEN") /\ request[r].stale # TRUE
          BY <3>1 DEF LogoutAllCommit, ChangePasswordCommit, At, SerializableOps
      <4>2. request[r].seen = LiveOf(request[r].user)
          BY <1>1, <4>1 DEF IInv, SweepsInv
      <4> QED
          BY <4>1, <4>2
    <3>2. CASE StaffCommit(r)
      <4> DEFINE S == {x \in request[r].seen : Live(x)}
      <4>1. session' = Revoked(S) /\ At(r, StaffOps, "OPEN")
          BY <3>2 DEF StaffCommit
      <4>2. LiveOf(request[r].user) \subseteq request[r].seen
          BY <1>1, <4>1 DEF IInv, SweepsInv
      <4>3. LiveOf(request[r].user) \subseteq S
          BY <4>2 DEF LiveOf
      <4> QED
          BY <4>1, <4>3
    <3> QED
        BY <1>1, <2>0, <3>1, <3>2, EndsAllByCommit
  <2>2. CASE s \in S
    <3>1. session'[s] = [session[s] EXCEPT !.status = "REVOKED"]
        BY <2>0, <2>1, <2>2, RevokedRows
    <3> QED
        BY <2>0, <3>1 DEF SessionRow
  <2>3. CASE s \notin S
    <3>1. session'[s] = session[s]
        BY <2>0, <2>1, <2>3, RevokedRows
    <3> QED
        BY <1>1, <2>1, <2>3, <3>1 DEF LiveOf, Live
  <2> QED
      BY <2>2, <2>3
<1>2. IInv /\ [Next]_vars =>
        [\A r \in Requests : EndsAll(r) =>
            \A s \in Sessions : session[s].user = request[r].user => ~Live(s)']_vars
    BY <1>1 DEF Live
<1> QED
    BY <1>2, Invariance, PTL DEF Spec, EveryDeviceSignedOut

\* A rotated token that is presented again, by however many requests at once,
\* has its replay handled once.
THEOREM ReplaysHandledOnce == Spec => ReplayHandledOnce
<1>1. ASSUME IInv, [Next]_vars, NEW s \in Sessions, session[s].replay = "DONE"
      PROVE  session'[s].replay = "DONE"
  <2>1. session[s].status # "UNUSED"
      BY <1>1 DEF IInv, Consistent, SessionsInv, Unused
  <2>2. \A r \in Requests : ~EndsClaim(r, s)
      BY <1>1 DEF IInv, ClaimsInv, EndsClaim
  <2> QED
      BY <1>1, <2>1, <2>2, MarkEffect DEF IInv
<1>2. IInv /\ [Next]_vars =>
        [\A s \in Sessions : session[s].replay = "DONE" => session'[s].replay = "DONE"]_vars
    BY <1>1
<1> QED
    BY <1>2, Invariance, PTL DEF Spec, ReplayHandledOnce
-----------------------------------------------------------------------------
(* Access tokens *)

\* No access token, and no request that will sign one, is ahead of its account.
VersionsInv ==
    /\ \A s \in Sessions : session[s].status # "UNUSED" =>
          session[s].signed <= account[session[s].user].version
    /\ \A r \in Requests : request[r].op \in {"LOGIN", "REFRESH"} =>
          request[r].version <= account[request[r].user].version

\* The account u goes on: a step that changes its status raises its version.
VersionKept(u) ==
    /\ account[u].version <= account'[u].version
    /\ account'[u].version = account[u].version =>
          account'[u].status = account[u].status \/ account[u].status = "ABSENT"

\* Every step leaves each account so.
LEMMA VersionEffect ==
    ASSUME Consistent, [Next]_vars, NEW u \in Users
    PROVE  VersionKept(u)
<1>0. account \in [Users -> AccountRow] /\ account[u].version \in Nat
    BY BoundTypes DEF Consistent, TypeOK
<1>1. CASE UNCHANGED account
    BY <1>0, <1>1 DEF VersionKept
<1>2. ASSUME NEW r \in Requests,
             \/ ReplayCommit(r) \/ LogoutAllCommit(r) \/ ChangePasswordCommit(r) \/ StaffCommit(r)
      PROVE  VersionKept(u)
  <2> DEFINE a == account[request[r].user]
             c == Changed(request[r].op, a)
  <2>1. \/ account' = [account EXCEPT ![request[r].user] = [a EXCEPT !.version = @ + 1]]
        \/ account' = [account EXCEPT ![request[r].user] =
                         [a EXCEPT !.version = @ + 1, !.password = @ + 1]]
        \/ /\ account' = [account EXCEPT ![request[r].user] = [c EXCEPT !.version = @ + 1]]
           /\ request[r].op \in StaffOps
      BY <1>2 DEF ReplayCommit, LogoutAllCommit, ChangePasswordCommit, StaffCommit, At
  <2>2. CASE u = request[r].user
    <3>1. a \in AccountRow /\ a.version = account[u].version
        BY <1>0, <2>2
    <3>2. request[r].op \in StaffOps => c \in AccountRow /\ c.version = a.version
        BY <3>1, ChangedRow
    <3>3. \/ account'[u] = [a EXCEPT !.version = @ + 1]
          \/ account'[u] = [a EXCEPT !.version = @ + 1, !.password = @ + 1]
          \/ account'[u] = [c EXCEPT !.version = @ + 1] /\ request[r].op \in StaffOps
        BY <1>0, <2>1, <2>2
    <3> HIDE DEF a, c
    <3>4. account'[u].version = a.version + 1
        BY <3>1, <3>2, <3>3 DEF AccountRow
    <3> QED
        BY <1>0, <3>1, <3>4 DEF VersionKept
  <2>3. CASE u # request[r].user
    <3>1. account'[u] = account[u]
        BY <1>0, <2>1, <2>3
    <3> QED
        BY <1>0, <3>1 DEF VersionKept
  <2> QED
      BY <2>2, <2>3
<1>3. CASE \/ \E v \in Users, s \in Sessions : RegisterSender(v, s)
           \/ \E v \in Users, granted \in BOOLEAN : CreateStaff(v, granted)
  <2>1. \/ account'[u] = account[u]
        \/ /\ account[u].status = "ABSENT"
           /\ \/ account'[u] = [account[u] EXCEPT !.status = "ACTIVE"]
              \/ \E granted \in BOOLEAN :
                    account'[u] = [account[u] EXCEPT !.role = "STAFF", !.status = "ACTIVE",
                                                     !.granted = granted]
      BY <1>0, <1>3 DEF RegisterSender, CreateStaff
  <2>2. account'[u].version = account[u].version
      BY <1>0, <2>1 DEF AccountRow
  <2>3. account'[u] = account[u] \/ account[u].status = "ABSENT"
      BY <2>1
  <2> QED
      BY <1>0, <2>2, <2>3 DEF VersionKept
<1>4. CASE \E r \in Requests : SessionStep(r)
    BY <1>1, <1>2, <1>4 DEF SessionStep, LoginCommit, RefreshRead, Authenticate, Rotate,
          RefreshLoses, ReplayClaim, OpenRevocation
<1>5. CASE \/ \E r \in Requests, v \in Users : LoginRead(r, v)
           \/ \E s \in Sessions : Logout(s)
           \/ \E r \in Requests, op \in StaffOps, v \in Users : LockStaff(r, op, v)
           \/ \E r \in Requests : Abort(r)
           \/ Tick
           \/ UNCHANGED vars
    BY <1>1, <1>5 DEF LoginRead, Logout, LockStaff, Abort, Tick, vars
<1> QED
    BY <1>2, <1>3, <1>4, <1>5 DEF Next

\* A session keeps its access token; a new one gets a version of its account.
SignedKept(s) ==
    \/ session'[s].signed = session[s].signed /\ session[s].status # "UNUSED"
    \/ session'[s] = session[s]
    \/ /\ session[s].status = "UNUSED"
       /\ session'[s].signed <= account[session'[s].user].version

\* Every step leaves each session so.
LEMMA SignedEffect ==
    ASSUME Consistent, SweepsInv, VersionsInv, [Next]_vars, NEW s \in Sessions
    PROVE  SignedKept(s)
<1>0. /\ session \in [Sessions -> SessionRow] /\ session[s] \in SessionRow
      /\ request \in [Requests -> RequestRow]
    BY DEF Consistent, TypeOK
<1>1. CASE UNCHANGED session
    BY <1>1 DEF SignedKept
<1>2. ASSUME NEW S, \A x \in S : Live(x),
             \/ session' = Revoked(S)
             \/ \E k \in Sessions : /\ session[k].status # "UNUSED"
                                    /\ session' = [Revoked(S) EXCEPT ![k].replay = "DONE"]
      PROVE  SignedKept(s)
  <2> DEFINE row == Revoked(S)[s]
  <2>1. /\ Revoked(S) \in [Sessions -> SessionRow] /\ row \in SessionRow
        /\ s \notin S => row = session[s]
        /\ s \in S => row = [session[s] EXCEPT !.status = "REVOKED"]
      BY <1>0, RevokedRows
  <2>2. row = session[s] \/ (row.signed = session[s].signed /\ session[s].status # "UNUSED")
      BY <1>0, <1>2, <2>1 DEF Live, SessionRow
  <2>3. \/ session'[s] = row
        \/ session[s].status # "UNUSED" /\ session'[s] = [row EXCEPT !.replay = "DONE"]
      BY <1>2, <2>1
  <2> HIDE DEF row
  <2> QED
      BY <2>1, <2>2, <2>3 DEF SignedKept, SessionRow
<1>3. ASSUME NEW k \in Sessions, session[k].status # "UNUSED", NEW mark,
             session' = [session EXCEPT ![k].replay = mark]
      PROVE  SignedKept(s)
  <2>1. session'[s] = IF s = k THEN [session[s] EXCEPT !.replay = mark] ELSE session[s]
      BY <1>0, <1>3
  <2> QED
      BY <1>0, <1>3, <2>1 DEF SignedKept, SessionRow
<1>4. ASSUME NEW r \in Requests,
             \/ ReplayCommit(r) \/ LogoutAllCommit(r) \/ ChangePasswordCommit(r) \/ StaffCommit(r)
      PROVE  SignedKept(s)
  <2> DEFINE S == {x \in request[r].seen : Live(x)}
  <2>1. CASE LogoutAllCommit(r) \/ ChangePasswordCommit(r)
    <3>1. /\ session' = Revoked(request[r].seen)
          /\ At(r, SerializableOps, "OPEN") /\ request[r].stale # TRUE
        BY <2>1 DEF LogoutAllCommit, ChangePasswordCommit, At, SerializableOps
    <3>2. \A x \in request[r].seen : Live(x)
        BY <3>1 DEF SweepsInv, LiveOf
    <3> QED
        BY <1>2, <3>1, <3>2
  <2>2. CASE StaffCommit(r)
      BY <1>2, <2>2 DEF StaffCommit
  <2>3. CASE ReplayCommit(r)
    <3>1. request[r].token \in Sessions /\ session[request[r].token].status # "UNUSED"
        BY <2>3 DEF ReplayCommit, At, Consistent, RequestsInv
    <3>2. /\ session' = [Revoked(S) EXCEPT ![request[r].token].replay = "DONE"]
          /\ \A x \in S : Live(x)
        BY <2>3 DEF ReplayCommit
    <3> HIDE DEF S
    <3> QED
        BY <1>2, <3>1, <3>2
  <2> QED
      BY <1>4, <2>1, <2>2, <2>3
<1>5. ASSUME NEW r \in Requests, ReplayClaim(r) \/ Abort(r) PROVE SignedKept(s)
  <2>1. \/ UNCHANGED session
        \/ /\ request[r].op = "REPLAY"
           /\ \E mark : session' = [session EXCEPT ![request[r].token].replay = mark]
      BY <1>5 DEF ReplayClaim, Abort, At
  <2>2. request[r].op = "REPLAY" =>
           request[r].token \in Sessions /\ session[request[r].token].status # "UNUSED"
      BY DEF Consistent, RequestsInv
  <2> QED
      BY <1>1, <1>3, <2>1, <2>2
<1>6. ASSUME NEW u, NEW x \in Sessions, session[x].status = "UNUSED", NEW row,
             row.user = u, row.signed <= account[u].version,
             \A y \in Sessions \ {x} : session'[y] = session[y], session'[x] = row
      PROVE  SignedKept(s)
    BY <1>6 DEF SignedKept
<1>7. ASSUME NEW u \in Users, NEW x \in Sessions, RegisterSender(u, x) PROVE SignedKept(s)
  <2> DEFINE row == Issued(u, x, clock, clock + AbsoluteTtl, account[u].version, account[u].password)
  <2>1. row.user = u /\ row.signed = account[u].version /\ account[u].version \in Nat
      BY BoundTypes DEF Issued, Consistent
  <2>2. session[x].status = "UNUSED" /\ session' = [session EXCEPT ![x] = row]
      BY <1>7 DEF RegisterSender
  <2> HIDE DEF row
  <2>3. session'[x] = row /\ \A y \in Sessions \ {x} : session'[y] = session[y]
      BY <1>0, <2>2
  <2> QED
      BY <1>6, <2>1, <2>2, <2>3
<1>8. ASSUME NEW r \in Requests, NEW x \in Sessions, LoginCommit(r, x) PROVE SignedKept(s)
  <2> DEFINE q == request[r]
             row == Issued(q.user, x, q.now, q.now + AbsoluteTtl, q.version, q.password)
  <2>1. /\ row.user = q.user /\ row.signed = q.version /\ q.version <= account[q.user].version
      BY <1>8 DEF Issued, LoginCommit, At, VersionsInv
  <2>2. session[x].status = "UNUSED" /\ session' = [session EXCEPT ![x] = row]
      BY <1>8 DEF LoginCommit
  <2> HIDE DEF row, q
  <2>3. session'[x] = row /\ \A y \in Sessions \ {x} : session'[y] = session[y]
      BY <1>0, <2>2
  <2> QED
      BY <1>6, <2>1, <2>2, <2>3
<1>9. ASSUME NEW r \in Requests, NEW x \in Sessions, Rotate(r, x) PROVE SignedKept(s)
  <2> DEFINE q == request[r]
             k == q.token
             row == Issued(q.user, session[k].family, q.now, session[k].ends, q.version,
                           session[k].password)
  <2>1. row.user = q.user /\ row.signed = q.version /\ q.version <= account[q.user].version
      BY <1>9 DEF Issued, Rotate, At, VersionsInv
  <2>2. /\ session[x].status = "UNUSED" /\ k \in Sessions /\ session[k].status # "UNUSED" /\ k # x
        /\ session' = [session EXCEPT ![k].status = "ROTATED", ![x] = row]
      BY <1>9 DEF Rotate, InheritedEnd, Consumable, Live, At, Consistent, RequestsInv
  <2> HIDE DEF row, q, k
  <2>3. /\ session'[x] = row /\ session'[k] = [session[k] EXCEPT !.status = "ROTATED"]
        /\ \A y \in Sessions \ {x, k} : session'[y] = session[y]
      BY <1>0, <2>2
  <2>4. session'[k].signed = session[k].signed
      BY <1>0, <2>2, <2>3 DEF SessionRow
  <2>5. CASE s = x
      BY <2>1, <2>2, <2>3, <2>5 DEF SignedKept
  <2>6. CASE s # x
      BY <2>2, <2>3, <2>4, <2>6 DEF SignedKept
  <2> QED
      BY <2>5, <2>6
<1>10. CASE \E r \in Requests : SessionStep(r)
  <2> PICK r \in Requests : SessionStep(r)
      BY <1>10
  <2>1. \/ UNCHANGED session
        \/ ReplayClaim(r)
        \/ ReplayCommit(r) \/ LogoutAllCommit(r) \/ ChangePasswordCommit(r)
        \/ \E x \in Sessions : LoginCommit(r, x)
        \/ \E x \in Sessions : Rotate(r, x)
      BY DEF SessionStep, RefreshRead, Authenticate, RefreshLoses, OpenRevocation
  <2> QED
      BY <1>1, <1>4, <1>5, <1>8, <1>9, <2>1
<1>11. CASE \E x \in Sessions : Logout(x)
    BY <1>2, <1>11 DEF Logout
<1>12. CASE \/ \E u \in Users, granted \in BOOLEAN : CreateStaff(u, granted)
            \/ \E r \in Requests, u \in Users : LoginRead(r, u)
            \/ \E r \in Requests, op \in StaffOps, u \in Users : LockStaff(r, op, u)
            \/ Tick
            \/ UNCHANGED vars
    BY <1>1, <1>12 DEF CreateStaff, LoginRead, LockStaff, Tick, vars
<1> QED
    BY <1>4, <1>5, <1>7, <1>10, <1>11, <1>12 DEF Next

\* What a login or a refresh read as the version is not ahead either.
LEMMA VersionsStep ==
    ASSUME Consistent, SweepsInv, VersionsInv, [Next]_vars
    PROVE  VersionsInv'
<1>0. /\ request \in [Requests -> RequestRow]
      /\ \A u \in Users : account[u].version \in Nat /\ account'[u].version \in Nat
      /\ \A s \in Sessions : session[s].signed \in Nat /\ session'[s].signed \in Nat
      /\ \A r \in Requests : request[r].version \in Nat /\ request'[r].version \in Nat
    BY StepTypes, BoundsAssumption DEF Consistent, TypeOK, AccountRow, SessionRow, RequestRow
<1>1. \A u \in Users : account[u].version <= account'[u].version
    BY VersionEffect DEF VersionKept
<1>2. ASSUME NEW s \in Sessions, session'[s].status # "UNUSED"
      PROVE  session'[s].signed <= account'[session'[s].user].version
  <2>1. session'[s].user \in Users
      BY <1>2, SessionsStep DEF SessionsInv
  <2>2. session'[s].signed <= account[session'[s].user].version
    <3>1. session[s].status # "UNUSED" => /\ session'[s].user = session[s].user
                                          /\ session[s].signed <= account[session[s].user].version
        BY SessionStays DEF VersionsInv
    <3> QED
        BY <1>2, <3>1, SignedEffect DEF SignedKept
  <2> QED
      BY <1>0, <1>1, <2>1, <2>2
<1>3. ASSUME NEW r \in Requests, request'[r].op \in {"LOGIN", "REFRESH"}
      PROVE  request'[r].version <= account'[request'[r].user].version
  <2>1. request'[r].user \in Users
      BY <1>3, RequestsStep DEF RequestsInv
  <2>2. request'[r].version <= account[request'[r].user].version
    <3>1. CASE Waits(r)
      <4>1. /\ request'[r].op = request[r].op /\ request'[r].user = request[r].user
            /\ request'[r].version = request[r].version
          BY <1>0, <3>1 DEF Waits, RequestRow
      <4> QED
          BY <1>3, <4>1 DEF VersionsInv
    <3>2. CASE \E u \in Users : LoginRead(r, u)
      <4>1. PICK u \in Users : LoginRead(r, u)
          BY <3>2
      <4>2. request'[r].version = account[u].version /\ request'[r].user = u
          BY <1>0, <4>1 DEF LoginRead, Idle
      <4> QED
          BY <1>0, <4>1, <4>2
    <3>3. CASE \E s \in Sessions : RefreshRead(r, s)
      <4>1. PICK s \in Sessions : RefreshRead(r, s)
          BY <3>3
      <4>2. request'[r].version = account[session[s].user].version /\ request'[r].user = session[s].user
          BY <1>0, <4>1 DEF RefreshRead, Present, Idle
      <4> QED
          BY <1>0, <2>1, <4>2
    <3>4. CASE \/ request'[r] = Idle
               \/ \E s \in Sessions, op \in SerializableOps : Authenticate(r, op, s)
               \/ RefreshLoses(r)
               \/ ReplayClaim(r)
               \/ OpenRevocation(r)
               \/ \E op \in StaffOps, u \in Users : LockStaff(r, op, u)
      <4>1. \/ request'[r] = Idle
            \/ request'[r].op \in SerializableOps \cup StaffOps \cup {"REPLAY"}
        <5>1. CASE ReplayClaim(r)
            BY <5>1, OwnStep
        <5>2. CASE RefreshLoses(r) \/ OpenRevocation(r)
            BY <5>2, OwnStep
        <5>3. CASE \/ \E s \in Sessions, op \in SerializableOps : Authenticate(r, op, s)
                   \/ \E op \in StaffOps, u \in Users : LockStaff(r, op, u)
            BY <5>3, OwnStep
        <5> QED
            BY <3>4, <5>1, <5>2, <5>3
      <4> QED
          BY <1>3, <4>1 DEF Idle, SerializableOps, StaffOps
    <3> QED
        BY <3>1, <3>2, <3>3, <3>4, RequestEffect DEF RequestStep
  <2> QED
      BY <1>0, <1>1, <2>1, <2>2
<1> QED
    BY <1>2, <1>3 DEF VersionsInv

\* No version is ever ahead of its account.
LEMMA VersionsInvariance == Spec => []VersionsInv
<1>1. ASSUME Init PROVE VersionsInv
    BY <1>1 DEF Init, VersionsInv, Unused, Idle
<1>2. IInv /\ VersionsInv /\ [Next]_vars => VersionsInv'
    BY VersionsStep DEF IInv
<1> QED
    BY <1>1, <1>2, Invariance, PTL DEF Spec

\* Raising the session version ends every access token of the account, and no
\* token that was refused is accepted again, whatever closes and opens the
\* account or ends slowly (authenticate and refresh of auth/service.ts,
\* updateStaff of admin/service.ts): versions never go back, a token is signed
\* with one that its request read, and every change of status raises it.
THEOREM AccessTokensEnd == Spec => AccessTokensDie
<1>1. ASSUME IInv, VersionsInv, [Next]_vars, NEW s \in Sessions, session[s].status # "UNUSED",
             Authenticates(s)'
      PROVE  Authenticates(s) /\ account'[session[s].user].version = account[session[s].user].version
  <2> DEFINE u == session[s].user
  <2>1. /\ session'[s].status = "LIVE" /\ session'[s].expires > clock' /\ session'[s].ends > clock'
        /\ account'[session'[s].user].status = "ACTIVE"
        /\ session'[s].signed = account'[session'[s].user].version
      BY <1>1 DEF Authenticates, Live, Unexpired, Active
  <2>2. /\ session'[s].user = u /\ session'[s].expires = session[s].expires
        /\ session'[s].ends = session[s].ends /\ session'[s].signed = session[s].signed
      BY <1>1, SessionStays, SignedEffect DEF IInv, SignedKept
  <2>3. Live(s)
      BY <1>1, <2>1, LiveOrigin DEF IInv, Opened, Replaced
  <2>4. u \in Users /\ account[u].status # "ABSENT" /\ VersionKept(u)
      BY <1>1, VersionEffect DEF IInv, Consistent, SessionsInv
  <2>5. /\ clock \in Int /\ clock' \in Int /\ clock <= clock'
        /\ session[s].expires \in Int /\ session[s].ends \in Int /\ session[s].signed \in Nat
        /\ account[u].version \in Nat /\ account'[u].version \in Nat
    <3>1. TypeOK /\ TypeOK'
        BY <1>1, StepTypes, BoundsAssumption DEF IInv, Consistent
    <3>2. clock' = clock \/ Tick
        BY <1>1 DEF Next, SessionStep, vars, RegisterSender, CreateStaff, LoginRead, LoginCommit,
              RefreshRead, Authenticate, Rotate, RefreshLoses, ReplayClaim, ReplayCommit, Logout,
              OpenRevocation, LogoutAllCommit, ChangePasswordCommit, LockStaff, StaffCommit, Abort
    <3> QED
        BY <2>4, <3>1, <3>2, BoundsAssumption DEF TypeOK, Tick, SessionRow, AccountRow
  <2>6. Unexpired(s, clock)
      BY <2>1, <2>2, <2>5 DEF Unexpired
  <2>7. account'[u].version = account[u].version /\ session[s].signed = account[u].version
      BY <1>1, <2>1, <2>2, <2>4, <2>5 DEF VersionsInv, VersionKept
  <2>8. Active(u)
      BY <2>1, <2>2, <2>4, <2>7 DEF VersionKept, Active
  <2> QED
      BY <2>3, <2>6, <2>7, <2>8 DEF Authenticates
<1>2. IInv /\ VersionsInv /\ [Next]_vars =>
        [\A s \in Sessions :
            LET u == session[s].user IN
            /\ session[s].status # "UNUSED"
            /\ ~Authenticates(s) \/ account'[u].version # account[u].version
            => ~Authenticates(s)']_vars
    BY <1>1
<1> QED
    BY <1>2, Invariance, VersionsInvariance, PTL DEF Spec, AccessTokensDie
=============================================================================
