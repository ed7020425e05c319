------------------------------ MODULE Browser ------------------------------
(***************************************************************************)
(* A browser signed in to the web portal: its tabs share the two session   *)
(* cookies, which the backend-for-frontend (apps/web/app/api) sets and     *)
(* clears, and each tab keeps one refresh under way (lib/api-client.ts).   *)
(* A cookie is read when a request is sent and changed when its answer     *)
(* arrives.  The API is reduced to what it says of a token; how it comes   *)
(* to say so is AuthSessions.                                              *)
(***************************************************************************)
EXTENDS Integers, FiniteSets

CONSTANTS
    Tabs,
    Calls,      \* uses of apiFetch at once
    Tab(_),     \* the tab of a call
    Tokens,     \* sessions, each with its access and its refresh token
    NoToken

ASSUME TabAssumption == \A c \in Calls : Tab(c) \in Tabs
ASSUME NoTokenAssumption == NoToken \notin Tokens

VARIABLES
    token,      \* what the API knows of each
    cookie,     \* the session in the access and in the refresh cookie
    call,       \* a use of apiFetch
    refresh,    \* refreshPromise of a tab
    logout,     \* the request that logs a tab out
    late,       \* refresh tokens sent by a request that nobody waits for any
                \* more, but that the API may yet serve
    presented,  \* the refresh tokens that each tab has sent and got answers for
    repeated    \* a tab has sent one of these again

browserVars == <<token, cookie, call, refresh, logout, late, presented, repeated>>

-----------------------------------------------------------------------------

NoCall == [stage |-> "IDLE", sent |-> NoToken, second |-> FALSE]

NoRequest == [stage |-> "NONE", sent |-> NoToken, outcome |-> "NONE", got |-> NoToken]

BrowserInit ==
    /\ token = [t \in Tokens |-> [status |-> "UNUSED", family |-> NoToken, fresh |-> TRUE]]
    /\ cookie = [access |-> NoToken, refresh |-> NoToken]
    /\ call = [c \in Calls |-> NoCall]
    /\ refresh = [b \in Tabs |-> NoRequest]
    /\ logout = [b \in Tabs |-> NoRequest]
    /\ late = {}
    /\ presented = [b \in Tabs |-> {}]
    /\ repeated = FALSE

Works(t) == t # NoToken /\ token[t].status = "LIVE"

NoCookies == [access |-> NoToken, refresh |-> NoToken]

BothCookies(t) == [access |-> t, refresh |-> t]

Ended(f) ==
    [t \in Tokens |->
        IF Works(t) /\ token[t].family = f THEN [token[t] EXCEPT !.status = "REVOKED"] ELSE token[t]]

Issues(tokens, t, f) == [tokens EXCEPT ![t] = [status |-> "LIVE", family |-> f, fresh |-> TRUE]]

-----------------------------------------------------------------------------
(* Signing in, and apiFetch *)

\* The login and register routes set both cookies.
SignedIn(t) ==
    /\ token[t].status = "UNUSED"
    /\ token' = Issues(token, t, t)
    /\ cookie' = BothCookies(t)
    /\ UNCHANGED <<call, refresh, logout, late, presented, repeated>>

Fetch(c) ==
    /\ call[c] = NoCall
    /\ call' = [call EXCEPT ![c] = [NoCall EXCEPT !.stage = "SENT", !.sent = cookie.access]]
    /\ UNCHANGED <<token, cookie, refresh, logout, late, presented, repeated>>

\* The proxy route refuses a call without a cookie, and the API one whose token
\* has expired or whose session has ended; it then has both cookies cleared.
\* Neither is taken back, so that it is decided when the answer arrives.
Denied(c) ==
    LET s == call[c].sent IN s # NoToken /\ ~(Works(s) /\ token[s].fresh)

Refused(c) == call[c].sent = NoToken \/ Denied(c)

Left(c) == IF Denied(c) THEN NoCookies ELSE cookie

\* A mistake the properties must catch: every 401 starts a refresh of its own.
AlwaysIdle(b) == TRUE

NotRefreshing(b) == refresh[b] = NoRequest

\* The answer arrives and is the last: also an error, or none in time.
Return(c) ==
    /\ call[c].stage = "SENT"
    /\ cookie' \in {cookie} \cup (IF call[c].second THEN {Left(c)} ELSE {})
    /\ call' = [call EXCEPT ![c] = NoCall]
    /\ UNCHANGED <<token, refresh, logout, late, presented, repeated>>

\* After the first 401 the call joins its tab's refresh, or starts it.
Reauthorize(c) ==
    LET b == Tab(c)
        s == Left(c).refresh
    IN
    /\ call[c].stage = "SENT" /\ Refused(c) /\ ~call[c].second
    /\ cookie' = Left(c)
    /\ call' = [call EXCEPT ![c] = [NoCall EXCEPT !.stage = "WAITING"]]
    /\ IF NotRefreshing(b)
       THEN /\ refresh' = [refresh EXCEPT ![b] = [NoRequest EXCEPT !.stage = "SENT", !.sent = s]]
            /\ presented' = [presented EXCEPT ![b] = @ \cup ({s} \ {NoToken})]
            /\ repeated' = (repeated \/ s \in presented[b])
       ELSE UNCHANGED <<refresh, presented, repeated>>
    /\ UNCHANGED <<token, logout, late>>

-----------------------------------------------------------------------------
(* The refresh route *)

\* What the API does with a refresh token, and what it answers.  It rotates one
\* that works, and takes one that was rotated for a replay, which ends the
\* family unless that was done before; it may fail before it does anything.
RefreshEffects(s) ==
    {[tokens |-> token, outcome |-> "ERROR", got |-> NoToken]}
    \cup (IF Works(s)
          THEN {[tokens |-> Issues([token EXCEPT ![s].status = "ROTATED"], t, token[s].family),
                 outcome |-> "OK", got |-> t] : t \in {x \in Tokens : token[x].status = "UNUSED"}}
          ELSE {[tokens |-> tokens, outcome |-> "DENIED", got |-> NoToken] :
                  tokens \in {token} \cup (IF token[s].status = "ROTATED"
                                          THEN {Ended(token[s].family)} ELSE {})})

\* Without a cookie the route refuses; and it gives up when the API takes long.
ServeRefresh(b) ==
    LET s == refresh[b].sent
        Says(outcome, t) ==
            refresh' = [refresh EXCEPT ![b].stage = "ANSWERED", ![b].outcome = outcome, ![b].got = t]
    IN
    /\ refresh[b].stage = "SENT"
    /\ \/ /\ s = NoToken
          /\ Says("NO_COOKIE", NoToken) /\ UNCHANGED <<token, late>>
       \/ /\ s # NoToken
          /\ \E e \in RefreshEffects(s) :
                /\ token' = e.tokens /\ Says(e.outcome, e.got)
          /\ UNCHANGED late
       \/ /\ s # NoToken
          /\ Says("TIMEOUT", NoToken) /\ late' = late \cup {s}
          /\ UNCHANGED token
    /\ UNCHANGED <<cookie, call, logout, presented, repeated>>

\* Any answer of the API but a session clears the cookies; without an answer
\* they stay.  The calls that waited are sent again or fail.
RefreshArrives(b) ==
    LET outcome == refresh[b].outcome
        kept == IF outcome = "OK" THEN BothCookies(refresh[b].got)
                ELSE IF outcome \in {"DENIED", "ERROR"} THEN NoCookies ELSE cookie
        Next(c) == IF outcome = "OK"
                   THEN [NoCall EXCEPT !.stage = "SENT", !.sent = kept.access, !.second = TRUE]
                   ELSE NoCall
    IN
    /\ refresh[b].stage = "ANSWERED"
    /\ cookie' = kept
    /\ refresh' = [refresh EXCEPT ![b] = NoRequest]
    /\ call' = [c \in Calls |->
                  IF Tab(c) = b /\ call[c].stage = "WAITING" THEN Next(c) ELSE call[c]]
    /\ presented' = IF outcome = "TIMEOUT"
                    THEN [presented EXCEPT ![b] = @ \ {refresh[b].sent}] ELSE presented
    /\ UNCHANGED <<token, logout, late, repeated>>

-----------------------------------------------------------------------------
(* The logout route *)

LogOut(b) ==
    /\ logout[b] = NoRequest
    /\ logout' = [logout EXCEPT ![b] = [NoRequest EXCEPT !.stage = "SENT", !.sent = cookie.refresh]]
    /\ UNCHANGED <<token, cookie, call, refresh, late, presented, repeated>>

\* The API revokes the session if it still works, and that is a success in any
\* case.
LoggedOut(s) == IF Works(s) THEN [token EXCEPT ![s].status = "REVOKED"] ELSE token

\* The API may fail, and its answer may come too late.
ServeLogout(b) ==
    LET s == logout[b].sent IN
    /\ logout[b].stage = "SENT"
    /\ \E outcome \in {"OK", "ERROR"} :
          /\ s = NoToken => outcome = "OK"
          /\ token' \in {LoggedOut(s)} \cup (IF outcome = "ERROR" THEN {token} ELSE {})
          /\ logout' = [logout EXCEPT ![b].stage = "ANSWERED", ![b].outcome = outcome]
    /\ UNCHANGED <<cookie, call, refresh, late, presented, repeated>>

\* A mistake the properties must catch: the cookies are cleared in any case.
ClearsAlways(b) == TRUE

\* The API's answer was a success.
Clears(b) == logout[b].outcome = "OK"

LogoutArrives(b) ==
    /\ logout[b].stage = "ANSWERED"
    /\ cookie' = IF Clears(b) THEN NoCookies ELSE cookie
    /\ logout' = [logout EXCEPT ![b] = NoRequest]
    /\ UNCHANGED <<token, call, refresh, late, presented, repeated>>

-----------------------------------------------------------------------------

\* The page is left: its requests go on, but their answers are never taken.
\* (A logout that is served late ends a session as EndElsewhere does.)
Reload(b) ==
    /\ call' = [c \in Calls |-> IF Tab(c) = b THEN NoCall ELSE call[c]]
    /\ refresh' = [refresh EXCEPT ![b] = NoRequest]
    /\ logout' = [logout EXCEPT ![b] = NoRequest]
    /\ late' = late \cup (IF refresh[b].stage = "SENT" THEN {refresh[b].sent} \ {NoToken} ELSE {})
    /\ presented' = [presented EXCEPT ![b] = @ \ {refresh[b].sent}]
    /\ UNCHANGED <<token, cookie, repeated>>

ServeLate(s) ==
    /\ s \in late
    /\ \E e \in RefreshEffects(s) : token' = e.tokens
    /\ late' = late \ {s}
    /\ UNCHANGED <<cookie, call, refresh, logout, presented, repeated>>

\* A family ends elsewhere: another device, an administrator.
EndElsewhere(t) ==
    /\ Works(t)
    /\ token' = Ended(token[t].family)
    /\ UNCHANGED <<cookie, call, refresh, logout, late, presented, repeated>>

\* The access token expires at the API, and its cookie in the browser.
AccessExpires(t) ==
    /\ Works(t) /\ token[t].fresh
    /\ token' = [token EXCEPT ![t].fresh = FALSE]
    /\ UNCHANGED <<cookie, call, refresh, logout, late, presented, repeated>>

AccessCookieExpires ==
    /\ cookie.access # NoToken
    /\ cookie' = [cookie EXCEPT !.access = NoToken]
    /\ UNCHANGED <<token, call, refresh, logout, late, presented, repeated>>

BrowserNext ==
    \/ \E t \in Tokens : SignedIn(t)
    \/ \E c \in Calls : Fetch(c)
    \/ \E c \in Calls : Return(c)
    \/ \E c \in Calls : Reauthorize(c)
    \/ \E b \in Tabs : ServeRefresh(b)
    \/ \E b \in Tabs : RefreshArrives(b)
    \/ \E b \in Tabs : LogOut(b)
    \/ \E b \in Tabs : ServeLogout(b)
    \/ \E b \in Tabs : LogoutArrives(b)
    \/ \E b \in Tabs : Reload(b)
    \/ \E s \in Tokens : ServeLate(s)
    \/ \E t \in Tokens : EndElsewhere(t)
    \/ \E t \in Tokens : AccessExpires(t)
    \/ AccessCookieExpires

BrowserSpec == BrowserInit /\ [][BrowserNext]_browserVars

-----------------------------------------------------------------------------
(* Properties *)

\* However many calls of a tab get a 401 at once, the tab presents a refresh
\* token once, unless it never got the answer: a second time would be taken for
\* a replay and end the session.
TokenPresentedOnce == ~repeated

\* When logout clears the cookies, their session does not work any more.
SessionEndsBeforeItsCookies ==
    [][\A b \in Tabs : LogoutArrives(b) /\ Clears(b) => ~Works(logout[b].sent)]_browserVars

\* docs/design/MILESTONE_3.md: logout clears browser credentials only after
\* server-side session revocation succeeds.  The session is the family.
LogoutEndsFamily ==
    [][\A b \in Tabs : LogoutArrives(b) /\ cookie' = NoCookies /\ logout[b].sent # NoToken =>
          \A t \in Tokens : token[t].family = token[logout[b].sent].family => ~Works(t)]_browserVars
=============================================================================
