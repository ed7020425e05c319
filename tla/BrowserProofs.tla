---------------------------- MODULE BrowserProofs ----------------------------
(***************************************************************************)
(* The browser of Browser, for any number of tabs, calls and tokens: a tab *)
(* presents a refresh token once, and the cookies that logout clears are   *)
(* those of a session that has ended.  Both rest on two facts about the    *)
(* shared cookie: while it holds a token that a tab has presented, this    *)
(* tab's refresh with it is under way; and a token that a refresh brings   *)
(* is new to the cookie and to every tab.                                  *)
(***************************************************************************)
EXTENDS Browser, TLAPS

SomeToken == Tokens \cup {NoToken}

TokenRow ==
    [status : {"UNUSED", "LIVE", "ROTATED", "REVOKED"}, family : SomeToken, fresh : BOOLEAN]

RequestRow ==
    [stage : {"NONE", "SENT", "ANSWERED"}, sent : SomeToken, got : SomeToken,
     outcome : {"NONE", "OK", "DENIED", "ERROR", "NO_COOKIE", "TIMEOUT"}]

CookieRow == [access : SomeToken, refresh : SomeToken]

BrowserTypes ==
    /\ token \in [Tokens -> TokenRow]
    /\ cookie \in CookieRow
    /\ refresh \in [Tabs -> RequestRow]
    /\ logout \in [Tabs -> RequestRow]
    /\ late \subseteq Tokens
    /\ presented \in [Tabs -> SUBSET Tokens]
    /\ repeated \in BOOLEAN

-----------------------------------------------------------------------------
(* The invariant *)

\* The API has issued the token, if it is one.
Used(tokens, t) == t # NoToken => tokens[t].status # "UNUSED"

\* Nothing on the browser's side was made up.
AllIssued ==
    /\ Used(token, cookie.refresh)
    /\ \A b \in Tabs : /\ Used(token, refresh[b].sent) /\ Used(token, refresh[b].got)
                       /\ Used(token, logout[b].sent)
    /\ \A t \in late : Used(token, t)
    /\ \A b \in Tabs : \A t \in presented[b] : Used(token, t)

\* What a tab has presented stays in the cookie only until its answer.
PresentedIsPending ==
    \A b \in Tabs :
        cookie.refresh \in presented[b] => refresh[b] # NoRequest /\ refresh[b].sent = cookie.refresh

Renewed(b) == refresh[b].stage = "ANSWERED" /\ refresh[b].outcome = "OK"

\* The token that a refresh brings was seen nowhere before.
RenewalsAreNew ==
    \A b \in Tabs : Renewed(b) =>
        /\ refresh[b].got \in Tokens /\ refresh[b].got # cookie.refresh
        /\ \A o \in Tabs : refresh[b].got \notin presented[o]
        /\ \A o \in Tabs \ {b} : Renewed(o) => refresh[o].got # refresh[b].got

\* An answer has an outcome; the route answers for the API when there is no
\* cookie, and only then.
AnswersFit ==
    \A b \in Tabs :
        /\ refresh[b].stage = "ANSWERED" => refresh[b].outcome # "NONE"
        /\ refresh[b].outcome = "NO_COOKIE" => refresh[b].sent = NoToken

\* A logout that succeeded has ended its session.
LogoutsEnded ==
    \A b \in Tabs : logout[b].outcome = "OK" =>
        logout[b].sent = NoToken \/ token[logout[b].sent].status \in {"ROTATED", "REVOKED"}

BrowserInv ==
    /\ BrowserTypes
    /\ AllIssued
    /\ PresentedIsPending
    /\ RenewalsAreNew
    /\ AnswersFit
    /\ LogoutsEnded
    /\ TokenPresentedOnce

-----------------------------------------------------------------------------
(* The tokens *)

\* A token is issued once, and one that has ended does not work again.
Follows(tokens) ==
    /\ tokens \in [Tokens -> TokenRow]
    /\ \A t \in Tokens :
          /\ token[t].status # "UNUSED" => tokens[t].status # "UNUSED"
          /\ token[t].status \in {"ROTATED", "REVOKED"} => tokens[t].status \in {"ROTATED", "REVOKED"}

\* Ending a family only ends tokens.
LEMMA EndedFollows ==
    ASSUME token \in [Tokens -> TokenRow], NEW f
    PROVE  Follows(Ended(f))
BY DEF Follows, Ended, Works, TokenRow

\* A token is issued that was not used before.
LEMMA IssuedFollows ==
    ASSUME token \in [Tokens -> TokenRow], NEW t \in Tokens, token[t].status = "UNUSED",
           NEW f \in SomeToken
    PROVE  /\ Follows(Issues(token, t, f))
           /\ Issues(token, t, f)[t].status = "LIVE"
<1> DEFINE row == [status |-> "LIVE", family |-> f, fresh |-> TRUE]
<1>1. row \in TokenRow /\ row.status = "LIVE"
    BY DEF TokenRow
<1>2. Issues(token, t, f) = [token EXCEPT ![t] = row]
    BY DEF Issues
<1> HIDE DEF row
<1> QED
    BY <1>1, <1>2 DEF Follows

\* What the API does with a refresh token, and with which answer: a session it
\* answers with is one that it issues now.
LEMMA RefreshFollows ==
    ASSUME token \in [Tokens -> TokenRow], NEW s \in Tokens, NEW e \in RefreshEffects(s)
    PROVE  /\ Follows(e.tokens)
           /\ e.outcome \in {"OK", "DENIED", "ERROR"} /\ e.got \in SomeToken
           /\ e.outcome = "OK" =>
                /\ e.got \in Tokens /\ token[e.got].status = "UNUSED"
                /\ e.tokens[e.got].status # "UNUSED"
           /\ e.outcome # "OK" => e.got = NoToken
<1>1. CASE e = [tokens |-> token, outcome |-> "ERROR", got |-> NoToken]
    BY <1>1 DEF Follows, SomeToken
<1>2. ASSUME Works(s), NEW t \in Tokens, token[t].status = "UNUSED",
             e = [tokens |-> Issues([token EXCEPT ![s].status = "ROTATED"], t, token[s].family),
                  outcome |-> "OK", got |-> t]
      PROVE  Follows(e.tokens) /\ e.tokens[t].status # "UNUSED"
  <2> DEFINE row == [status |-> "LIVE", family |-> token[s].family, fresh |-> TRUE]
             old == [token[s] EXCEPT !.status = "ROTATED"]
  <2>1. row \in TokenRow /\ row.status = "LIVE" /\ old \in TokenRow /\ old.status = "ROTATED"
      BY DEF TokenRow
  <2>2. s # t /\ token[s].status = "LIVE"
      BY <1>2 DEF Works
  <2>3. e.tokens = [[token EXCEPT ![s] = old] EXCEPT ![t] = row]
      BY <1>2 DEF Issues
  <2> HIDE DEF row, old
  <2>4. /\ e.tokens \in [Tokens -> TokenRow]
        /\ \A x \in Tokens : e.tokens[x] = IF x = t THEN row ELSE IF x = s THEN old ELSE token[x]
      BY <2>1, <2>2, <2>3
  <2> QED
      BY <1>2, <2>1, <2>2, <2>4 DEF Follows
<1>3. ASSUME NEW tokens \in {token, Ended(token[s].family)},
             e = [tokens |-> tokens, outcome |-> "DENIED", got |-> NoToken]
      PROVE  Follows(e.tokens) /\ e.outcome = "DENIED" /\ e.got = NoToken
    BY <1>3, EndedFollows DEF Follows
<1>4. \/ e = [tokens |-> token, outcome |-> "ERROR", got |-> NoToken]
      \/ \E t \in Tokens :
            /\ Works(s) /\ token[t].status = "UNUSED"
            /\ e = [tokens |-> Issues([token EXCEPT ![s].status = "ROTATED"], t, token[s].family),
                    outcome |-> "OK", got |-> t]
      \/ \E tokens \in {token, Ended(token[s].family)} :
            e = [tokens |-> tokens, outcome |-> "DENIED", got |-> NoToken]
    BY DEF RefreshEffects
<1>5. CASE \E t \in Tokens :
            /\ Works(s) /\ token[t].status = "UNUSED"
            /\ e = [tokens |-> Issues([token EXCEPT ![s].status = "ROTATED"], t, token[s].family),
                    outcome |-> "OK", got |-> t]
  <2> PICK t \in Tokens :
            /\ Works(s) /\ token[t].status = "UNUSED"
            /\ e = [tokens |-> Issues([token EXCEPT ![s].status = "ROTATED"], t, token[s].family),
                    outcome |-> "OK", got |-> t]
      BY <1>5
  <2>1. Follows(e.tokens) /\ e.tokens[t].status # "UNUSED"
      BY <1>2
  <2>2. e.outcome = "OK" /\ e.got = t
      OBVIOUS
  <2> QED
      BY <2>1, <2>2 DEF SomeToken
<1>6. CASE \E tokens \in {token, Ended(token[s].family)} :
            e = [tokens |-> tokens, outcome |-> "DENIED", got |-> NoToken]
    BY <1>3, <1>6 DEF SomeToken
<1> QED
    BY <1>1, <1>4, <1>5, <1>6

-----------------------------------------------------------------------------
(* The steps *)

\* A token that was issued stays so.
LEMMA UsedStays ==
    ASSUME NEW t \in SomeToken, Used(token, t), Follows(token')
    PROVE  Used(token', t)
BY DEF Used, Follows, SomeToken

\* A logout that ended its session stays true.
LEMMA LogoutsStay ==
    ASSUME BrowserInv, Follows(token'), UNCHANGED logout
    PROVE  LogoutsEnded' /\ \A b \in Tabs : Used(token', logout'[b].sent)
<1>1. \A b \in Tabs : logout[b] \in RequestRow /\ logout[b].sent \in SomeToken /\ Used(token, logout[b].sent)
    BY DEF BrowserInv, BrowserTypes, AllIssued, RequestRow
<1>2. \A b \in Tabs : Used(token', logout'[b].sent)
    BY <1>1 DEF Used, Follows, SomeToken
<1> QED
    BY <1>1, <1>2 DEF BrowserInv, LogoutsEnded, Follows, SomeToken

\* While the refreshes are left alone, the cookie may take any token that was
\* not presented and that no refresh is bringing.
LEMMA CookieStep ==
    ASSUME BrowserInv, Follows(token'), UNCHANGED <<refresh, presented, repeated>>,
           late' \subseteq late, cookie' \in CookieRow, Used(token', cookie'.refresh),
           \/ cookie'.refresh = cookie.refresh
           \/ \A b \in Tabs : /\ cookie'.refresh \notin presented[b]
                              /\ Renewed(b) => refresh[b].got # cookie'.refresh,
           logout' \in [Tabs -> RequestRow], LogoutsEnded', \A b \in Tabs : Used(token', logout'[b].sent)
    PROVE  BrowserInv'
<1>1. BrowserTypes'
    BY DEF BrowserInv, BrowserTypes, Follows
<1>2. AllIssued'
  <2>1. /\ \A b \in Tabs : /\ refresh[b].sent \in SomeToken /\ refresh[b].got \in SomeToken
                           /\ presented[b] \subseteq SomeToken
        /\ late \subseteq SomeToken
      BY DEF BrowserInv, BrowserTypes, RequestRow, SomeToken
  <2> QED
      BY <2>1, UsedStays DEF BrowserInv, AllIssued
<1>3. PresentedIsPending'
    BY DEF BrowserInv, PresentedIsPending
<1>4. RenewalsAreNew'
    BY DEF BrowserInv, RenewalsAreNew, Renewed
<1>5. AnswersFit' /\ TokenPresentedOnce'
    BY DEF BrowserInv, AnswersFit, TokenPresentedOnce
<1> QED
    BY <1>1, <1>2, <1>3, <1>4, <1>5 DEF BrowserInv

\* NoToken was never presented, nor does a refresh bring it.
LEMMA NoTokenIsFree ==
    ASSUME BrowserInv
    PROVE  \A b \in Tabs : NoToken \notin presented[b] /\ (Renewed(b) => refresh[b].got # NoToken)
BY NoTokenAssumption DEF BrowserInv, BrowserTypes, RenewalsAreNew

\* Nothing but a token, or the removal of cookies, changes.
LEMMA QuietStep ==
    ASSUME BrowserInv, Follows(token'), UNCHANGED <<refresh, logout, presented, repeated>>,
           late' \subseteq late, cookie' \in CookieRow, cookie'.refresh \in {cookie.refresh, NoToken}
    PROVE  BrowserInv'
<1>1. cookie.refresh \in SomeToken /\ Used(token, cookie.refresh)
    BY DEF BrowserInv, BrowserTypes, AllIssued, CookieRow
<1>2. Used(token', cookie'.refresh)
    BY <1>1, UsedStays DEF Used
<1>3. logout' \in [Tabs -> RequestRow]
    BY DEF BrowserInv, BrowserTypes
<1> QED
    BY <1>2, <1>3, NoTokenIsFree, LogoutsStay, CookieStep

\* Without a change of its own, a token follows itself.
LEMMA Unchanging == ASSUME BrowserInv PROVE Follows(token) /\ NoCookies \in CookieRow
BY DEF BrowserInv, BrowserTypes, Follows, NoCookies, CookieRow, SomeToken

\* A tab signs in with a token that is new to all.
LEMMA SignedInStep ==
    ASSUME BrowserInv, NEW t \in Tokens, SignedIn(t)
    PROVE  BrowserInv'
<1>1. /\ token[t].status = "UNUSED" /\ token' = Issues(token, t, t) /\ cookie' = BothCookies(t)
      /\ UNCHANGED <<refresh, logout, late, presented, repeated>>
    BY DEF SignedIn
<1>2. Follows(token') /\ token'[t].status = "LIVE"
    BY <1>1, IssuedFollows DEF BrowserInv, BrowserTypes, SomeToken
<1>3. cookie' \in CookieRow /\ cookie'.refresh = t
    BY <1>1 DEF BothCookies, CookieRow, SomeToken
<1>4. ~Used(token, t)
    BY <1>1, NoTokenAssumption DEF Used
<1>5. \A b \in Tabs : t \notin presented[b] /\ (Renewed(b) => refresh[b].got # t)
    BY <1>4 DEF BrowserInv, AllIssued
<1>6. Used(token', cookie'.refresh)
    BY <1>2, <1>3 DEF Used
<1>7. logout' \in [Tabs -> RequestRow]
    BY <1>1 DEF BrowserInv, BrowserTypes
<1> QED
    BY <1>1, <1>2, <1>3, <1>5, <1>6, <1>7, LogoutsStay, CookieStep

\* A tab's logout moves on: the cookies stay, or go.
LEMMA LogoutStep ==
    ASSUME BrowserInv, NEW b \in Tabs, LogOut(b) \/ ServeLogout(b) \/ LogoutArrives(b)
    PROVE  BrowserInv'
<1>0. /\ token \in [Tokens -> TokenRow] /\ cookie \in CookieRow
      /\ logout \in [Tabs -> RequestRow] /\ logout[b] \in RequestRow
      /\ Used(token, cookie.refresh) /\ \A x \in Tabs : Used(token, logout[x].sent)
      /\ UNCHANGED <<refresh, late, presented, repeated>>
    BY DEF BrowserInv, BrowserTypes, AllIssued, LogOut, ServeLogout, LogoutArrives
<1>1. NoRequest \in RequestRow /\ NoRequest.outcome = "NONE" /\ NoRequest.sent = NoToken
    BY DEF NoRequest, RequestRow, SomeToken
<1>2. SUFFICES ASSUME NEW row \in RequestRow, logout' = [logout EXCEPT ![b] = row], Follows(token'),
                      Used(token, row.sent), cookie' \in {cookie, NoCookies},
                      row.outcome = "OK" =>
                          \/ row.sent = NoToken
                          \/ token'[row.sent].status \in {"ROTATED", "REVOKED"}
               PROVE  BrowserInv'
  <2>1. CASE LogOut(b)
    <3> DEFINE row == [NoRequest EXCEPT !.stage = "SENT", !.sent = cookie.refresh]
    <3>1. row \in RequestRow /\ row.outcome = "NONE" /\ row.sent = cookie.refresh
        BY <1>0, <1>1 DEF RequestRow, CookieRow
    <3>2. logout' = [logout EXCEPT ![b] = row] /\ token' = token /\ cookie' = cookie
        BY <2>1 DEF LogOut
    <3> HIDE DEF row
    <3> QED
        BY <1>0, <1>2, <3>1, <3>2, Unchanging
  <2>2. CASE ServeLogout(b)
    <3> PICK outcome \in {"OK", "ERROR"} :
            /\ token' \in {LoggedOut(logout[b].sent)} \cup (IF outcome = "ERROR" THEN {token} ELSE {})
            /\ logout' = [logout EXCEPT ![b].stage = "ANSWERED", ![b].outcome = outcome]
        BY <2>2 DEF ServeLogout
    <3> DEFINE s == logout[b].sent
               row == [logout[b] EXCEPT !.stage = "ANSWERED", !.outcome = outcome]
    <3>1. row \in RequestRow /\ row.sent = s /\ row.outcome = outcome /\ s \in SomeToken /\ Used(token, s)
        BY <1>0 DEF RequestRow
    <3>2. logout' = [logout EXCEPT ![b] = row] /\ cookie' = cookie
        BY <2>2 DEF ServeLogout
    <3>3. /\ Follows(LoggedOut(s))
          /\ s # NoToken => LoggedOut(s)[s].status \in {"ROTATED", "REVOKED"}
        BY <1>0, <3>1 DEF LoggedOut, Works, Follows, TokenRow, SomeToken, Used
    <3> HIDE DEF row, s
    <3> QED
        BY <1>2, <3>1, <3>2, <3>3, Unchanging DEF s
  <2>3. CASE LogoutArrives(b)
    <3>1. logout' = [logout EXCEPT ![b] = NoRequest] /\ token' = token /\ cookie' \in {cookie, NoCookies}
        BY <2>3 DEF LogoutArrives
    <3> QED
        BY <1>1, <1>2, <3>1, Unchanging DEF Used
  <2> QED
      BY <2>1, <2>2, <2>3
<1>3. cookie' \in CookieRow /\ cookie'.refresh \in {cookie.refresh, NoToken} /\ Used(token', cookie'.refresh)
  <2>1. cookie' \in CookieRow /\ cookie'.refresh \in {cookie.refresh, NoToken} /\ cookie.refresh \in SomeToken
      BY <1>0, <1>2, Unchanging DEF NoCookies, CookieRow
  <2> QED
      BY <1>0, <1>2, <2>1, UsedStays DEF Used
<1>4. logout' \in [Tabs -> RequestRow] /\ \A x \in Tabs : logout'[x] = IF x = b THEN row ELSE logout[x]
    BY <1>0, <1>2
<1>5. \A x \in Tabs : Used(token', logout'[x].sent)
  <2>1. \A x \in Tabs : logout'[x].sent \in SomeToken /\ Used(token, logout'[x].sent)
      BY <1>0, <1>2, <1>4 DEF RequestRow
  <2> QED
      BY <1>2, <2>1, UsedStays DEF Used
<1>6. LogoutsEnded'
  <2>1. \A x \in Tabs : logout[x].outcome = "OK" =>
            logout[x].sent = NoToken \/ token'[logout[x].sent].status \in {"ROTATED", "REVOKED"}
      BY <1>0, <1>2 DEF BrowserInv, LogoutsEnded, Follows, RequestRow, SomeToken
  <2> QED
      BY <1>2, <1>4, <2>1 DEF LogoutsEnded
<1> QED
    BY <1>0, <1>2, <1>3, <1>4, <1>5, <1>6, NoTokenIsFree, CookieStep

\* The refresh of the tab b becomes row, and P is what it has presented: what
\* this asks of the cookie and of the tokens.
RefreshFits(b, row, P) ==
    /\ row \in RequestRow /\ refresh' = [refresh EXCEPT ![b] = row]
    /\ P \in SUBSET Tokens /\ presented' = [presented EXCEPT ![b] = P]
    /\ late' \in SUBSET Tokens /\ \A t \in late' : Used(token', t)
    /\ cookie' \in CookieRow /\ Used(token', cookie'.refresh)
    /\ Used(token', row.sent) /\ Used(token', row.got) /\ \A t \in P : Used(token', t)
    /\ row.outcome = "NO_COOKIE" => row.sent = NoToken
    /\ row.stage = "ANSWERED" => row.outcome # "NONE"
    /\ cookie'.refresh \in P => row # NoRequest /\ row.sent = cookie'.refresh
    /\ \/ cookie'.refresh = cookie.refresh
       \/ \A o \in Tabs \ {b} : /\ cookie'.refresh \notin presented[o]
                                /\ Renewed(o) => refresh[o].got # cookie'.refresh
    /\ \A o \in Tabs \ {b}, t \in P : Renewed(o) => refresh[o].got # t
    /\ row.stage = "ANSWERED" /\ row.outcome = "OK" =>
          /\ row.got \in Tokens /\ row.got # cookie'.refresh /\ row.got \notin P
          /\ \A o \in Tabs \ {b} : /\ row.got \notin presented[o]
                                   /\ Renewed(o) => refresh[o].got # row.got

\* Then the invariant is kept.
LEMMA RefreshStep ==
    ASSUME BrowserInv, Follows(token'), UNCHANGED repeated,
           logout' \in [Tabs -> RequestRow], LogoutsEnded', \A b \in Tabs : Used(token', logout'[b].sent),
           NEW b \in Tabs, NEW row, NEW P, RefreshFits(b, row, P)
    PROVE  BrowserInv'
<1> USE DEF RefreshFits
<1>0. /\ refresh \in [Tabs -> RequestRow] /\ presented \in [Tabs -> SUBSET Tokens]
      /\ repeated \in BOOLEAN
    BY DEF BrowserInv, BrowserTypes
<1>1. /\ refresh' \in [Tabs -> RequestRow] /\ presented' \in [Tabs -> SUBSET Tokens]
      /\ \A o \in Tabs : /\ refresh'[o] = IF o = b THEN row ELSE refresh[o]
                         /\ presented'[o] = IF o = b THEN P ELSE presented[o]
    BY <1>0
<1>2. BrowserTypes'
    BY <1>0, <1>1 DEF BrowserTypes, Follows
<1>3. AllIssued'
  <2>1. \A o \in Tabs : /\ refresh[o].sent \in SomeToken /\ refresh[o].got \in SomeToken
                        /\ presented[o] \subseteq SomeToken
                        /\ Used(token, refresh[o].sent) /\ Used(token, refresh[o].got)
                        /\ \A t \in presented[o] : Used(token, t)
      BY <1>0 DEF BrowserInv, AllIssued, RequestRow, SomeToken
  <2>2. \A o \in Tabs : /\ Used(token', refresh'[o].sent) /\ Used(token', refresh'[o].got)
                        /\ \A t \in presented'[o] : Used(token', t)
    <3> SUFFICES ASSUME NEW o \in Tabs
                 PROVE  /\ Used(token', refresh'[o].sent) /\ Used(token', refresh'[o].got)
                        /\ \A t \in presented'[o] : Used(token', t)
        OBVIOUS
    <3>1. CASE o = b
        BY <1>1, <3>1 DEF Used
    <3>2. CASE o # b
      <4>1. refresh'[o] = refresh[o] /\ presented'[o] = presented[o]
          BY <1>1, <3>2
      <4>2. \A t \in SomeToken : Used(token, t) => (t # NoToken => token'[t].status # "UNUSED")
          BY DEF Used, Follows, SomeToken
      <4> QED
          BY <2>1, <4>1, <4>2 DEF Used
    <3> QED
        BY <3>1, <3>2
  <2> QED
      BY <2>2 DEF AllIssued
<1>4. PresentedIsPending'
  <2> SUFFICES ASSUME NEW o \in Tabs, cookie'.refresh \in presented'[o]
               PROVE  refresh'[o] # NoRequest /\ refresh'[o].sent = cookie'.refresh
      BY DEF PresentedIsPending
  <2>1. CASE o = b
      BY <1>1, <2>1
  <2>2. CASE o # b
      BY <1>1, <2>2 DEF BrowserInv, PresentedIsPending
  <2> QED
      BY <2>1, <2>2
<1>5. RenewalsAreNew'
  <2>1. \A o \in Tabs : Renewed(o)' <=>
            IF o = b THEN row.stage = "ANSWERED" /\ row.outcome = "OK" ELSE Renewed(o)
      BY <1>1 DEF Renewed
  <2>2. \A o \in Tabs \ {b} : Renewed(o) =>
            /\ refresh[o].got \in Tokens /\ refresh[o].got # cookie.refresh
            /\ \A x \in Tabs : refresh[o].got \notin presented[x]
            /\ \A x \in Tabs \ {o} : Renewed(x) => refresh[x].got # refresh[o].got
      BY DEF BrowserInv, RenewalsAreNew
  <2> SUFFICES ASSUME NEW o \in Tabs, Renewed(o)'
               PROVE  /\ refresh'[o].got \in Tokens /\ refresh'[o].got # cookie'.refresh
                      /\ \A x \in Tabs : refresh'[o].got \notin presented'[x]
                      /\ \A x \in Tabs \ {o} : Renewed(x)' => refresh'[x].got # refresh'[o].got
      BY DEF RenewalsAreNew
  <2>3. CASE o = b
    <3>1. refresh'[o] = row /\ row.stage = "ANSWERED" /\ row.outcome = "OK"
        BY <1>1, <2>1, <2>3
    <3>2. /\ row.got \in Tokens /\ row.got # cookie'.refresh /\ row.got \notin P
          /\ \A x \in Tabs \ {b} : row.got \notin presented[x] /\ (Renewed(x) => refresh[x].got # row.got)
        BY <3>1
    <3> QED
        BY <1>1, <2>1, <2>3, <3>1, <3>2
  <2>4. CASE o # b
      BY <1>1, <2>1, <2>2, <2>4
  <2> QED
      BY <2>3, <2>4
<1>6. AnswersFit' /\ TokenPresentedOnce'
    BY <1>1 DEF BrowserInv, AnswersFit, TokenPresentedOnce
<1> QED
    BY <1>2, <1>3, <1>4, <1>5, <1>6 DEF BrowserInv

\* A call joins its tab's refresh or starts it, with the token of the cookie.
LEMMA ReauthorizeStep ==
    ASSUME BrowserInv, NEW c \in Calls, Reauthorize(c)
    PROVE  BrowserInv'
<1> DEFINE b == Tab(c)
           s == Left(c).refresh
           row == [NoRequest EXCEPT !.stage = "SENT", !.sent = s]
           P == presented[b] \cup ({s} \ {NoToken})
<1>0. /\ cookie \in CookieRow /\ cookie.refresh \in SomeToken /\ Used(token, cookie.refresh) /\ b \in Tabs
      /\ token' = token /\ UNCHANGED <<logout, late>> /\ cookie' = Left(c) /\ late \subseteq Tokens
      /\ presented \in [Tabs -> SUBSET Tokens] /\ \A t \in late \cup presented[b] : Used(token, t)
    BY TabAssumption DEF BrowserInv, BrowserTypes, AllIssued, CookieRow, Reauthorize
<1>1. Left(c) \in CookieRow /\ s \in {cookie.refresh, NoToken} /\ s \in SomeToken /\ Used(token, s)
    BY <1>0, Unchanging DEF Left, NoCookies, Used, SomeToken
<1>2. CASE ~NotRefreshing(b)
  <2>1. UNCHANGED <<refresh, presented, repeated>>
      BY <1>2 DEF Reauthorize
  <2> QED
      BY <1>0, <1>1, <2>1, Unchanging, QuietStep
<1>3. CASE NotRefreshing(b)
  <2>1. /\ refresh' = [refresh EXCEPT ![b] = row] /\ presented' = [presented EXCEPT ![b] = P]
        /\ repeated' = (repeated \/ s \in presented[b])
      BY <1>3 DEF Reauthorize
  <2>2. s \notin presented[b]
      BY <1>1, <1>3, NoTokenIsFree, <1>0 DEF NotRefreshing, BrowserInv, PresentedIsPending
  <2>3. /\ row \in RequestRow /\ row.stage = "SENT" /\ row.sent = s /\ row.got = NoToken
        /\ row.outcome = "NONE" /\ row # NoRequest
      BY <1>1 DEF NoRequest, RequestRow, SomeToken
  <2>4. P \in SUBSET Tokens /\ \A t \in P : Used(token, t)
      BY <1>0, <1>1 DEF SomeToken
  <2>5. \A o \in Tabs \ {b}, t \in P : Renewed(o) => refresh[o].got # t
      BY <1>0, <1>1 DEF BrowserInv, RenewalsAreNew
  <2>6. s \in P => row.sent = s
      BY <2>3
  <2>7. s = cookie.refresh \/ s = NoToken
      BY <1>1
  <2> HIDE DEF row, P, b
  <2>8. repeated' = repeated
      BY <2>1, <2>2 DEF BrowserInv, BrowserTypes
  <2>9. Used(token, NoToken)
      BY DEF Used
  <2>10. \A t : Used(token, t) => Used(token', t)
      BY <1>0 DEF Used
  <2>11. Used(token', cookie'.refresh)
      BY <1>0, <1>1 DEF Used
  <2>12. RefreshFits(b, row, P)
      BY <1>0, <1>1, <2>1, <2>3, <2>4, <2>5, <2>6, <2>7, <2>9, <2>10, <2>11, NoTokenIsFree
      DEF RefreshFits
  <2>13. logout' \in [Tabs -> RequestRow]
      BY <1>0 DEF BrowserInv, BrowserTypes
  <2> QED
      BY <1>0, <2>8, <2>12, <2>13, Unchanging, LogoutsStay, RefreshStep
<1> QED
    BY <1>2, <1>3

\* The refresh route answers: a session is a new one, and anything else is not
\* one.
LEMMA ServeRefreshStep ==
    ASSUME BrowserInv, NEW b \in Tabs, ServeRefresh(b)
    PROVE  BrowserInv'
<1> DEFINE s == refresh[b].sent
           Row(outcome, t) == [refresh[b] EXCEPT !.stage = "ANSWERED", !.outcome = outcome, !.got = t]
<1>0. /\ token \in [Tokens -> TokenRow] /\ cookie \in CookieRow /\ cookie.refresh \in SomeToken
      /\ refresh[b] \in RequestRow /\ s \in SomeToken /\ Used(token, s) /\ Used(token, cookie.refresh)
      /\ presented \in [Tabs -> SUBSET Tokens] /\ late \subseteq Tokens
      /\ \A t \in late \cup presented[b] : Used(token, t)
      /\ UNCHANGED <<cookie, logout, presented, repeated>> /\ refresh[b].stage = "SENT"
    BY DEF BrowserInv, BrowserTypes, AllIssued, CookieRow, RequestRow, ServeRefresh
<1>1. SUFFICES ASSUME NEW outcome \in {"OK", "DENIED", "ERROR", "NO_COOKIE", "TIMEOUT"},
                      NEW t \in SomeToken, refresh' = [refresh EXCEPT ![b] = Row(outcome, t)],
                      Follows(token'), late' \subseteq late \cup ({s} \ {NoToken}),
                      outcome = "NO_COOKIE" => s = NoToken,
                      outcome = "OK" =>
                          t \in Tokens /\ token[t].status = "UNUSED" /\ token'[t].status # "UNUSED",
                      outcome # "OK" => t = NoToken
               PROVE  BrowserInv'
  <2>1. CASE s = NoToken
    <3>1. refresh' = [refresh EXCEPT ![b] = Row("NO_COOKIE", NoToken)] /\ UNCHANGED <<token, late>>
        BY <2>1 DEF ServeRefresh
    <3> HIDE DEF s, Row
    <3> QED
        BY <1>1, <2>1, <3>1, Unchanging DEF SomeToken
  <2>2. CASE s # NoToken /\ \E e \in RefreshEffects(s) :
                /\ token' = e.tokens /\ late' = late
                /\ refresh' = [refresh EXCEPT ![b] = Row(e.outcome, e.got)]
    <3> PICK e \in RefreshEffects(s) :
            /\ token' = e.tokens /\ late' = late
            /\ refresh' = [refresh EXCEPT ![b] = Row(e.outcome, e.got)]
        BY <2>2
    <3>1. s \in Tokens
        BY <1>0, <2>2 DEF SomeToken
    <3>2. /\ Follows(e.tokens)
          /\ e.outcome \in {"OK", "DENIED", "ERROR"} /\ e.got \in SomeToken
          /\ e.outcome = "OK" =>
               /\ e.got \in Tokens /\ token[e.got].status = "UNUSED"
               /\ e.tokens[e.got].status # "UNUSED"
          /\ e.outcome # "OK" => e.got = NoToken
        BY <1>0, <3>1, RefreshFollows
    <3> HIDE DEF s, Row
    <3> QED
        BY <1>1, <3>2
  <2>3. CASE /\ s # NoToken /\ refresh' = [refresh EXCEPT ![b] = Row("TIMEOUT", NoToken)]
             /\ late' = late \cup {s} /\ token' = token
    <3> HIDE DEF s, Row
    <3> QED
        BY <1>1, <2>3, Unchanging DEF SomeToken
  <2> QED
      BY <2>1, <2>2, <2>3 DEF ServeRefresh
<1> DEFINE row == Row(outcome, t)
<1>2. /\ row \in RequestRow /\ row.stage = "ANSWERED" /\ row.outcome = outcome /\ row.got = t
      /\ row.sent = s /\ row # NoRequest
    BY <1>0 DEF RequestRow, NoRequest
<1>3. \A x \in SomeToken : Used(token, x) => Used(token', x)
    BY <1>1, UsedStays
<1>4. /\ Used(token', t) /\ Used(token', s) /\ Used(token', cookie'.refresh)
      /\ \A x \in presented[b] : Used(token', x)
  <2>1. Used(token', t)
      BY <1>1 DEF Used
  <2>2. \A x \in presented[b] : x \in SomeToken
      BY <1>0 DEF SomeToken
  <2> QED
      BY <1>0, <1>3, <2>1, <2>2
<1>5. late' \subseteq Tokens /\ \A x \in late' : Used(token', x)
  <2>1. \A x \in late' : x \in Tokens /\ Used(token, x)
      BY <1>0, <1>1 DEF SomeToken
  <2> QED
      BY <1>3, <2>1 DEF SomeToken
<1>6. outcome = "OK" => ~Used(token, t)
    BY <1>1, NoTokenAssumption DEF Used
<1>7. outcome = "OK" =>
          /\ t # cookie.refresh /\ t \notin presented[b]
          /\ \A o \in Tabs : t \notin presented[o] /\ refresh[o].got # t
    BY <1>6 DEF BrowserInv, AllIssued
<1>8. cookie'.refresh \in presented[b] => row.sent = cookie'.refresh
    BY <1>0, <1>2 DEF BrowserInv, PresentedIsPending
<1>9. \A o \in Tabs \ {b}, x \in presented[b] : Renewed(o) => refresh[o].got # x
    BY DEF BrowserInv, RenewalsAreNew
<1>10. presented' = [presented EXCEPT ![b] = presented[b]] /\ presented[b] \in SUBSET Tokens
    BY <1>0
<1> HIDE DEF row, Row, s
<1>11. refresh' = [refresh EXCEPT ![b] = row] /\ cookie' = cookie
    BY <1>0, <1>1 DEF row
<1>12. RefreshFits(b, row, presented[b])
    BY <1>0, <1>1, <1>2, <1>4, <1>5, <1>7, <1>8, <1>9, <1>10, <1>11 DEF RefreshFits
<1>13. logout' \in [Tabs -> RequestRow]
    BY <1>0 DEF BrowserInv, BrowserTypes
<1> QED
    BY <1>0, <1>1, <1>12, <1>13, LogoutsStay, RefreshStep

\* The answer arrives: the cookies are replaced, cleared or kept.  Where they
\* are kept, the tab forgets that it has presented the token.
LEMMA RefreshArrivesStep ==
    ASSUME BrowserInv, NEW b \in Tabs, RefreshArrives(b)
    PROVE  BrowserInv'
<1> DEFINE r == refresh[b]
           P == IF r.outcome = "TIMEOUT" THEN presented[b] \ {r.sent} ELSE presented[b]
<1>0. /\ token \in [Tokens -> TokenRow] /\ cookie \in CookieRow /\ cookie.refresh \in SomeToken
      /\ r \in RequestRow /\ r.got \in SomeToken /\ Used(token, r.got) /\ Used(token, cookie.refresh)
      /\ presented \in [Tabs -> SUBSET Tokens] /\ late \subseteq Tokens
      /\ \A t \in late \cup presented[b] : Used(token, t)
      /\ UNCHANGED <<token, logout, late, repeated>> /\ r.stage = "ANSWERED"
      /\ refresh' = [refresh EXCEPT ![b] = NoRequest]
    BY DEF BrowserInv, BrowserTypes, AllIssued, CookieRow, RequestRow, RefreshArrives
<1>1. presented' = [presented EXCEPT ![b] = P] /\ P \in SUBSET Tokens /\ P \subseteq presented[b]
    BY <1>0 DEF RefreshArrives
<1>2. cookie' = IF r.outcome = "OK" THEN BothCookies(r.got)
                ELSE IF r.outcome \in {"DENIED", "ERROR"} THEN NoCookies ELSE cookie
    BY DEF RefreshArrives
<1>3. /\ NoRequest \in RequestRow /\ NoRequest.outcome = "NONE" /\ NoRequest.sent = NoToken
      /\ NoRequest.got = NoToken
    BY DEF NoRequest, RequestRow, SomeToken
<1>4. \A t : Used(token, t) => Used(token', t)
    BY <1>0 DEF Used
<1>5. Used(token, NoToken)
    BY DEF Used
<1>6. /\ cookie' \in CookieRow /\ Used(token, cookie'.refresh)
      /\ cookie'.refresh \notin P
      /\ \/ cookie'.refresh = cookie.refresh
         \/ \A o \in Tabs \ {b} : cookie'.refresh \notin presented[o]
                                  /\ (Renewed(o) => refresh[o].got # cookie'.refresh)
  <2>1. CASE r.outcome = "OK"
    <3>1. Renewed(b) /\ cookie' = BothCookies(r.got)
        BY <1>0, <1>2, <2>1 DEF Renewed
    <3>2. cookie' \in CookieRow /\ cookie'.refresh = r.got
        BY <1>0, <3>1 DEF BothCookies, CookieRow
    <3> QED
        BY <1>0, <1>1, <3>1, <3>2 DEF BrowserInv, RenewalsAreNew
  <2>2. CASE r.outcome \in {"DENIED", "ERROR"}
    <3>1. cookie' \in CookieRow /\ cookie'.refresh = NoToken
        BY <1>2, <2>2, Unchanging DEF NoCookies
    <3> QED
        BY <1>1, <1>5, <3>1, NoTokenIsFree
  <2>3. CASE r.outcome \notin {"OK", "DENIED", "ERROR"}
    <3>1. cookie' = cookie
        BY <1>2, <2>3
    <3>2. cookie.refresh \in presented[b] => r.sent = cookie.refresh
        BY DEF BrowserInv, PresentedIsPending
    <3>3. r.outcome # "NONE" /\ (r.outcome = "NO_COOKIE" => r.sent = NoToken)
        BY <1>0 DEF BrowserInv, AnswersFit
    <3> QED
        BY <1>0, <1>1, <2>3, <3>1, <3>2, <3>3, NoTokenIsFree DEF RequestRow
  <2> QED
      BY <2>1, <2>2, <2>3
<1>7. \A o \in Tabs \ {b}, t \in P : Renewed(o) => refresh[o].got # t
    BY <1>1 DEF BrowserInv, RenewalsAreNew
<1> HIDE DEF P
<1>8. /\ late' \in SUBSET Tokens /\ \A t \in late' : Used(token', t)
      /\ Used(token', cookie'.refresh) /\ Used(token', NoToken) /\ \A t \in P : Used(token', t)
    BY <1>0, <1>1, <1>4, <1>5, <1>6
<1>9. RefreshFits(b, NoRequest, P)
  <2>1. /\ NoRequest.stage = "ANSWERED" => NoRequest.outcome # "NONE"
        /\ ~(NoRequest.stage = "ANSWERED" /\ NoRequest.outcome = "OK")
        /\ NoRequest.outcome # "NO_COOKIE"
      BY DEF NoRequest
  <2>2. /\ cookie'.refresh \notin P /\ cookie' \in CookieRow
        /\ \/ cookie'.refresh = cookie.refresh
           \/ \A o \in Tabs \ {b} : cookie'.refresh \notin presented[o]
                                    /\ (Renewed(o) => refresh[o].got # cookie'.refresh)
      BY <1>6
  <2> QED
      BY <1>0, <1>1, <1>3, <1>7, <1>8, <2>1, <2>2 DEF RefreshFits
<1>10. logout' \in [Tabs -> RequestRow]
    BY <1>0 DEF BrowserInv, BrowserTypes
<1> QED
    BY <1>0, <1>9, <1>10, Unchanging, LogoutsStay, RefreshStep

\* The page is left: what it waits for is forgotten, and so is that it was sent.
LEMMA ReloadStep ==
    ASSUME BrowserInv, NEW b \in Tabs, Reload(b)
    PROVE  BrowserInv'
<1> DEFINE r == refresh[b]
           P == presented[b] \ {r.sent}
<1>0. /\ token \in [Tokens -> TokenRow] /\ cookie \in CookieRow /\ cookie.refresh \in SomeToken
      /\ r \in RequestRow /\ r.sent \in SomeToken /\ Used(token, r.sent) /\ Used(token, cookie.refresh)
      /\ presented \in [Tabs -> SUBSET Tokens] /\ late \subseteq Tokens
      /\ \A t \in late \cup presented[b] : Used(token, t)
    BY DEF BrowserInv, BrowserTypes, AllIssued, CookieRow, RequestRow
<1>1. /\ refresh' = [refresh EXCEPT ![b] = NoRequest] /\ logout' = [logout EXCEPT ![b] = NoRequest]
      /\ presented' = [presented EXCEPT ![b] = P] /\ UNCHANGED <<token, cookie, repeated>>
      /\ late' \subseteq late \cup ({r.sent} \ {NoToken})
    BY DEF Reload
<1>2. /\ NoRequest \in RequestRow /\ NoRequest.outcome = "NONE" /\ NoRequest.sent = NoToken
      /\ NoRequest.got = NoToken /\ NoRequest.stage = "NONE"
    BY DEF NoRequest, RequestRow, SomeToken
<1>3. /\ Used(token, NoToken) /\ \A t : Used(token, t) => Used(token', t)
    BY <1>1 DEF Used
<1>4. late' \subseteq Tokens /\ \A t \in late' : Used(token', t)
    BY <1>0, <1>1, <1>3 DEF SomeToken
<1>5. cookie.refresh \notin P
    BY DEF BrowserInv, PresentedIsPending
<1>6. \A o \in Tabs \ {b}, t \in P : Renewed(o) => refresh[o].got # t
    BY DEF BrowserInv, RenewalsAreNew
<1>7. /\ logout' \in [Tabs -> RequestRow] /\ LogoutsEnded'
      /\ \A o \in Tabs : Used(token', logout'[o].sent)
  <2>1. /\ logout \in [Tabs -> RequestRow] /\ \A o \in Tabs : Used(token, logout[o].sent)
        /\ LogoutsEnded
      BY DEF BrowserInv, BrowserTypes, AllIssued
  <2>2. /\ logout' \in [Tabs -> RequestRow]
        /\ \A o \in Tabs : logout'[o] = IF o = b THEN NoRequest ELSE logout[o]
      BY <1>1, <1>2, <2>1
  <2>3. LogoutsEnded'
      BY <1>1, <1>2, <2>1, <2>2 DEF LogoutsEnded
  <2> QED
      BY <1>2, <1>3, <2>1, <2>2, <2>3
<1> HIDE DEF P
<1>8. P \in SUBSET Tokens /\ P \subseteq presented[b] /\ \A t \in P : Used(token', t)
    BY <1>0, <1>3 DEF P
<1>9. RefreshFits(b, NoRequest, P)
    BY <1>0, <1>1, <1>2, <1>3, <1>4, <1>5, <1>6, <1>8 DEF RefreshFits
<1> QED
    BY <1>1, <1>7, <1>9, Unchanging, RefreshStep

-----------------------------------------------------------------------------
(* The theorems *)

\* Every step keeps the invariant.
LEMMA BrowserStep == BrowserInv /\ [BrowserNext]_browserVars => BrowserInv'
<1> SUFFICES ASSUME BrowserInv, [BrowserNext]_browserVars PROVE BrowserInv'
    OBVIOUS
<1>0. token \in [Tokens -> TokenRow] /\ cookie \in CookieRow
    BY DEF BrowserInv, BrowserTypes
<1>1. ASSUME NEW c \in Calls, Fetch(c) \/ Return(c) PROVE BrowserInv'
  <2>1. cookie' \in {cookie, NoCookies} /\ UNCHANGED <<token, refresh, logout, late, presented, repeated>>
      BY <1>1 DEF Fetch, Return, Left
  <2> QED
      BY <1>0, <2>1, Unchanging, QuietStep DEF NoCookies
<1>2. ASSUME NEW s \in Tokens, ServeLate(s) PROVE BrowserInv'
  <2>1. PICK e \in RefreshEffects(s) : token' = e.tokens
      BY <1>2 DEF ServeLate
  <2>2. Follows(token')
      BY <1>0, <2>1, RefreshFollows
  <2>3. late' \subseteq late /\ UNCHANGED <<cookie, refresh, logout, presented, repeated>>
      BY <1>2 DEF ServeLate
  <2> QED
      BY <1>0, <2>2, <2>3, QuietStep
<1>3. ASSUME NEW t \in Tokens, EndElsewhere(t) \/ AccessExpires(t) PROVE BrowserInv'
  <2>1. Follows(token')
    <3>1. CASE EndElsewhere(t)
        BY <1>0, <3>1, EndedFollows DEF EndElsewhere
    <3>2. CASE AccessExpires(t)
      <4>1. token' = [token EXCEPT ![t] = [token[t] EXCEPT !.fresh = FALSE]]
          BY <3>2 DEF AccessExpires
      <4>2. /\ [token[t] EXCEPT !.fresh = FALSE] \in TokenRow
            /\ [token[t] EXCEPT !.fresh = FALSE].status = token[t].status
          BY <1>0 DEF TokenRow
      <4> QED
          BY <1>0, <4>1, <4>2 DEF Follows
    <3> QED
        BY <1>3, <3>1, <3>2
  <2>2. UNCHANGED <<cookie, refresh, logout, late, presented, repeated>>
      BY <1>3 DEF EndElsewhere, AccessExpires
  <2> QED
      BY <1>0, <2>1, <2>2, QuietStep
<1>4. CASE AccessCookieExpires
  <2>1. /\ cookie' \in CookieRow /\ cookie'.refresh = cookie.refresh
        /\ UNCHANGED <<token, refresh, logout, late, presented, repeated>>
      BY <1>0, <1>4 DEF AccessCookieExpires, CookieRow, SomeToken
  <2> QED
      BY <2>1, Unchanging, QuietStep
<1>5. CASE UNCHANGED browserVars
    BY <1>0, <1>5, Unchanging, QuietStep DEF browserVars
<1> QED
    BY <1>1, <1>2, <1>3, <1>4, <1>5, SignedInStep, ReauthorizeStep, ServeRefreshStep,
       RefreshArrivesStep, LogoutStep, ReloadStep DEF BrowserNext

\* The invariant holds at the start.
LEMMA BrowserStarts == BrowserInit => BrowserInv
<1> SUFFICES ASSUME BrowserInit PROVE BrowserInv
    OBVIOUS
<1>1. NoRequest \in RequestRow /\ NoRequest.outcome = "NONE" /\ NoRequest.stage = "NONE"
      /\ NoRequest.sent = NoToken /\ NoRequest.got = NoToken
    BY DEF NoRequest, RequestRow, SomeToken
<1>2. BrowserTypes
    BY <1>1 DEF BrowserInit, BrowserTypes, TokenRow, CookieRow, SomeToken
<1>3. \A b \in Tabs : refresh[b] = NoRequest /\ logout[b] = NoRequest /\ presented[b] = {}
    BY DEF BrowserInit
<1>4. AllIssued /\ PresentedIsPending /\ RenewalsAreNew /\ AnswersFit /\ LogoutsEnded
    BY <1>1, <1>3 DEF BrowserInit, AllIssued, Used, PresentedIsPending, RenewalsAreNew, Renewed,
       AnswersFit, LogoutsEnded
<1> QED
    BY <1>2, <1>4 DEF BrowserInv, TokenPresentedOnce, BrowserInit

\* The invariant holds always.
LEMMA BrowserInvariance == BrowserSpec => []BrowserInv
BY BrowserStarts, BrowserStep, PTL DEF BrowserSpec

\* However many calls of however many tabs get a 401 at once, whatever is
\* answered late, reloaded or logged out in between: a tab presents a refresh
\* token once, unless it never got the answer (lib/api-client.ts).
THEOREM TokensPresentedOnce == BrowserSpec => []TokenPresentedOnce
<1>1. BrowserInv => TokenPresentedOnce
    BY DEF BrowserInv
<1> QED
    BY <1>1, BrowserInvariance, PTL

\* The logout route clears the cookies after the API revoked the session that
\* the request carried, and nothing makes it work again.
THEOREM LogoutComesFirst == BrowserSpec => SessionEndsBeforeItsCookies
<1>1. BrowserInv /\ [BrowserNext]_browserVars
        => [\A b \in Tabs : LogoutArrives(b) /\ Clears(b) => ~Works(logout[b].sent)]_browserVars
    BY DEF BrowserInv, LogoutsEnded, Clears, Works
<1> QED
    BY <1>1, BrowserInvariance, PTL DEF BrowserSpec, SessionEndsBeforeItsCookies
=============================================================================
