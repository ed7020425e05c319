----------------------- MODULE AuthSessionsRefinement -----------------------
(***************************************************************************)
(* The sessions of AuthSessions implement SessionFamilies: opening a       *)
(* session begins its family, replacing one rotates it, and everything     *)
(* else ends families or leaves them alone.                                *)
(***************************************************************************)
EXTENDS AuthSessionsProofs

\* currentToken and spentTokens of any rows, so that they can be spoken of
\* before and after a step.
LiveRows(rows, f) == {s \in Sessions : rows[s].status = "LIVE" /\ rows[s].family = f}

CurrentOf(rows, f) ==
    IF LiveRows(rows, f) = {} THEN "NONE" ELSE CHOOSE s \in LiveRows(rows, f) : TRUE

SpentOf(rows, f) == {s \in Sessions : rows[s].family = f /\ rows[s].status # "LIVE"}

OneLiveIn(rows) ==
    \A s, t \in Sessions :
        rows[s].status = "LIVE" /\ rows[t].status = "LIVE" /\ rows[s].family = rows[t].family => s = t

\* The refinement mapping, before and after a step.
LEMMA Mapping ==
    /\ currentToken = [f \in Sessions |-> CurrentOf(session, f)]
    /\ spentTokens = [f \in Sessions |-> SpentOf(session, f)]
    /\ currentToken' = [f \in Sessions |-> CurrentOf(session', f)]
    /\ spentTokens' = [f \in Sessions |-> SpentOf(session', f)]
BY DEF currentToken, spentTokens, CurrentOf, SpentOf, LiveRows, LiveIn, Live

\* Where a family has one live session at most, that is its current token.
LEMMA CurrentIsLive ==
    ASSUME NEW rows, OneLiveIn(rows), NEW f \in Sessions
    PROVE  /\ \A s \in Sessions : rows[s].status = "LIVE" /\ rows[s].family = f => CurrentOf(rows, f) = s
           /\ CurrentOf(rows, f) # "NONE" =>
                 /\ CurrentOf(rows, f) \in Sessions
                 /\ rows[CurrentOf(rows, f)].status = "LIVE"
                 /\ rows[CurrentOf(rows, f)].family = f
<1>1. CASE LiveRows(rows, f) = {}
    BY <1>1 DEF CurrentOf, LiveRows
<1>2. CASE LiveRows(rows, f) # {}
  <2>1. PICK s \in LiveRows(rows, f) : TRUE
      BY <1>2
  <2>2. CurrentOf(rows, f) \in LiveRows(rows, f)
      BY <1>2 DEF CurrentOf
  <2>3. \A x, y \in LiveRows(rows, f) : x = y
      BY DEF LiveRows, OneLiveIn
  <2> QED
      BY <2>2, <2>3 DEF LiveRows
<1> QED
    BY <1>1, <1>2

\* Rows with the same live sessions of f have the same current token.
LEMMA SameCurrent ==
    ASSUME NEW old, NEW new, NEW f \in Sessions, LiveRows(old, f) = LiveRows(new, f)
    PROVE  CurrentOf(old, f) = CurrentOf(new, f)
BY DEF CurrentOf

\* A family has at most one live session on both sides of a step.
LEMMA OneLiveBeforeAndAfter ==
    ASSUME IInv, [Next]_vars
    PROVE  OneLiveIn(session) /\ OneLiveIn(session')
<1>1. OneLiveSessionPerFamily /\ OneLiveSessionPerFamily'
    BY StepHolds DEF IInv
<1> QED
    BY <1>1 DEF OneLiveSessionPerFamily, OneLiveIn, Live

\* A free session belongs to no family, and no session to its.
LEMMA FreeSession ==
    ASSUME IInv, NEW x \in Sessions, session[x].status = "UNUSED"
    PROVE  /\ session[x].family = "NONE" /\ "NONE" \notin Sessions
           /\ \A s \in Sessions : session[s].family # x
<1>1. session[x].family = "NONE" /\ "NONE" \notin Sessions
    BY NamesAssumption DEF IInv, Consistent, SessionsInv, Unused
<1>2. ASSUME NEW s \in Sessions PROVE session[s].family # x
  <2>1. CASE session[s].status = "UNUSED"
      BY <1>1, <2>1 DEF IInv, Consistent, SessionsInv, Unused
  <2>2. CASE session[s].status # "UNUSED"
      BY <2>2 DEF IInv, Consistent, SessionsInv
  <2> QED
      BY <2>1, <2>2
<1> QED
    BY <1>1, <1>2

\* A free session is a token no family of the abstraction knows.
LEMMA FreeIsFresh ==
    ASSUME IInv, NEW x \in Sessions, session[x].status = "UNUSED"
    PROVE  x \in Families!Fresh
<1>1. ASSUME NEW f \in Sessions PROVE x \notin spentTokens[f] /\ x # currentToken[f]
  <2>1. x \notin SpentOf(session, f) /\ x # "NONE"
      BY FreeSession DEF SpentOf
  <2>2. CASE LiveRows(session, f) = {}
      BY <2>1, <2>2, Mapping DEF CurrentOf
  <2>3. CASE LiveRows(session, f) # {}
    <3>1. CurrentOf(session, f) \in LiveRows(session, f)
        BY <2>3 DEF CurrentOf
    <3> QED
        BY <2>1, <3>1, Mapping DEF LiveRows
  <2> QED
      BY <2>2, <2>3
<1> QED
    BY <1>1 DEF Families!Fresh

\* A session that opens begins its family.
LEMMA OpenedBegins ==
    ASSUME IInv, [Next]_vars, NEW x \in Sessions, Opened(x)
    PROVE  Families!Begin(x, x) /\ x \in Families!Fresh
<1>1. /\ session[x].status = "UNUSED" /\ session'[x].status = "LIVE" /\ session'[x].family = x
      /\ \A s \in Sessions \ {x} : session'[s] = session[s]
    BY DEF Opened
<1>2. /\ "NONE" \notin Sessions /\ session[x].family = "NONE"
      /\ \A s \in Sessions : session[s].family # x
    BY <1>1, FreeSession
<1>3. currentToken[x] = "NONE" /\ spentTokens[x] = {}
  <2>1. LiveRows(session, x) = {} /\ SpentOf(session, x) = {}
      BY <1>2 DEF LiveRows, SpentOf
  <2> QED
      BY <2>1, Mapping DEF CurrentOf
<1>4. \A f \in Sessions : SpentOf(session', f) = SpentOf(session, f)
    BY <1>1, <1>2 DEF SpentOf
<1>5. CurrentOf(session', x) = x
    BY <1>1, OneLiveBeforeAndAfter, CurrentIsLive
<1>6. ASSUME NEW f \in Sessions, f # x PROVE CurrentOf(session', f) = CurrentOf(session, f)
  <2>1. LiveRows(session', f) = LiveRows(session, f)
      BY <1>1, <1>6 DEF LiveRows
  <2> QED
      BY <2>1, SameCurrent
<1>7. spentTokens' = spentTokens
    BY <1>4, Mapping
<1>8. currentToken' = [currentToken EXCEPT ![x] = x]
    BY <1>5, <1>6, Mapping
<1>9. x \in Families!Fresh
    BY <1>1, FreeIsFresh
<1> QED
    BY <1>3, <1>7, <1>8, <1>9 DEF Families!Begin

\* A session replaced by its successor rotates its family's token.
LEMMA ReplacedRotates ==
    ASSUME IInv, [Next]_vars, NEW x \in Sessions, NEW t \in Sessions, Replaced(x, t)
    PROVE  /\ session[x].family \in Sessions
           /\ Families!Rotate(session[x].family, t) /\ t \in Families!Fresh
<1> DEFINE g == session[x].family
<1>0. session[x] \in SessionRow
    BY DEF IInv, Consistent, TypeOK
<1>1. /\ session[x].status = "LIVE" /\ session'[x].status = "ROTATED" /\ session'[x].family = g
      /\ session[t].status = "UNUSED" /\ session'[t].status = "LIVE" /\ session'[t].family = g
      /\ \A s \in Sessions \ {x, t} : session'[s] = session[s]
    BY <1>0 DEF Replaced, Live, SessionRow
<1>2. g \in Sessions
    BY <1>1 DEF IInv, Consistent, SessionsInv
<1>3. "NONE" \notin Sessions /\ session[t].family = "NONE" /\ x # t
    BY <1>1, FreeSession
<1>4. CurrentOf(session, g) = x /\ CurrentOf(session', g) = t
    BY <1>1, <1>2, OneLiveBeforeAndAfter, CurrentIsLive
<1> HIDE DEF g
<1>5. ASSUME NEW f \in Sessions, f # g PROVE CurrentOf(session', f) = CurrentOf(session, f)
  <2>1. LiveRows(session', f) = LiveRows(session, f)
      BY <1>1, <1>3, <1>5 DEF LiveRows, g
  <2> QED
      BY <2>1, SameCurrent
<1>6. SpentOf(session', g) = SpentOf(session, g) \cup {x}
    BY <1>1, <1>2, <1>3 DEF SpentOf, g
<1>7. \A f \in Sessions : f # g => SpentOf(session', f) = SpentOf(session, f)
    BY <1>1, <1>3 DEF SpentOf, g
<1>8. currentToken' = [currentToken EXCEPT ![g] = t] /\ currentToken[g] = x
    BY <1>2, <1>4, <1>5, Mapping
<1>9. spentTokens' = [spentTokens EXCEPT ![g] = @ \cup {x}]
    BY <1>2, <1>6, <1>7, Mapping
<1>10. t \in Families!Fresh
    BY <1>1, FreeIsFresh
<1>11. Families!Rotate(g, t)
    BY <1>3, <1>8, <1>9 DEF Families!Rotate
<1> QED
    BY <1>2, <1>10, <1>11 DEF g

\* Revoking or expiring sessions ends families.
LEMMA SomeEndEnds ==
    ASSUME IInv, [Next]_vars, SomeEnd
    PROVE  Families!End
<1>1. \A s \in Sessions :
         /\ session'[s].family = session[s].family
         /\ session'[s].status = "LIVE" => session[s].status = "LIVE"
    BY DEF SomeEnd, Kept, Live
<1>2. OneLiveIn(session) /\ OneLiveIn(session')
    BY OneLiveBeforeAndAfter
<1>3. "NONE" \notin Sessions
    BY NamesAssumption
<1>4. ASSUME NEW f \in Sessions
      PROVE  /\ CurrentOf(session', f) \in {CurrentOf(session, f), "NONE"}
             /\ CurrentOf(session', f) \in Sessions \cup {"NONE"}
             /\ SpentOf(session', f) = IF CurrentOf(session', f) = CurrentOf(session, f)
                                       THEN SpentOf(session, f)
                                       ELSE SpentOf(session, f) \cup {CurrentOf(session, f)}
  <2>1. CASE CurrentOf(session', f) # "NONE"
    <3> DEFINE s == CurrentOf(session', f)
    <3>1. s \in Sessions /\ session'[s].status = "LIVE" /\ session'[s].family = f
        BY <1>2, <2>1, CurrentIsLive
    <3>2. session[s].status = "LIVE" /\ session[s].family = f
        BY <1>1, <3>1
    <3>3. CurrentOf(session, f) = s
        BY <1>2, <3>1, <3>2, CurrentIsLive
    <3>4. \A x \in Sessions : session[x].family = f /\ session[x].status = "LIVE" => x = s
        BY <1>2, <3>1, <3>2 DEF OneLiveIn
    <3> HIDE DEF s
    <3>5. SpentOf(session', f) = SpentOf(session, f)
        BY <1>1, <3>1, <3>4 DEF SpentOf
    <3> QED
        BY <3>1, <3>3, <3>5 DEF s
  <2>2. CASE CurrentOf(session', f) = "NONE"
    <3>1. \A x \in Sessions : ~(session'[x].family = f /\ session'[x].status = "LIVE")
        BY <1>2, <1>3, <2>2, CurrentIsLive
    <3>2. CASE CurrentOf(session, f) = "NONE"
      <4>1. \A x \in Sessions : ~(session[x].family = f /\ session[x].status = "LIVE")
          BY <1>2, <1>3, <3>2, CurrentIsLive
      <4>2. SpentOf(session', f) = SpentOf(session, f)
          BY <1>1, <3>1, <4>1 DEF SpentOf
      <4> QED
          BY <2>2, <3>2, <4>2
    <3>3. CASE CurrentOf(session, f) # "NONE"
      <4> DEFINE s == CurrentOf(session, f)
      <4>1. s \in Sessions /\ session[s].status = "LIVE" /\ session[s].family = f
          BY <1>2, <3>3, CurrentIsLive
      <4>2. \A x \in Sessions : session[x].family = f /\ session[x].status = "LIVE" => x = s
          BY <1>2, <4>1 DEF OneLiveIn
      <4> HIDE DEF s
      <4>3. SpentOf(session', f) = SpentOf(session, f) \cup {s}
          BY <1>1, <3>1, <4>1, <4>2 DEF SpentOf
      <4> QED
          BY <2>2, <3>3, <4>3 DEF s
    <3> QED
        BY <3>2, <3>3
  <2> QED
      BY <2>1, <2>2
<1>5. currentToken' \in [Sessions -> Sessions \cup {"NONE"}]
    BY <1>4, Mapping
<1>6. \A f \in Sessions : currentToken'[f] \in {currentToken[f], "NONE"}
    BY <1>4, Mapping
<1>7. spentTokens' = [f \in Sessions |->
                        IF currentToken'[f] = currentToken[f] THEN spentTokens[f]
                        ELSE spentTokens[f] \cup {currentToken[f]}]
    BY <1>4, Mapping
<1> QED
    BY <1>5, <1>6, <1>7 DEF Families!End

\* The initial states map to initial states.
LEMMA InitMaps == Init => Families!Init
<1> SUFFICES ASSUME Init PROVE Families!Init
    OBVIOUS
<1>1. \A s \in Sessions : session[s].family = "NONE" /\ session[s].status # "LIVE"
    BY DEF Init, Unused
<1>2. \A f \in Sessions : LiveRows(session, f) = {} /\ SpentOf(session, f) = {}
    BY <1>1, NamesAssumption DEF LiveRows, SpentOf
<1> QED
    BY <1>2, Mapping DEF Families!Init, CurrentOf

\* Every step maps to a step of the families or to a stutter.
LEMMA StepMaps == IInv /\ [Next]_vars => [Families!Next]_Families!vars
<1> SUFFICES ASSUME IInv, [Next]_vars PROVE Families!Next
    OBVIOUS
<1>1. CASE SomeEnd
    BY <1>1, SomeEndEnds DEF Families!Next
<1>2. CASE \E s \in Sessions : Opened(s)
    BY <1>2, OpenedBegins DEF Families!Next
<1>3. CASE \E s, t \in Sessions : Replaced(s, t)
    BY <1>3, ReplacedRotates DEF Families!Next
<1> QED
    BY <1>1, <1>2, <1>3, SessionEffect DEF IInv

\* Register, login, refresh, logout, logoutAll, changePassword, replay handling
\* and staff changes keep what SessionFamilies promises: one token of a family
\* works at a time, each works once, and a family that has ended stays ended.
THEOREM SessionsImplementFamilies == Spec => ImplementsFamilies
BY InitMaps, StepMaps, Invariance, PTL DEF Spec, ImplementsFamilies, Families!Spec
=============================================================================
