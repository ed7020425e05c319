--------------------------- MODULE MCAuthSessions ---------------------------
(***************************************************************************)
(* Small instances of AuthSessions and RateLimit for TLC.  The two share   *)
(* no state, so they are checked side by side: the limiter moves while no  *)
(* account exists, and the sessions while no attempt was counted.          *)
(***************************************************************************)
EXTENDS AuthSessions, RateLimit, TLC

Limits == "IP" :> 2 @@ "IP_IDENTIFIER" :> 2 @@ "IDENTIFIER" :> 2

SignInInit == Init /\ LimiterInit

SignInNext ==
    \/ LimiterInit /\ Next /\ UNCHANGED limiterVars
    \/ Init /\ LimiterNext /\ UNCHANGED vars

SignInSpec == SignInInit /\ [][SignInNext]_<<vars, limiterVars>>

Symmetry == Permutations(Sessions) \cup Permutations(Requests)
=============================================================================
