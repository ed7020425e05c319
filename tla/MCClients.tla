------------------------------ MODULE MCClients ------------------------------
(***************************************************************************)
(* Small instances of SenderApp, with the API and the administrators that  *)
(* it is composed with, and of Browser.  The two share no state, so they   *)
(* are checked side by side: each moves while the other has not begun.     *)
(***************************************************************************)
EXTENDS SenderApp, Browser, TLC

CONSTANTS p1, b1

Cash == [destination |-> "EG", method |-> "CASH"]
Bank == [destination |-> "EG", method |-> "BANK"]

Places == {Cash, Bank}

Policy(currency, methods) ==
    [origins |-> {"AE"}, destinations |-> {"EG"}, currencies |-> {"AED"},
     send |-> "AE" :> {currency}, receive |-> "EG" :> {"AED"}, methods |-> "EG" :> methods,
     evidence |-> 1, limits |-> "AED" :> 1 .. 2]

\* The third is refused for its currency.
Inputs == {Policy("AED", {"CASH", "BANK"}), Policy("AED", {"BANK"}), Policy("USD", {"CASH"})}

\* One request may be paid, the other is above the limit of its currency.
Bodies == {[recipient |-> p1, origin |-> "AE", destination |-> "EG", method |-> "CASH",
            currency |-> "AED", amount |-> n] : n \in {1, 3}}

\* There are three scenes, each the next of another.  Administrators: with
\* nothing else under way.  Clients: the API with its clients but the app;
\* one configuration at a time is activated besides.  App: the app, with a
\* policy and a recipient that stay, and no transaction that is tried again.
AppUnused == app.page = "LOGIN" /\ keys = {}

NoSubmissions == \A q \in Slots : creation[q] = NoSubmission

Changing == {r \in Requests : change[r] # NoChange}

Administrators ==
    /\ AppUnused /\ Submitted = {}
    /\ AdminNext
    /\ \/ CreationInit
       \/ /\ \A q \in Slots : creation[q].stage \in {"IDLE", "READ"}
          /\ \A r, s \in Changing' : r = s
    /\ UNCHANGED <<appVars, creationVars>>

Clients ==
    /\ AppUnused /\ Changing = {}
    /\ OtherClients \/ CreationNext
    /\ UNCHANGED <<appVars, adminVars>>

AppBegins ==
    /\ Changing = {} /\ Cardinality(configuration) = 1 /\ \E c \in Contents : CorridorFor(c)
    /\ NoSubmissions /\ Submitted = {} /\ instant = 0
    /\ \E c \in Contents : MatchingRecipient(c)

App ==
    \/ AppNext /\ (AppUnused => AppBegins)
    \/ /\ ~AppUnused
       /\ \/ Pass
          \/ \E t \in Transfers : EndTransfer(t)
          \/ \E q \in Slots :
                \/ app.slot # q /\ Collect(q)
                \/ LockKey(q) \/ Count(q) \/ Fail(q)
                \/ \E t \in Transfers : Create(q, t)
       /\ UNCHANGED <<appVars, adminVars>>

ScenesNext == Administrators \/ Clients \/ App

\* The calls are those of one tab; the other logs out.
FirstTab(c) == b1

ClientsInit == SubmissionsInit /\ BrowserInit

ClientsNext ==
    \/ BrowserInit /\ ScenesNext /\ UNCHANGED browserVars
    \/ SubmissionsInit /\ BrowserNext /\ logout'[b1] = NoRequest /\ UNCHANGED submissionsVars

ClientsSpec == ClientsInit /\ [][ClientsNext]_<<submissionsVars, browserVars>>

\* The two share the names of their members.
Symmetry == UNION {Permutations(S) : S \in {Admins, Slots, Transfers, Keys}}
=============================================================================
