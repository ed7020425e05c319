---------------------------- MODULE RequestLedger ----------------------------
(***************************************************************************)
(* What the API promises of a sender's submissions: each is entered whole  *)
(* and at once, within both limits, and a key only once; an entry is never *)
(* edited or taken back, only closed; and a success is reported of an      *)
(* entry made with the key and from the content that was sent.             *)
(***************************************************************************)
EXTENDS Integers, FiniteSets

CONSTANTS
    Entries, Keys, Contents,
    MaxOpen,  \* entries that are open at once
    Rate,     \* entries made in a window
    Window,
    None      \* no key and no content

VARIABLES
    ledger,   \* the entries
    reports   \* the successes that are on their way to a client

vars == <<ledger, reports>>

Blank == [state |-> "NONE", key |-> None, content |-> None, at |-> 0]

Init ==
    /\ ledger = [e \in Entries |-> Blank]
    /\ reports = {}

Entered == {e \in Entries : ledger[e].state # "NONE"}

Enter(e) ==
    LET r == ledger'[e] IN
    /\ ledger[e].state = "NONE"
    /\ r \in [state : {"ACTIVE"}, key : Keys \cup {None}, content : Contents, at : Nat]
    /\ \A x \in Entered : ledger[x].key # r.key \/ r.key = None
    /\ Cardinality({x \in Entered : ledger[x].state = "ACTIVE"}) < MaxOpen
    /\ Cardinality({x \in Entered : ledger[x].at >= r.at - Window}) < Rate
    /\ ledger' = [ledger EXCEPT ![e] = r]

Close(e) ==
    /\ ledger[e].state = "ACTIVE"
    /\ ledger' = [ledger EXCEPT ![e].state = "ENDED"]

\* Reports are made of entries, in the same step or later, and may be lost.
Report ==
    \A m \in reports' \ reports :
        \E e \in Entries :
            m = [entry |-> e, key |-> ledger'[e].key, content |-> ledger'[e].content]
              /\ ledger'[e].state # "NONE"

Next ==
    /\ UNCHANGED ledger \/ \E e \in Entries : Enter(e) \/ Close(e)
    /\ Report

Spec == Init /\ [][Next]_vars
=============================================================================
