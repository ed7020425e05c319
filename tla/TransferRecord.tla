--------------------------- MODULE TransferRecord ---------------------------
(***************************************************************************)
(* What every workflow service shares: the status column of one            *)
(* TransferRequest row, the server clock, and the requests that have read  *)
(* something outside the transaction that will write.  A service           *)
(* transaction locks the row (SELECT ... FOR UPDATE), so it is one atomic  *)
(* action; what a request read before its transaction stays in inFlight,   *)
(* where any other action may make it stale.                               *)
(***************************************************************************)
EXTENDS TransferState, Naturals

CONSTANTS
    Clients,    \* concurrent API requests that read before they write
    MaxQuotes,  \* bound: quote versions of the transfer
    MaxTime     \* bound: ticks of the clock

ASSUME BoundsAssumption == MaxQuotes \in Nat /\ MaxTime \in Nat

VARIABLES
    status,    \* TransferRequest.status
    now,       \* the service's clock()
    inFlight   \* for each client, the request between its read and its write

recordVars == <<status, now, inFlight>>

QuoteId == 1..MaxQuotes
NoQuote == 0

\* TRANSITION: the status was read and checked, the guarded update is next.
\* EXPIRY: a quote request captured the clock, expireIfNeeded is next.
\* DECISION: expireIfNeeded is done, the accept/reject transaction is next.
\* SEND: sendDraft captured the clock, its transaction is next.
Stage == {"IDLE", "TRANSITION", "EXPIRY", "DECISION", "SEND"}

Request == [stage  : Stage,
            seen   : TransferStatus,          \* the status the request read
            target : TransferStatus,          \* the status it wants
            quote  : QuoteId \cup {NoQuote},  \* the quote it names
            at     : Nat]                     \* the clock it captured

Idle == [stage |-> "IDLE", seen |-> "REQUESTED", target |-> "REQUESTED",
         quote |-> NoQuote, at |-> 0]

RecordInit ==
    /\ status = "REQUESTED"
    /\ now = 0
    /\ inFlight = [c \in Clients |-> Idle]

\* assertTransferTransition followed by the status update.
MoveTo(target) == CanMove(status, target) /\ status' = target

Begin(c, request) ==
    /\ inFlight[c] = Idle
    /\ inFlight' = [inFlight EXCEPT ![c] = request]

Finish(c) == inFlight' = [inFlight EXCEPT ![c] = Idle]

\* A request ends without a write: a 4xx answer, a rolled-back transaction,
\* a lost connection or a crash of the API process before the commit.
Abandon(c) ==
    /\ inFlight[c] # Idle
    /\ Finish(c)
    /\ UNCHANGED <<status, now>>

Tick ==
    /\ now < MaxTime
    /\ now' = now + 1
    /\ UNCHANGED <<status, inFlight>>
=============================================================================
