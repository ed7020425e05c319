---------------------------- MODULE QuoteService ----------------------------
(***************************************************************************)
(* apps/api/src/quotes/service.ts for one transfer: drafting, sending,     *)
(* expiring and deciding quotes.  Economics, notes and currencies are left *)
(* out: a quote is its version, its status and its expiry.                 *)
(***************************************************************************)
EXTENDS TransferRecord

CONSTANT Validities  \* the validForMinutes a draft may be given, in ticks

ASSUME ValiditiesAssumption == Validities \subseteq Nat \ {0}

VARIABLES
    quotes,        \* Quote.status by version; "ABSENT" before it is created
    expiresAt,     \* Quote.expiresAt by version
    acceptedQuote  \* TransferRequest.acceptedQuoteId, or NoQuote

quoteVars == <<quotes, expiresAt, acceptedQuote>>

QuoteStatus == {"DRAFT", "SENT", "ACCEPTED", "REJECTED", "EXPIRED", "SUPERSEDED"}

QuoteInit ==
    /\ quotes = [v \in QuoteId |-> "ABSENT"]
    /\ expiresAt = [v \in QuoteId |-> 0]
    /\ acceptedQuote = NoQuote

Quotable == status \in {"QUOTING", "QUOTED"}

HasQuote(s) == \E v \in QuoteId : quotes[v] = s

\* The aggregate max(version) + 1 of createDraft: rows are never deleted.
NextVersion(v) == \A w \in QuoteId : quotes[w] # "ABSENT" <=> w < v

\* A mistake the properties must catch: nothing is superseded.
NotSuperseded == quotes

\* updateMany SENT -> SUPERSEDED, the first write of sendDraft and of cancel.
Superseded == [w \in QuoteId |-> IF quotes[w] = "SENT" THEN "SUPERSEDED" ELSE quotes[w]]

\* A mistake the properties must catch: createDraft without its look for an
\* existing draft.
SecondDraft(v, validity) ==
    /\ Quotable
    /\ NextVersion(v)
    /\ quotes' = [quotes EXCEPT ![v] = "DRAFT"]
    /\ expiresAt' = [expiresAt EXCEPT ![v] = now + validity]
    /\ UNCHANGED <<acceptedQuote, recordVars>>

\* createDraft: one draft at a time, on a transfer that is being quoted.
CanDraft == Quotable /\ ~HasQuote("DRAFT")

CreateDraft(v, validity) ==
    /\ CanDraft
    /\ NextVersion(v)
    /\ quotes' = [quotes EXCEPT ![v] = "DRAFT"]
    /\ expiresAt' = [expiresAt EXCEPT ![v] = now + validity]
    /\ UNCHANGED <<acceptedQuote, recordVars>>

\* sendDraft captures the clock before it waits for the row lock.
RequestSend(c, v) ==
    /\ quotes[v] # "ABSENT"
    /\ Begin(c, [Idle EXCEPT !.stage = "SEND", !.quote = v, !.at = now])
    /\ UNCHANGED <<status, now, quoteVars>>

\* What sendDraft asks of a quote, by the clock it captured.
Sendable(v, at) == quotes[v] = "DRAFT" /\ expiresAt[v] > at /\ Quotable

\* The transaction of sendDraft: supersede the sent quote, send this one and
\* bring a QUOTING transfer to QUOTED.
SendDraft(c) ==
    LET v == inFlight[c].quote IN
    /\ inFlight[c].stage = "SEND"
    /\ Sendable(v, inFlight[c].at)
    /\ quotes' = [Superseded EXCEPT ![v] = "SENT"]
    /\ IF status = "QUOTING" THEN MoveTo("QUOTED") ELSE UNCHANGED status
    /\ Finish(c)
    /\ UNCHANGED <<now, expiresAt, acceptedQuote>>

\* A sender opens the list of quotes, or decides on one: ACCEPT aims at
\* QUOTE_ACCEPTED, REJECT at QUOTING.  Both start with expireIfNeeded, which
\* captures the clock before it waits for the row lock.
RequestList(c) ==
    /\ Begin(c, [Idle EXCEPT !.stage = "EXPIRY", !.at = now])
    /\ UNCHANGED <<status, now, quoteVars>>

RequestDecision(c, v, target) ==
    /\ quotes[v] \notin {"ABSENT", "DRAFT"}
    /\ target \in {"QUOTE_ACCEPTED", "QUOTING"}
    /\ Begin(c, [Idle EXCEPT !.stage = "EXPIRY", !.quote = v, !.target = target, !.at = now])
    /\ UNCHANGED <<status, now, quoteVars>>

\* What follows expireIfNeeded: nothing for a listing; a decision captures
\* the clock afresh and goes on to its own transaction.
AfterExpiry(c) ==
    IF inFlight[c].quote = NoQuote
    THEN Finish(c)
    ELSE inFlight' = [inFlight EXCEPT ![c].stage = "DECISION", ![c].at = now]

\* expireIfNeeded finds the sent quote past its expiry.  The transfer moves
\* only when it is QUOTED; the quote expires in any case.
ExpireSent(c, v) ==
    /\ inFlight[c].stage = "EXPIRY"
    /\ quotes[v] = "SENT"
    /\ expiresAt[v] <= inFlight[c].at
    /\ quotes' = [quotes EXCEPT ![v] = "EXPIRED"]
    /\ IF status = "QUOTED" THEN MoveTo("QUOTE_EXPIRED") ELSE UNCHANGED status
    /\ AfterExpiry(c)
    /\ UNCHANGED <<now, expiresAt, acceptedQuote>>

\* expireIfNeeded finds nothing to expire.
NothingToExpire(c) ==
    /\ inFlight[c].stage = "EXPIRY"
    /\ \A v \in QuoteId : quotes[v] = "SENT" => expiresAt[v] > inFlight[c].at
    /\ AfterExpiry(c)
    /\ UNCHANGED <<status, now, quoteVars>>

\* The guards of the transaction of decide, by the clock it captured.
CanDecide(v, at) == quotes[v] = "SENT" /\ status = "QUOTED" /\ expiresAt[v] > at

Decidable(c) ==
    /\ inFlight[c].stage = "DECISION"
    /\ CanDecide(inFlight[c].quote, inFlight[c].at)

AcceptQuote(c) ==
    /\ Decidable(c)
    /\ inFlight[c].target = "QUOTE_ACCEPTED"
    /\ MoveTo("QUOTE_ACCEPTED")
    /\ quotes' = [quotes EXCEPT ![inFlight[c].quote] = "ACCEPTED"]
    /\ acceptedQuote' = inFlight[c].quote
    /\ Finish(c)
    /\ UNCHANGED <<now, expiresAt>>

RejectQuote(c) ==
    /\ Decidable(c)
    /\ inFlight[c].target = "QUOTING"
    /\ MoveTo("QUOTING")
    /\ quotes' = [quotes EXCEPT ![inFlight[c].quote] = "REJECTED"]
    /\ Finish(c)
    /\ UNCHANGED <<now, expiresAt, acceptedQuote>>

\* The moves the Quote_lifecycle_valid trigger lets through.
QuoteLifecycleAllows(old, new) ==
    \/ new = old
    \/ old = "ABSENT" /\ new = "DRAFT"
    \/ old = "DRAFT"  /\ new = "SENT"
    \/ old = "SENT"   /\ new \in {"ACCEPTED", "REJECTED", "EXPIRED", "SUPERSEDED"}

\* The three partial unique indexes on Quote: at most one row per transfer
\* in each of these statuses.
OnePerStatus(s) == \A v, w \in QuoteId : quotes[v] = s /\ quotes[w] = s => v = w
=============================================================================
