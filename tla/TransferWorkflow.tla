-------------------------- MODULE TransferWorkflow --------------------------
(***************************************************************************)
(* One transfer from its request to its end: the transfer, quote, funding, *)
(* payout and resolution services acting on the same row, with requests of *)
(* the sender and of staff in flight at once.                              *)
(***************************************************************************)
EXTENDS TransferService, FundingService, ResolutionService

vars == <<recordVars, quoteVars, fundingVars, payoutVars, resolutionVars>>

Init ==
    /\ RecordInit
    /\ QuoteInit
    /\ FundingInit
    /\ PayoutInit
    /\ ResolutionInit

\* Steps of the requests that read before they write.
ClientStep(c) ==
    \/ RequestCancellation(c)
    \/ \E target \in ReviewTargets : RequestReview(c, target)
    \/ ApplyTransition(c)
    \/ \E v \in QuoteId : RequestSend(c, v)
    \/ SendDraft(c)
    \/ RequestList(c)
    \/ \E v \in QuoteId, target \in {"QUOTE_ACCEPTED", "QUOTING"} : RequestDecision(c, v, target)
    \/ \E v \in QuoteId : ExpireSent(c, v)
    \/ NothingToExpire(c)
    \/ AcceptQuote(c)
    \/ RejectQuote(c)
    \/ Abandon(c) /\ UNCHANGED quoteVars

RequestStep ==
    /\ \E c \in Clients : ClientStep(c)
    /\ UNCHANGED <<fundingVars, payoutVars, resolutionVars>>

QuoteStep ==
    /\ \/ \E v \in QuoteId, validity \in Validities : CreateDraft(v, validity)
       \/ Tick /\ UNCHANGED quoteVars
    /\ UNCHANGED <<fundingVars, payoutVars, resolutionVars>>

FundingStep ==
    /\ \/ PublishInstruction
       \/ \E p \in Proofs :
            \/ SubmitReference(p)
            \/ RequestUpload(p)
            \/ CompleteUpload(p)
            \/ VerifyProof(p)
            \/ \E verdict \in {"NEEDS_RESUBMISSION", "REJECTED"} : ReturnProof(p, verdict)
            \/ ConfirmFunds(p)
    /\ UNCHANGED <<payoutVars, resolutionVars>>

PayoutStep ==
    /\ \/ \E contact \in {"NONE", "USABLE"}, references \in SUBSET {"RECORDED"} :
            CreateCase(contact, references)
       \/ \E contact \in {associate, "USABLE"}, references \in SUBSET {"RECORDED"} :
            UpdateCase(contact, references)
       \/ UpdateAssociate
       \/ \E kind \in {"PENDING", "RECORDED"} : AddEvidence(kind)
       \/ \E left \in SUBSET {"PENDING"} : CompleteEvidenceUpload(left)
       \/ \E references \in SUBSET {"RECORDED"} : ReportPayout(references)
       \/ PlaceHold
       \/ ReleaseHold
    /\ UNCHANGED <<fundingVars, resolutionVars>>

ResolutionStep ==
    /\ \/ RequestSenderConfirmation
       \/ ConfirmRecipientReceived
       \/ CompleteByAdmin
       \/ \E d \in Disputes :
            \/ OpenDispute(d)
            \/ TakeDispute(d)
            \/ \E action \in ResolutionAction : ResolveDispute(d, action)
       \/ StartRefund
       \/ ConfirmRefund
    /\ UNCHANGED fundingVars

Next == RequestStep \/ QuoteStep \/ FundingStep \/ PayoutStep \/ ResolutionStep

Spec == Init /\ [][Next]_vars

-----------------------------------------------------------------------------

\* Every variable stays in the range its column or its request allows.
TypeOK ==
    /\ status \in TransferStatus
    /\ now \in Nat
    /\ inFlight \in [Clients -> Request]
    /\ quotes \in [QuoteId -> QuoteStatus \cup {"ABSENT"}]
    /\ expiresAt \in [QuoteId -> Nat]
    /\ acceptedQuote \in QuoteId \cup {NoQuote}
    /\ instruction \in QuoteId \cup {NoQuote}
    /\ proofs \in [Proofs -> ProofStatus \cup {"ABSENT"}]
    /\ uploadBy \in [Proofs -> Nat]
    /\ payoutCase \in CaseStatus \cup {"NONE"}
    /\ associate \in {"NONE", "USABLE", "UNUSABLE"}
    /\ evidence \subseteq {"PENDING", "RECORDED"}
    /\ confirmations \subseteq {"STAFF", "SENDER"}
    /\ disputes \in [Disputes -> DisputeStatus \cup {"ABSENT"}]
    /\ disputedStatus \in [Disputes -> TransferStatus]
    /\ refundCase \in RefundStatus \cup {"NONE"}

\* The statuses of a transfer whose sender has accepted a quote and whose
\* money Hawelly has not yet confirmed, and those after it has.
AwaitingFunds == {"QUOTE_ACCEPTED", "FUNDING_PENDING", "FUNDING_SUBMITTED"}
Funded == {"FUNDS_CONFIRMED", "PAYOUT_IN_PROGRESS", "PAYOUT_REPORTED",
           "CONFIRMATION_PENDING", "COMPLETED", "ON_HOLD", "DISPUTED",
           "REFUND_PENDING", "REFUNDED", "FAILED"}

\* The payout case and the transfer are two rows written by five operations
\* of two services; they agree at every commit.  In particular a transfer
\* completes exactly when its case does, a paused case belongs to a held or
\* disputed transfer, and a refunded or failed one never leaves a live case.
CaseAgreesWithTransfer ==
    /\ status \in BeforeFunds \cup {"FUNDS_CONFIRMED"} => payoutCase = "NONE"
    /\ status = "PAYOUT_IN_PROGRESS" <=> payoutCase = "IN_PROGRESS"
    /\ status = "ON_HOLD" => payoutCase = "ON_HOLD"
    /\ status \in {"PAYOUT_REPORTED", "CONFIRMATION_PENDING"} => payoutCase = "REPORTED"
    /\ status = "DISPUTED" => payoutCase \in {"ON_HOLD", "REPORTED"}
    /\ status = "COMPLETED" <=> payoutCase = "COMPLETED"
    /\ status \in {"REFUND_PENDING", "REFUNDED"} => payoutCase \in {"NONE", "FAILED"}
    /\ status = "FAILED" => payoutCase = "FAILED"
    /\ status = "CANCELLED" => payoutCase \in {"NONE", "ON_HOLD"}

\* Accepting writes the quote, the link and the status in one transaction:
\* from then on the link names the accepted quote, no other quote is accepted
\* or still on offer, and the sender never lands on a version that a newer
\* one had replaced.
AcceptanceIsFinal ==
    /\ \A v \in QuoteId : quotes[v] = "ACCEPTED" <=> acceptedQuote = v
    /\ status \in AwaitingFunds \cup Funded => acceptedQuote # NoQuote
    /\ acceptedQuote # NoQuote =>
         /\ status \in AwaitingFunds \cup Funded \cup {"CANCELLED"}
         /\ \A v \in QuoteId : quotes[v] # "SENT"
         /\ \A v \in QuoteId : v > acceptedQuote => quotes[v] \in {"ABSENT", "DRAFT"}

\* Money is taken as received only behind a verified proof for the published
\* instruction of the accepted quote, and a proof waits for review exactly
\* while the transfer says so, whatever uploads, replacements, reviews and
\* cancellations happen around it.
FundsRestOnVerifiedProof ==
    /\ instruction # NoQuote => instruction = acceptedQuote
    /\ status \in Funded => instruction # NoQuote /\ \E p \in Proofs : proofs[p] = "VERIFIED"
    /\ status = "FUNDING_SUBMITTED" =>
         \E p \in Proofs : proofs[p] \in {"SUBMITTED", "VERIFIED"}
    /\ \A p \in Proofs :
         /\ proofs[p] = "SUBMITTED" => status = "FUNDING_SUBMITTED"
         /\ proofs[p] = "VERIFIED" => status \in Funded \cup {"FUNDING_SUBMITTED", "CANCELLED"}
    /\ \A p, q \in Proofs : {proofs[p], proofs[q]} \subseteq {"SUBMITTED", "VERIFIED"} => p = q

\* A transfer is DISPUTED exactly while one dispute is open, and what the
\* dispute remembers matches what the case was paused in: resuming it can
\* neither restart a payout that was reported nor confirm one that was not.
DisputeAgreesWithCase ==
    /\ status = "DISPUTED" <=> \E d \in Disputes : Active(d)
    /\ OneActiveDispute
    /\ \A d \in Disputes : Active(d) =>
         IF disputedStatus[d] = "PAYOUT_IN_PROGRESS"
         THEN payoutCase = "ON_HOLD"
         ELSE payoutCase = "REPORTED" /\ disputedStatus[d] \in DisputableStates

\* The money goes one way: a refund case exists exactly for a transfer that
\* is being or has been refunded, a completed transfer has staff's word that
\* it was paid out, and no transfer is both.  A payout that was reported once
\* is never in the operators' hands again, whatever holds, disputes and
\* resumptions come after: the recipient is not paid twice.
PaidOutOrRefunded ==
    /\ refundCase = "PENDING"  <=> status = "REFUND_PENDING"
    /\ refundCase = "REFUNDED" <=> status = "REFUNDED"
    /\ payoutCase \in {"REPORTED", "COMPLETED"} => "STAFF" \in confirmations
    /\ "STAFF" \in confirmations =>
         "RECORDED" \in evidence /\ payoutCase \in {"REPORTED", "COMPLETED", "FAILED"}
    /\ "SENDER" \in confirmations => status = "COMPLETED"
    /\ refundCase # "NONE" => payoutCase \in {"NONE", "FAILED"}

\* What the unique indexes and lifecycle triggers of the migrations let a
\* transaction do.
DatabaseAccepts ==
    /\ \A v \in QuoteId : QuoteLifecycleAllows(quotes[v], quotes'[v])
    /\ \A s \in {"DRAFT", "SENT", "ACCEPTED"} : OnePerStatus(s)'
    /\ \A p \in Proofs : ProofLifecycleAllows(proofs[p], proofs'[p])
    /\ OneActiveProof'
    /\ CaseLifecycleAllows(payoutCase, payoutCase')
    /\ \A d \in Disputes : DisputeLifecycleAllows(disputes[d], disputes'[d])
    /\ OneActiveDispute'
    /\ RefundLifecycleAllows(refundCase, refundCase')

\* The indexes and triggers stand behind the services' own checks; no step a
\* service takes is one they reject, so no operation fails half way with a
\* database error the services never translate.
DatabaseAcceptsEveryStep == [][DatabaseAccepts]_vars

-----------------------------------------------------------------------------

\* Who has the money, read off the rows: the services never store it.
Custody ==
    IF refundCase = "REFUNDED" THEN "RETURNED"
    ELSE IF payoutCase = "COMPLETED" THEN "RECIPIENT"
    ELSE IF status \in Funded \/ payoutCase # "NONE" THEN "HAWELLY"
    ELSE "SENDER"

Lifecycle == INSTANCE TransferLifecycle WITH custody <- Custody

\* Every step of every service, taken from whatever a request had read, is a
\* step of the published life cycle or none at all: no stale cancellation or
\* review overtakes an acceptance, an ended transfer stays ended, and the
\* money is received once and leaves once.
ImplementsLifecycle == Lifecycle!Spec

\* What becomes of a proof's row, the transfer's status and the clock aside.
ProofRow ==
    [p \in Proofs |->
        IF proofs[p] = "ABSENT" THEN "ABSENT"
        ELSE IF proofs[p] # "PENDING_UPLOAD" THEN "RECORDED"
        ELSE IF p \in StaleProofs THEN "LAPSED" ELSE "PENDING"]

Submissions == INSTANCE ProofRows WITH awaited <- status = "FUNDING_PENDING", proof <- ProofRow

\* Whatever reviews, returns and cancellations surround them, the rows of the
\* sender's proofs move as the ones whose files are modelled with
\* EvidenceUpload: one at a time is waited for, only a later submission takes
\* it away, once its link has lapsed, and what was recorded stays.
ImplementsProofRows == Submissions!Spec

\* A comment in the resolution migration: "the case status must agree with
\* the terminal transfer outcome".  A sender may cancel a transfer that is on
\* hold, and the payout case then stays ON_HOLD for good.
CancelledCaseIsClosed ==
    status = "CANCELLED" => payoutCase \in {"NONE", "FAILED"}

\* The quote design notes: expired quotes "move the transfer to
\* QUOTE_EXPIRED when observed".  A review that takes a QUOTED transfer back
\* to QUOTING leaves its quote on offer, and expiring it then moves nothing.
ObservedExpiryMovesTransfer ==
    [][\A v \in QuoteId : quotes[v] = "SENT" /\ quotes'[v] = "EXPIRED"
            => status' = "QUOTE_EXPIRED"]_vars

\* The quote design notes: operations support "retrying a saved draft, and
\* replacement quote creation".  A draft that outlives its expiry can be
\* neither sent nor replaced, so a transfer with no quote on offer can never
\* be quoted again.
QuotingCanContinue ==
    status = "QUOTING" =>
        \/ ~HasQuote("DRAFT")
        \/ \E v \in QuoteId : quotes[v] = "DRAFT" /\ expiresAt[v] > now
=============================================================================
