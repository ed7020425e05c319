------------------------------- MODULE Portal -------------------------------
(***************************************************************************)
(* Which steps of a transfer the clients offer to whom: the operations     *)
(* portal and the sender pages of apps/web and the transfer screen of the  *)
(* Android app, each with its own lists of statuses and capabilities, next *)
(* to what the API's routes ask for and what the services accept.  A page  *)
(* is taken as just loaded; that a page may be stale by the time a button  *)
(* is pressed is what the services' own guards, modelled elsewhere, are    *)
(* for.                                                                    *)
(***************************************************************************)
EXTENDS TransferWorkflow

CONSTANT Desks  \* the capability sets of the members of staff looked at

Capability ==
    {"TRANSFER_REVIEW", "QUOTE_MANAGE", "FUNDING_REVIEW", "PAYOUT_MANAGE",
     "TRANSFER_HOLD", "DISPUTE_MANAGE", "REFUND_MANAGE", "ASSOCIATE_VIEW"}

ASSUME DesksAssumption == Desks \subseteq SUBSET Capability

\* A person at the portal.  An administrator has every capability.
Staff == [admin : {FALSE}, can : Desks]
Administrator == [admin |-> TRUE, can |-> Capability]

Offer(condition, steps) == IF condition THEN steps ELSE {}

-----------------------------------------------------------------------------
\* What a member of staff is offered on the page of a transfer.

\* A mistake the properties must catch: a status is missing from the list.
QueueWithoutDisputes ==
    {"REQUESTED", "NEEDS_INFO", "QUOTING", "QUOTED", "QUOTE_ACCEPTED",
     "FUNDING_PENDING", "FUNDING_SUBMITTED", "FUNDS_CONFIRMED",
     "PAYOUT_IN_PROGRESS", "PAYOUT_REPORTED", "CONFIRMATION_PENDING",
     "ON_HOLD", "REFUND_PENDING"}

\* The transfers listOperationsRequests returns; the page opens no other.
OperationsQueue ==
    {"REQUESTED", "NEEDS_INFO", "QUOTING", "QUOTED", "QUOTE_ACCEPTED",
     "FUNDING_PENDING", "FUNDING_SUBMITTED", "FUNDS_CONFIRMED",
     "PAYOUT_IN_PROGRESS", "PAYOUT_REPORTED", "CONFIRMATION_PENDING",
     "ON_HOLD", "DISPUTED", "REFUND_PENDING"}

ReviewPanel ==
    Offer(status \in {"REQUESTED", "NEEDS_INFO"},
          {"START_QUOTING", "REQUEST_INFO", "DECLINE"})

\* The latest version decides: a draft is sent, anything else is replaced.
QuotePanel(person) ==
    Offer("QUOTE_MANAGE" \in person.can /\ status \in {"QUOTING", "QUOTED"},
          IF HasQuote("DRAFT") THEN {"SEND_DRAFT"} ELSE {"PREPARE_QUOTE"})

FundingActions(person) ==
    Offer("FUNDING_REVIEW" \in person.can
            /\ status \in {"QUOTE_ACCEPTED", "FUNDING_PENDING", "FUNDING_SUBMITTED", "FUNDS_CONFIRMED"},
          Offer(status = "QUOTE_ACCEPTED" /\ instruction = NoQuote, {"PUBLISH"})
            \cup Offer(\E p \in Proofs : proofs[p] = "SUBMITTED", {"REVIEW_PROOF"})
            \cup Offer(status = "FUNDING_SUBMITTED" /\ \E p \in Proofs : proofs[p] = "VERIFIED",
                       {"CONFIRM_FUNDS"}))

\* The case form sends the contact it was loaded with unless another is
\* chosen, which takes ASSOCIATE_VIEW.
PayoutActions(person) ==
    Offer("PAYOUT_MANAGE" \in person.can
            /\ status \in {"FUNDS_CONFIRMED", "PAYOUT_IN_PROGRESS", "PAYOUT_REPORTED", "ON_HOLD"},
          Offer(payoutCase = "NONE" /\ status = "FUNDS_CONFIRMED", {"CREATE_CASE"})
            \cup Offer(payoutCase = "IN_PROGRESS", {"KEEP_CONTACT", "ADD_EVIDENCE", "HOLD"})
            \cup Offer(payoutCase = "IN_PROGRESS" /\ "ASSOCIATE_VIEW" \in person.can,
                       {"CHANGE_CONTACT"})
            \cup Offer(payoutCase = "IN_PROGRESS" /\ associate # "NONE", {"REPORT"})
            \cup Offer(payoutCase = "ON_HOLD", {"RELEASE"}))

\* A mistake the properties must catch: the refund form asks for no status.
RefundAnytime(person) ==
    Offer("REFUND_MANAGE" \in person.can /\ refundCase = "NONE" /\ acceptedQuote # NoQuote,
          {"START_REFUND"})

DisputeForm(person) ==
    Offer("DISPUTE_MANAGE" \in person.can,
          Offer(\E d \in Disputes : disputes[d] = "OPEN", {"REVIEW_DISPUTE"})
            \cup Offer(\E d \in Disputes : disputes[d] = "IN_REVIEW",
                       {"RESUME", "REJECT", "REFUND"}
                         \cup Offer(person.admin, {"RESOLVE_COMPLETE", "FAIL"})))

RefundForm(person) ==
    Offer("REFUND_MANAGE" \in person.can /\ status \in {"FUNDS_CONFIRMED", "ON_HOLD"}
            /\ refundCase = "NONE",
          {"START_REFUND"})

ResolutionActions(person) ==
    Offer(/\ person.can \cap {"PAYOUT_MANAGE", "DISPUTE_MANAGE", "REFUND_MANAGE"} # {}
          /\ status \in {"FUNDS_CONFIRMED", "PAYOUT_REPORTED", "CONFIRMATION_PENDING", "ON_HOLD",
                         "DISPUTED", "REFUND_PENDING", "REFUNDED", "COMPLETED"},
          Offer(status = "PAYOUT_REPORTED",
                {"REQUEST_CONFIRMATION"} \cup Offer(person.admin, {"COMPLETE"}))
            \cup DisputeForm(person)
            \cup RefundForm(person)
            \cup Offer(refundCase = "PENDING" /\ person.admin, {"CONFIRM_REFUND"}))

OffersTo(person) ==
    Offer("TRANSFER_REVIEW" \in person.can /\ status \in OperationsQueue,
          ReviewPanel \cup QuotePanel(person) \cup FundingActions(person)
            \cup PayoutActions(person) \cup ResolutionActions(person))

-----------------------------------------------------------------------------
\* What the sender is offered.

\* Opening the page lists the quotes, which expires one that is past due.
OnOffer == \E v \in QuoteId : quotes[v] = "SENT" /\ expiresAt[v] > now

\* The three panels of the sender's page in apps/web.
TransferDetail ==
    Offer(status \in {"REQUESTED", "NEEDS_INFO", "QUOTING", "QUOTED", "QUOTE_ACCEPTED",
                      "FUNDING_PENDING"}, {"CANCEL"})
      \cup Offer(OnOffer, {"DECIDE"})

FundingPanel ==
    Offer(instruction # NoQuote /\ status = "FUNDING_PENDING", {"SUBMIT_PROOF"})

ResolutionPanel ==
    Offer(status = "CONFIRMATION_PENDING", {"CONFIRM_RECEIPT"})
      \cup Offer((~\E d \in Disputes : Active(d))
                   /\ status \in {"PAYOUT_IN_PROGRESS", "PAYOUT_REPORTED", "CONFIRMATION_PENDING"},
                 {"DISPUTE"})

WebOffers == TransferDetail \cup FundingPanel \cup ResolutionPanel

\* The sections of the Android screen.  It cannot cancel, and its dispute
\* carries a category that openDisputeSchema does not know.
QuoteSection == Offer(OnOffer, {"DECIDE"})

FundingSection == Offer(status = "FUNDING_PENDING", {"SUBMIT_PROOF"})

ResolutionSection ==
    Offer(status = "CONFIRMATION_PENDING", {"CONFIRM_RECEIPT"})
      \cup Offer(status \in {"PAYOUT_IN_PROGRESS", "PAYOUT_REPORTED", "CONFIRMATION_PENDING"},
                 {"UNKNOWN_DISPUTE"})

AndroidOffers == QuoteSection \cup FundingSection \cup ResolutionSection

-----------------------------------------------------------------------------
\* The steps whose requests the proxy of apps/web passes on; the Android app
\* speaks to the API itself.
RouteRules ==
    {"CANCEL", "DECIDE", "SUBMIT_PROOF", "CONFIRM_RECEIPT", "DISPUTE"}
      \cup {"START_QUOTING", "REQUEST_INFO", "DECLINE", "PREPARE_QUOTE", "SEND_DRAFT"}
      \cup {"PUBLISH", "REVIEW_PROOF", "CONFIRM_FUNDS"}
      \cup {"CREATE_CASE", "KEEP_CONTACT", "CHANGE_CONTACT", "ADD_EVIDENCE", "REPORT", "HOLD", "RELEASE"}
      \cup {"REQUEST_CONFIRMATION", "COMPLETE", "START_REFUND", "CONFIRM_REFUND"}
      \cup {"REVIEW_DISPUTE", "RESUME", "REJECT", "REFUND", "RESOLVE_COMPLETE", "FAIL"}

\* What the routes ask of a member of staff, router by router.
Ask(steps, capabilities, step) == IF step \in steps THEN capabilities ELSE {}

TransferRoutes(step) == Ask({"START_QUOTING", "REQUEST_INFO", "DECLINE"}, {"TRANSFER_REVIEW"}, step)

QuoteRoutes(step) == Ask({"PREPARE_QUOTE", "SEND_DRAFT"}, {"TRANSFER_REVIEW", "QUOTE_MANAGE"}, step)

FundingRoutes(step) == Ask({"PUBLISH", "REVIEW_PROOF", "CONFIRM_FUNDS"}, {"FUNDING_REVIEW"}, step)

PayoutRoutes(step) ==
    Ask({"CREATE_CASE", "KEEP_CONTACT", "CHANGE_CONTACT", "ADD_EVIDENCE", "REPORT",
         "HOLD", "RELEASE"}, {"PAYOUT_MANAGE"}, step)
      \cup Ask({"HOLD", "RELEASE"}, {"TRANSFER_HOLD"}, step)

\* REFUND asks for its second capability in resolveDispute itself.
ResolutionRoutes(step) ==
    Ask({"REQUEST_CONFIRMATION", "COMPLETE"}, {"PAYOUT_MANAGE"}, step)
      \cup Ask({"REVIEW_DISPUTE", "RESUME", "REJECT", "REFUND", "RESOLVE_COMPLETE", "FAIL"},
               {"DISPUTE_MANAGE"}, step)
      \cup Ask({"REFUND", "START_REFUND", "CONFIRM_REFUND"}, {"REFUND_MANAGE"}, step)

Routes(step) ==
    TransferRoutes(step) \cup QuoteRoutes(step) \cup FundingRoutes(step)
      \cup PayoutRoutes(step) \cup ResolutionRoutes(step)

\* The services' own requireAdmin.
AdministratorOnly == {"COMPLETE", "RESOLVE_COMPLETE", "FAIL", "CONFIRM_REFUND"}

\* requireCapability lets an administrator pass; no router knows a step that
\* nothing is asked for.
Permitted(person, step) ==
    /\ Routes(step) # {}
    /\ person.admin \/ (Routes(step) \subseteq person.can /\ step \notin AdministratorOnly)

-----------------------------------------------------------------------------
\* What the services accept from a request that reads nothing stale: what they
\* ask of the rows, and of the table for the status they write.
May(guard, target) == guard /\ CanMove(status, target)

AcceptedEarly ==
    Offer(CanMove(status, "QUOTING"), {"START_QUOTING"})
      \cup Offer(CanMove(status, "NEEDS_INFO"), {"REQUEST_INFO"})
      \cup Offer(CanMove(status, "DECLINED"), {"DECLINE"})
      \cup Offer(CanMove(status, "CANCELLED"), {"CANCEL"})
      \cup Offer(CanDraft, {"PREPARE_QUOTE"})
      \cup Offer(\E v \in QuoteId : Sendable(v, now), {"SEND_DRAFT"})
      \cup Offer(May(\E v \in QuoteId : CanDecide(v, now), "QUOTE_ACCEPTED"), {"DECIDE"})
      \cup Offer(May(CanPublish, "FUNDING_PENDING"), {"PUBLISH"})
      \cup Offer(May(CanSubmitProof, "FUNDING_SUBMITTED"), {"SUBMIT_PROOF"})
      \cup Offer(May(\E p \in Proofs : Reviewable(p), "FUNDING_PENDING"), {"REVIEW_PROOF"})
      \cup Offer(May(\E p \in Proofs : Confirmable(p), "FUNDS_CONFIRMED"), {"CONFIRM_FUNDS"})

AcceptedPayout ==
    Offer(May(CanCreateCase, "PAYOUT_IN_PROGRESS"), {"CREATE_CASE"})
      \cup Offer(CanUpdateCase, {"CHANGE_CONTACT"})
      \cup Offer(CanUpdateCase /\ associate # "UNUSABLE", {"KEEP_CONTACT"})
      \cup Offer(CaseOpen, {"ADD_EVIDENCE"})
      \cup Offer(May(CanReport({"RECORDED"}), "PAYOUT_REPORTED"), {"REPORT"})
      \cup Offer(May(CaseOpen, "ON_HOLD"), {"HOLD"})
      \cup Offer(CanRelease, {"RELEASE"})

Resolvable(action) ==
    \E d \in Disputes : May(CanResolve(d, action), ResolutionTarget(d, action))

AcceptedResolution ==
    Offer(May(CanRequestConfirmation, "CONFIRMATION_PENDING"), {"REQUEST_CONFIRMATION"})
      \cup Offer(May(CanConfirmReceipt, "COMPLETED"), {"CONFIRM_RECEIPT"})
      \cup Offer(May(CanComplete, "COMPLETED"), {"COMPLETE"})
      \cup Offer(May(status \in DisputableStates, "DISPUTED"), {"DISPUTE"})
      \cup Offer(\E d \in Disputes : disputes[d] = "OPEN", {"REVIEW_DISPUTE"})
      \cup {action \in {"RESUME", "REJECT", "REFUND", "FAIL"} : Resolvable(action)}
      \cup Offer(Resolvable("COMPLETE"), {"RESOLVE_COMPLETE"})
      \cup Offer(May(CanStartRefund, "REFUND_PENDING"), {"START_REFUND"})
      \cup Offer(May(CanConfirmRefund, "REFUNDED"), {"CONFIRM_REFUND"})

Accepted == AcceptedEarly \cup AcceptedPayout \cup AcceptedResolution

\* What a service asks before it writes is all that is asked of the step: no
\* operation passes its own checks and is then refused half way, by the table
\* or for a row that it needs.  Steps that would need one more row than there
\* is, or a request of their own, are left out.
NothingElseIsAsked ==
    /\ CanPublish <=> ENABLED PublishInstruction
    /\ \A p \in Proofs :
         /\ Reviewable(p) <=> ENABLED VerifyProof(p)
         /\ Reviewable(p) <=> ENABLED ReturnProof(p, "REJECTED")
         /\ Confirmable(p) <=> ENABLED ConfirmFunds(p)
    /\ CanCreateCase <=> ENABLED CreateCase("NONE", {})
    /\ CanUpdateCase <=> ENABLED UpdateCase("USABLE", {})
    /\ CaseOpen <=> ENABLED AddEvidence("RECORDED")
    /\ CanReport({"RECORDED"}) <=> ENABLED ReportPayout({"RECORDED"})
    /\ CaseOpen <=> ENABLED PlaceHold
    /\ CanRelease <=> ENABLED ReleaseHold
    /\ CanRequestConfirmation <=> ENABLED RequestSenderConfirmation
    /\ CanConfirmReceipt <=> ENABLED ConfirmRecipientReceived
    /\ CanComplete <=> ENABLED CompleteByAdmin
    /\ \A d \in Disputes, action \in ResolutionAction :
         CanResolve(d, action) <=> ENABLED ResolveDispute(d, action)
    /\ CanStartRefund <=> ENABLED StartRefund
    /\ CanConfirmRefund <=> ENABLED ConfirmRefund

-----------------------------------------------------------------------------
\* The places where the code offers a step that it then refuses.

ExpiredDraft == \E v \in QuoteId : quotes[v] = "DRAFT" /\ expiresAt[v] <= now
UploadPending == \E p \in Proofs : proofs[p] = "PENDING_UPLOAD" /\ uploadBy[p] > now

RefusedToStaff(person) ==
    Offer(status = "NEEDS_INFO", {"REQUEST_INFO"})
      \cup Offer(ExpiredDraft, {"SEND_DRAFT"})
      \cup Offer(associate = "UNUSABLE", {"KEEP_CONTACT", "REPORT"})
      \cup Offer(payoutCase = "ON_HOLD", {"RESOLVE_COMPLETE"})
      \cup Offer("TRANSFER_HOLD" \notin person.can, {"HOLD", "RELEASE"})
      \cup Offer("PAYOUT_MANAGE" \notin person.can, {"REQUEST_CONFIRMATION"})
      \cup Offer("REFUND_MANAGE" \notin person.can, {"REFUND"})

RefusedToSender ==
    Offer(status \in {"QUOTING", "NEEDS_INFO", "DECLINED"}, {"DECIDE"})
      \cup Offer(UploadPending, {"SUBMIT_PROOF"})
      \cup {"UNKNOWN_DISPUTE"}

\* Every step that a page just loaded offers is one its user may take and the
\* service accepts, but for the refusals named above: the lists of statuses
\* and capabilities the three clients repeat, the proxy's and the routes'
\* guards and the services' conditions on quote, proof, case, dispute and
\* refund rows have not drifted apart anywhere else.
OfferIsAccepted ==
    LET accepted == Accepted IN
    /\ \A person \in Staff \cup {Administrator} :
         \A step \in OffersTo(person) \ RefusedToStaff(person) :
             step \in accepted \cap RouteRules /\ Permitted(person, step)
    /\ WebOffers \subseteq RouteRules
    /\ (WebOffers \cup AndroidOffers) \ RefusedToSender \subseteq accepted

\* A transfer that has not ended is never abandoned by the clients: whatever
\* row it waits in, somebody who opens its page is offered a step, other than
\* giving it up, that the API lets them take.  Two waits are named: a draft
\* past its expiry, which nothing can replace, and an upload that was lost,
\* which holds the sender up until its link lapses.
SomebodyCanGoOn ==
    status \in {"COMPLETED", "DECLINED", "CANCELLED", "QUOTE_EXPIRED", "REFUNDED", "FAILED"}
      \/ (Quotable /\ ExpiredDraft)
      \/ (status = "FUNDING_PENDING" /\ UploadPending)
      \/ LET accepted == Accepted IN
         \/ (WebOffers \ {"CANCEL"}) \cap accepted # {}
         \/ \E person \in Staff \cup {Administrator} :
              \E step \in (OffersTo(person) \ {"DECLINE"}) \cap accepted : Permitted(person, step)
=============================================================================
