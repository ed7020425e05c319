-------------------------- MODULE ResolutionService -------------------------
(***************************************************************************)
(* apps/api/src/resolution/service.ts for one transfer: the confirmations  *)
(* that complete it, disputes and their resolution, and refunds.           *)
(***************************************************************************)
EXTENDS PayoutService

CONSTANT Disputes  \* the Dispute rows that may be created

VARIABLES
    disputes,        \* Dispute.status by row; "ABSENT" when there is no row
    disputedStatus,  \* Dispute.previousTransferStatus by row
    refundCase       \* RefundCase.status; "NONE" when there is no case

resolutionVars == <<disputes, disputedStatus, refundCase>>

DisputeStatus == {"OPEN", "IN_REVIEW", "RESOLVED", "REJECTED"}
RefundStatus == {"PENDING", "REFUNDED", "FAILED"}
ResolutionAction == {"RESUME", "REFUND", "COMPLETE", "FAIL", "REJECT"}
DisputableStates == {"PAYOUT_IN_PROGRESS", "PAYOUT_REPORTED", "CONFIRMATION_PENDING"}

ResolutionInit ==
    /\ disputes = [d \in Disputes |-> "ABSENT"]
    /\ disputedStatus = [d \in Disputes |-> "REQUESTED"]
    /\ refundCase = "NONE"

\* What the completing operations ask of the payout.
PayoutAttested == payoutCase = "REPORTED" /\ "STAFF" \in confirmations

CanRequestConfirmation == status = "PAYOUT_REPORTED" /\ PayoutAttested

RequestSenderConfirmation ==
    /\ CanRequestConfirmation
    /\ MoveTo("CONFIRMATION_PENDING")
    /\ UNCHANGED <<now, inFlight, quoteVars, payoutVars, resolutionVars>>

CanConfirmReceipt == status = "CONFIRMATION_PENDING" /\ PayoutAttested

ConfirmRecipientReceived ==
    /\ CanConfirmReceipt
    /\ confirmations' = confirmations \cup {"SENDER"}
    /\ MoveTo("COMPLETED")
    /\ payoutCase' = "COMPLETED"
    /\ UNCHANGED <<now, inFlight, quoteVars, associate, evidence, resolutionVars>>

CanComplete == status \in {"PAYOUT_REPORTED", "CONFIRMATION_PENDING"} /\ PayoutAttested

CompleteByAdmin ==
    /\ CanComplete
    /\ MoveTo("COMPLETED")
    /\ payoutCase' = "COMPLETED"
    /\ UNCHANGED <<now, inFlight, quoteVars, associate, evidence, confirmations, resolutionVars>>

\* A mistake the properties must catch: the case is not paused.
OpenWithoutPause(d) ==
    /\ disputes[d] = "ABSENT"
    /\ status \in DisputableStates
    /\ disputes' = [disputes EXCEPT ![d] = "OPEN"]
    /\ disputedStatus' = [disputedStatus EXCEPT ![d] = status]
    /\ MoveTo("DISPUTED")
    /\ UNCHANGED <<now, inFlight, quoteVars, payoutVars, refundCase>>

\* openDispute remembers the status and pauses a payout in progress.
OpenDispute(d) ==
    /\ disputes[d] = "ABSENT"
    /\ status \in DisputableStates
    /\ disputes' = [disputes EXCEPT ![d] = "OPEN"]
    /\ disputedStatus' = [disputedStatus EXCEPT ![d] = status]
    /\ MoveTo("DISPUTED")
    /\ payoutCase' = IF payoutCase = "IN_PROGRESS" THEN "ON_HOLD" ELSE payoutCase
    /\ UNCHANGED <<now, inFlight, quoteVars, associate, evidence, confirmations, refundCase>>

\* A mistake the properties must catch: the update is not conditional.
TakeAnyDispute(d) ==
    /\ disputes[d] # "ABSENT"
    /\ disputes' = [disputes EXCEPT ![d] = "IN_REVIEW"]
    /\ UNCHANGED <<recordVars, quoteVars, payoutVars, disputedStatus, refundCase>>

\* takeDispute claims the row with a conditional update.
TakeDispute(d) ==
    /\ disputes[d] = "OPEN"
    /\ disputes' = [disputes EXCEPT ![d] = "IN_REVIEW"]
    /\ UNCHANGED <<recordVars, quoteVars, payoutVars, disputedStatus, refundCase>>

Active(d) == disputes[d] \in {"OPEN", "IN_REVIEW"}

\* Where each resolution of resolveDispute takes the transfer.
ResolutionTarget(d, action) ==
    CASE action = "REFUND"   -> "REFUND_PENDING"
      [] action = "COMPLETE" -> "COMPLETED"
      [] action = "FAIL"     -> "FAILED"
      [] OTHER -> IF disputedStatus[d] = "PAYOUT_IN_PROGRESS"
                  THEN "PAYOUT_IN_PROGRESS" ELSE "CONFIRMATION_PENDING"

\* Two mistakes the properties must catch: a reported case is left alone, and
\* the transfer's target is written to the case.
PausedCaseOnly(target) ==
    CASE payoutCase = "ON_HOLD" /\ target = "PAYOUT_IN_PROGRESS" -> "IN_PROGRESS"
      [] payoutCase = "ON_HOLD" /\ target # "PAYOUT_IN_PROGRESS" -> "FAILED"
      [] OTHER -> IF target = "COMPLETED" THEN "COMPLETED" ELSE payoutCase

CaseTakesTarget(target) == target

\* What resolveDispute writes to the case: a paused case follows the target,
\* a reported one changes only when the transfer ends or is refunded.
CaseAfterDispute(target) ==
    CASE payoutCase = "ON_HOLD" ->
            (CASE target = "PAYOUT_IN_PROGRESS" -> "IN_PROGRESS"
               [] target = "COMPLETED" -> "COMPLETED"
               [] OTHER -> "FAILED")
      [] payoutCase = "REPORTED" /\ target = "COMPLETED" -> "COMPLETED"
      [] payoutCase = "REPORTED" /\ target \in {"REFUND_PENDING", "FAILED"} -> "FAILED"
      [] OTHER -> payoutCase

\* createRefund needs the accepted quote; a transfer has one refund case.
Refundable == acceptedQuote # NoQuote

CreateRefund == refundCase' = "PENDING"

\* What resolveDispute asks.  Every dispute opened by this code has a verified
\* prior status, so the guard on migrated rows never rejects here.
CanResolve(d, action) ==
    /\ Active(d)
    /\ status = "DISPUTED"
    /\ ResolutionTarget(d, action) = "COMPLETED" => PayoutAttested
    /\ action = "REFUND" => Refundable

ResolveDispute(d, action) ==
    LET target == ResolutionTarget(d, action) IN
    /\ CanResolve(d, action)
    /\ MoveTo(target)
    /\ IF action = "REFUND" THEN CreateRefund ELSE UNCHANGED refundCase
    /\ payoutCase' = CaseAfterDispute(target)
    /\ disputes' = [disputes EXCEPT ![d] = IF action = "REJECT" THEN "REJECTED" ELSE "RESOLVED"]
    /\ UNCHANGED <<now, inFlight, quoteVars, associate, evidence, confirmations, disputedStatus>>

CanStartRefund ==
    refundCase = "NONE" /\ status \in {"FUNDS_CONFIRMED", "ON_HOLD"} /\ Refundable

StartRefund ==
    /\ CanStartRefund
    /\ CreateRefund
    /\ payoutCase' = IF payoutCase = "ON_HOLD" THEN "FAILED" ELSE payoutCase
    /\ MoveTo("REFUND_PENDING")
    /\ UNCHANGED <<now, inFlight, quoteVars, associate, evidence, confirmations,
                   disputes, disputedStatus>>

CanConfirmRefund == status = "REFUND_PENDING" /\ refundCase = "PENDING"

ConfirmRefund ==
    /\ CanConfirmRefund
    /\ refundCase' = "REFUNDED"
    /\ MoveTo("REFUNDED")
    /\ UNCHANGED <<now, inFlight, quoteVars, payoutVars, disputes, disputedStatus>>

\* The moves the dispute and refund triggers let through.
DisputeLifecycleAllows(old, new) ==
    \/ new = old
    \/ old = "ABSENT" /\ new = "OPEN"
    \/ old = "OPEN" /\ new \in {"IN_REVIEW", "RESOLVED", "REJECTED"}
    \/ old = "IN_REVIEW" /\ new \in {"RESOLVED", "REJECTED"}

RefundLifecycleAllows(old, new) ==
    \/ new = old
    \/ old = "NONE" /\ new = "PENDING"
    \/ old = "PENDING" /\ new \in {"REFUNDED", "FAILED"}

\* The partial unique index on active disputes.
OneActiveDispute == \A d, e \in Disputes : Active(d) /\ Active(e) => d = e
=============================================================================
