---------------------------- MODULE PortalProofs ----------------------------
(***************************************************************************)
(* What the clients offer, proved of every reachable state of the          *)
(* workflow and for every staff: a step that is offered may be taken, but  *)
(* for the refusals that Portal names, and a transfer that has not ended   *)
(* has one.  Both follow from the invariant of TransferWorkflow and two    *)
(* facts about what a status rules out: a quote is on offer only while     *)
(* the transfer can still be quoted or declined, and an accepted quote has *)
(* no funding instruction yet.                                             *)
(***************************************************************************)
EXTENDS Portal, TransferWorkflowProofs

-----------------------------------------------------------------------------
(* The invariant *)

\* A quote on offer stays on offer only where no acceptance went by.
QuotesInForce ==
    HasQuote("SENT") => status \in {"QUOTED", "QUOTING", "NEEDS_INFO", "DECLINED"}

NotYetInstructed == status = "QUOTE_ACCEPTED" => instruction = NoQuote

PortalInvariant == Invariant /\ QuotesInForce /\ NotYetInstructed

\* A request of the transfer or quote service that leaves a quote on offer
\* moves the transfer among the statuses before an acceptance.
LEMMA RequestStepKeepsOffers ==
    ASSUME PortalInvariant, RequestStep
    PROVE  QuotesInForce'
<1> USE DEF PortalInvariant, Invariant, QuotesInForce, HasQuote
<1>1. PICK c \in Clients : ClientStep(c)
    BY DEF RequestStep
<1>2. CASE ApplyTransition(c)
  <2>1. CanMove(status, status') /\ status' \in ReviewTargets \cup {"CANCELLED"}
      BY <1>2 DEF ApplyTransition, RequestsChecked
  <2>2. /\ HasQuote("SENT")' => HasQuote("SENT")
        /\ status' = "CANCELLED" => ~HasQuote("SENT")'
      BY <1>2 DEF ApplyTransition, Superseded
  <2> QED
      BY <2>1, <2>2 DEF CanMove, ReviewTargets
<1>3. CASE SendDraft(c)
    BY <1>3 DEF SendDraft, Sendable, Quotable, MoveTo
<1>4. CASE AcceptQuote(c)
  <2>1. PICK v \in QuoteId : quotes[v] = "SENT" /\ quotes' = [quotes EXCEPT ![v] = "ACCEPTED"]
      BY <1>4 DEF AcceptQuote, Decidable, CanDecide, RequestsChecked
  <2>2. \A w \in QuoteId : w # v => quotes[w] # "SENT"
      BY <2>1, BoundsAssumption DEF QuoteInvariant, QuotesInOrder, QuoteId
  <2> QED
      BY <2>1, <2>2 DEF TypeOK
<1>5. CASE RejectQuote(c)
    BY <1>5 DEF RejectQuote, MoveTo
<1>6. CASE \E v \in QuoteId : ExpireSent(c, v)
  <2>1. PICK v \in QuoteId : ExpireSent(c, v)
      BY <1>6
  <2>2. \A w \in QuoteId : w # v => quotes[w] # "SENT"
      BY <2>1, BoundsAssumption DEF ExpireSent, QuoteInvariant, QuotesInOrder, QuoteId
  <2> QED
      BY <2>1, <2>2 DEF ExpireSent, TypeOK
<1>7. CASE UNCHANGED <<status, quotes>>
    BY <1>7
<1> QED
    BY <1>1, <1>2, <1>3, <1>4, <1>5, <1>6, <1>7
    DEF ClientStep, RequestCancellation, RequestReview, ReadStatus, RequestSend, RequestList,
        RequestDecision, NothingToExpire, Abandon, quoteVars

\* The other services leave the offers alone, and the statuses too unless an
\* acceptance went by.
LEMMA StepKeepsOffers ==
    ASSUME PortalInvariant, [Next]_vars
    PROVE  QuotesInForce'
<1> USE DEF PortalInvariant, Invariant, QuotesInForce, HasQuote
<1>1. CASE RequestStep
    BY <1>1, RequestStepKeepsOffers
<1>2. CASE QuoteStep
    BY <1>2 DEF QuoteStep, CreateDraft, CanDraft, Quotable, Tick, recordVars, quoteVars
<1>3. CASE FundingStep
    BY <1>3
    DEF FundingStep, PublishInstruction, CanPublish, SubmitReference, RequestUpload,
        CompleteUpload, VerifyProof, ReturnProof, Reviewable, ConfirmFunds, Confirmable,
        ProofAllowed, CanSubmitProof, quoteVars, recordVars
<1>4. CASE PayoutStep \/ ResolutionStep
    BY <1>4, LateStep DEF quoteVars, Funded
<1>5. CASE UNCHANGED vars
    BY <1>5 DEF vars, recordVars, quoteVars
<1> QED
    BY <1>1, <1>2, <1>3, <1>4, <1>5 DEF Next

\* An acceptance finds no instruction, and publishing one ends its status.
LEMMA StepKeepsNotYetInstructed ==
    ASSUME PortalInvariant, [Next]_vars
    PROVE  NotYetInstructed'
<1> USE DEF PortalInvariant, Invariant, NotYetInstructed
<1>1. CASE RequestStep
  <2>1. /\ UNCHANGED fundingVars
        /\ UNCHANGED status \/ CanMove(status, status')
      BY <1>1, RequestStepStatus
  <2>2. status = "QUOTED" => instruction = NoQuote
      BY DEF QuoteInvariant, AcceptanceIsFinal, FundingInvariant, FundsRestOnVerifiedProof,
             AwaitingFunds, Funded
  <2> QED
      BY <2>1, <2>2 DEF CanMove, fundingVars
<1>2. CASE QuoteStep
    BY <1>2 DEF QuoteStep, CreateDraft, Tick, recordVars, fundingVars
<1>3. CASE FundingStep
    BY <1>3
    DEF FundingStep, PublishInstruction, SubmitReference, RequestUpload, CompleteUpload,
        VerifyProof, ReturnProof, ConfirmFunds, MoveTo, fundingVars, recordVars
<1>4. CASE PayoutStep \/ ResolutionStep
    BY <1>4, LateStep DEF fundingVars, Funded
<1>5. CASE UNCHANGED vars
    BY <1>5 DEF vars, recordVars, fundingVars
<1> QED
    BY <1>1, <1>2, <1>3, <1>4, <1>5 DEF Next

\* Everything that the offers rest on holds in every reachable state.
LEMMA OffersRestOnThis == Spec => []PortalInvariant
<1>1. Init => PortalInvariant
    BY InitInvariant
    DEF PortalInvariant, QuotesInForce, NotYetInstructed, HasQuote, Init, RecordInit, QuoteInit
<1>2. PortalInvariant /\ [Next]_vars => PortalInvariant'
    BY StepInvariant, StepKeepsOffers, StepKeepsNotYetInstructed DEF PortalInvariant
<1> QED
    BY <1>1, <1>2, PTL DEF Spec

-----------------------------------------------------------------------------
(* What is accepted, and from whom *)

\* Any member of staff, and the administrator, has capabilities.
LEMMA People ==
    ASSUME NEW person \in Staff \cup {Administrator}
    PROVE  /\ person.admin \in BOOLEAN
           /\ person.can \subseteq Capability
           /\ person.admin => person.can = Capability
<1>1. CASE person \in Staff
    BY <1>1, DesksAssumption DEF Staff
<1>2. CASE person = Administrator
    BY <1>2 DEF Administrator
<1> QED
    BY <1>1, <1>2

\* The routers name no step twice.
LEMMA RoutesAsk ==
    /\ \A step \in {"START_QUOTING", "REQUEST_INFO", "DECLINE"} : Routes(step) = {"TRANSFER_REVIEW"}
    /\ \A step \in {"PREPARE_QUOTE", "SEND_DRAFT"} : Routes(step) = {"TRANSFER_REVIEW", "QUOTE_MANAGE"}
    /\ \A step \in {"PUBLISH", "REVIEW_PROOF", "CONFIRM_FUNDS"} : Routes(step) = {"FUNDING_REVIEW"}
    /\ \A step \in {"CREATE_CASE", "KEEP_CONTACT", "CHANGE_CONTACT", "ADD_EVIDENCE", "REPORT",
                    "REQUEST_CONFIRMATION", "COMPLETE"} : Routes(step) = {"PAYOUT_MANAGE"}
    /\ \A step \in {"HOLD", "RELEASE"} : Routes(step) = {"PAYOUT_MANAGE", "TRANSFER_HOLD"}
    /\ \A step \in {"REVIEW_DISPUTE", "RESUME", "REJECT", "RESOLVE_COMPLETE", "FAIL"} :
         Routes(step) = {"DISPUTE_MANAGE"}
    /\ Routes("REFUND") = {"DISPUTE_MANAGE", "REFUND_MANAGE"}
    /\ \A step \in {"START_REFUND", "CONFIRM_REFUND"} : Routes(step) = {"REFUND_MANAGE"}
BY DEF Routes, TransferRoutes, QuoteRoutes, FundingRoutes, PayoutRoutes, ResolutionRoutes, Ask

\* The steps up to the confirmation of the funds.
LEMMA EarlySteps ==
    /\ CanMove(status, "QUOTING") => "START_QUOTING" \in Accepted
    /\ CanMove(status, "NEEDS_INFO") => "REQUEST_INFO" \in Accepted
    /\ CanMove(status, "DECLINED") => "DECLINE" \in Accepted
    /\ CanMove(status, "CANCELLED") => "CANCEL" \in Accepted
    /\ CanDraft => "PREPARE_QUOTE" \in Accepted
    /\ (\E v \in QuoteId : Sendable(v, now)) => "SEND_DRAFT" \in Accepted
    /\ (\E v \in QuoteId : CanDecide(v, now)) => "DECIDE" \in Accepted
    /\ CanPublish => "PUBLISH" \in Accepted
    /\ CanSubmitProof => "SUBMIT_PROOF" \in Accepted
    /\ (\E p \in Proofs : Reviewable(p)) => "REVIEW_PROOF" \in Accepted
    /\ (\E p \in Proofs : Confirmable(p)) => "CONFIRM_FUNDS" \in Accepted
<1>1. /\ CanMove("QUOTED", "QUOTE_ACCEPTED") /\ CanMove("QUOTE_ACCEPTED", "FUNDING_PENDING")
      /\ CanMove("FUNDING_PENDING", "FUNDING_SUBMITTED")
      /\ CanMove("FUNDING_SUBMITTED", "FUNDING_PENDING")
      /\ CanMove("FUNDING_SUBMITTED", "FUNDS_CONFIRMED")
    BY DEF CanMove
<1>2. AcceptedEarly \subseteq Accepted
    BY DEF Accepted
<1> QED
    BY <1>1, <1>2
    DEF AcceptedEarly, Offer, May, CanDecide, CanPublish, CanSubmitProof, Reviewable, Confirmable

\* The steps of the payout.
LEMMA PayoutSteps ==
    /\ CanCreateCase => "CREATE_CASE" \in Accepted
    /\ CanUpdateCase => "CHANGE_CONTACT" \in Accepted
    /\ CanUpdateCase /\ associate # "UNUSABLE" => "KEEP_CONTACT" \in Accepted
    /\ CaseOpen => "ADD_EVIDENCE" \in Accepted
    /\ CaseOpen /\ associate = "USABLE" => "REPORT" \in Accepted
    /\ CaseOpen => "HOLD" \in Accepted
    /\ CanRelease => "RELEASE" \in Accepted
<1>1. /\ CanMove("FUNDS_CONFIRMED", "PAYOUT_IN_PROGRESS")
      /\ CanMove("PAYOUT_IN_PROGRESS", "PAYOUT_REPORTED")
      /\ CanMove("PAYOUT_IN_PROGRESS", "ON_HOLD")
    BY DEF CanMove
<1>2. AcceptedPayout \subseteq Accepted
    BY DEF Accepted
<1> QED
    BY <1>1, <1>2 DEF AcceptedPayout, Offer, May, CanCreateCase, CanReport, CaseOpen

\* Every resolution of a dispute is a row of the table.
LEMMA ResolutionsFitTable ==
    ASSUME NEW d \in Disputes, NEW action \in ResolutionAction, CanResolve(d, action)
    PROVE  Resolvable(action)
BY DEF Resolvable, May, CanResolve, ResolutionTarget, ResolutionAction, CanMove

\* The steps of the resolution.
LEMMA ResolutionSteps ==
    /\ CanRequestConfirmation => "REQUEST_CONFIRMATION" \in Accepted
    /\ CanConfirmReceipt => "CONFIRM_RECEIPT" \in Accepted
    /\ CanComplete => "COMPLETE" \in Accepted
    /\ status \in DisputableStates => "DISPUTE" \in Accepted
    /\ (\E d \in Disputes : disputes[d] = "OPEN") => "REVIEW_DISPUTE" \in Accepted
    /\ \A d \in Disputes :
         /\ \A action \in {"RESUME", "REJECT", "REFUND", "FAIL"} :
              CanResolve(d, action) => action \in Accepted
         /\ CanResolve(d, "COMPLETE") => "RESOLVE_COMPLETE" \in Accepted
    /\ CanStartRefund => "START_REFUND" \in Accepted
    /\ CanConfirmRefund => "CONFIRM_REFUND" \in Accepted
<1>1. /\ CanMove("PAYOUT_REPORTED", "CONFIRMATION_PENDING") /\ CanMove("PAYOUT_REPORTED", "COMPLETED")
      /\ CanMove("CONFIRMATION_PENDING", "COMPLETED")
      /\ \A s \in DisputableStates : CanMove(s, "DISPUTED")
      /\ CanMove("FUNDS_CONFIRMED", "REFUND_PENDING") /\ CanMove("ON_HOLD", "REFUND_PENDING")
      /\ CanMove("REFUND_PENDING", "REFUNDED")
    BY DEF CanMove, DisputableStates
<1>2. AcceptedResolution \subseteq Accepted
    BY DEF Accepted
<1>3. \A d \in Disputes :
         /\ \A action \in {"RESUME", "REJECT", "REFUND", "FAIL"} :
              CanResolve(d, action) => action \in Accepted
         /\ CanResolve(d, "COMPLETE") => "RESOLVE_COMPLETE" \in Accepted
    BY <1>2, ResolutionsFitTable DEF AcceptedResolution, ResolutionAction, Offer
<1> QED
    BY <1>1, <1>2, <1>3
    DEF AcceptedResolution, Offer, May, CanRequestConfirmation, CanConfirmReceipt, CanComplete,
        CanStartRefund, CanConfirmRefund

-----------------------------------------------------------------------------
(* The pages *)

\* A step that its user may take, that the proxy passes on and that the
\* service accepts.
Good(person, step) == step \in Accepted \cap RouteRules /\ Permitted(person, step)

\* The review buttons.
LEMMA ReviewPanelIsGood ==
    ASSUME PortalInvariant, NEW person \in Staff \cup {Administrator},
           "TRANSFER_REVIEW" \in person.can,
           NEW step \in ReviewPanel \ RefusedToStaff(person)
    PROVE  Good(person, step)
<1>1. /\ step \in {"START_QUOTING", "REQUEST_INFO", "DECLINE"}
      /\ status \in {"REQUESTED", "NEEDS_INFO"}
      /\ step = "REQUEST_INFO" => status # "NEEDS_INFO"
    BY DEF ReviewPanel, Offer, RefusedToStaff
<1>2. step \in Accepted
    BY <1>1, EarlySteps DEF CanMove
<1>3. Permitted(person, step)
    BY <1>1, RoutesAsk DEF Permitted, AdministratorOnly
<1> QED
    BY <1>1, <1>2, <1>3 DEF Good, RouteRules

\* The quote dialog.
LEMMA QuotePanelIsGood ==
    ASSUME PortalInvariant, NEW person \in Staff \cup {Administrator},
           "TRANSFER_REVIEW" \in person.can,
           NEW step \in QuotePanel(person) \ RefusedToStaff(person)
    PROVE  Good(person, step)
<1>1. /\ "QUOTE_MANAGE" \in person.can /\ Quotable
      /\ \/ step = "PREPARE_QUOTE" /\ ~HasQuote("DRAFT")
         \/ step = "SEND_DRAFT" /\ HasQuote("DRAFT")
    BY DEF QuotePanel, Offer, Quotable
<1>2. CASE step = "PREPARE_QUOTE"
  <2>1. step \in Accepted
      BY <1>1, <1>2, EarlySteps DEF CanDraft
  <2> QED
      BY <1>1, <1>2, <2>1, RoutesAsk DEF Good, RouteRules, Permitted, AdministratorOnly
<1>3. CASE step = "SEND_DRAFT"
  <2>1. ~ExpiredDraft
      BY <1>3 DEF RefusedToStaff, Offer
  <2>2. \E v \in QuoteId : Sendable(v, now)
      BY <1>1, <1>3, <2>1
      DEF ExpiredDraft, HasQuote, Sendable, PortalInvariant, Invariant, TypeOK
  <2>3. step \in Accepted
      BY <1>3, <2>2, EarlySteps
  <2> QED
      BY <1>1, <1>3, <2>3, RoutesAsk DEF Good, RouteRules, Permitted, AdministratorOnly
<1> QED
    BY <1>1, <1>2, <1>3

\* The funding actions.
LEMMA FundingActionsAreGood ==
    ASSUME PortalInvariant, NEW person \in Staff \cup {Administrator},
           NEW step \in FundingActions(person)
    PROVE  Good(person, step)
<1>1. /\ "FUNDING_REVIEW" \in person.can
      /\ \/ step = "PUBLISH" /\ status = "QUOTE_ACCEPTED" /\ instruction = NoQuote
         \/ step = "REVIEW_PROOF" /\ \E p \in Proofs : proofs[p] = "SUBMITTED"
         \/ /\ step = "CONFIRM_FUNDS" /\ status = "FUNDING_SUBMITTED"
            /\ \E p \in Proofs : proofs[p] = "VERIFIED"
    BY DEF FundingActions, Offer
<1>2. CASE step = "PUBLISH"
  <2>1. CanPublish
      BY <1>1, <1>2
      DEF CanPublish, PortalInvariant, Invariant, QuoteInvariant, AcceptanceIsFinal, TypeOK,
          AwaitingFunds, Funded
  <2> QED
      BY <1>1, <1>2, <2>1, EarlySteps, RoutesAsk
      DEF Good, RouteRules, Permitted, AdministratorOnly
<1>3. CASE step = "REVIEW_PROOF"
  <2>1. \E p \in Proofs : Reviewable(p)
      BY <1>1, <1>3
      DEF Reviewable, PortalInvariant, Invariant, FundingInvariant, FundsRestOnVerifiedProof
  <2> QED
      BY <1>1, <1>3, <2>1, EarlySteps, RoutesAsk
      DEF Good, RouteRules, Permitted, AdministratorOnly
<1>4. CASE step = "CONFIRM_FUNDS"
  <2>1. \E p \in Proofs : Confirmable(p)
      BY <1>1, <1>4 DEF Confirmable
  <2> QED
      BY <1>1, <1>4, <2>1, EarlySteps, RoutesAsk
      DEF Good, RouteRules, Permitted, AdministratorOnly
<1> QED
    BY <1>1, <1>2, <1>3, <1>4

\* The payout actions.
LEMMA PayoutActionsAreGood ==
    ASSUME PortalInvariant, NEW person \in Staff \cup {Administrator},
           NEW step \in PayoutActions(person) \ RefusedToStaff(person)
    PROVE  Good(person, step)
<1>1. /\ "PAYOUT_MANAGE" \in person.can
      /\ \/ step = "CREATE_CASE" /\ payoutCase = "NONE" /\ status = "FUNDS_CONFIRMED"
         \/ /\ step \in {"KEEP_CONTACT", "ADD_EVIDENCE", "HOLD", "CHANGE_CONTACT", "REPORT"}
            /\ payoutCase = "IN_PROGRESS"
            /\ step = "REPORT" => associate # "NONE"
         \/ /\ step = "RELEASE" /\ payoutCase = "ON_HOLD"
            /\ status \in {"FUNDS_CONFIRMED", "PAYOUT_IN_PROGRESS", "PAYOUT_REPORTED", "ON_HOLD"}
      /\ step \in {"KEEP_CONTACT", "REPORT"} => associate # "UNUSABLE"
      /\ step \in {"HOLD", "RELEASE"} => "TRANSFER_HOLD" \in person.can
    BY DEF PayoutActions, Offer, RefusedToStaff
<1>2. Permitted(person, step)
    BY <1>1, RoutesAsk DEF Permitted, AdministratorOnly
<1>3. step \in Accepted
  <2>1. CASE step = "CREATE_CASE"
    <3>1. CanCreateCase
        BY <1>1, <2>1
        DEF CanCreateCase, PortalInvariant, Invariant, QuoteInvariant, AcceptanceIsFinal, TypeOK,
            Funded
    <3> QED
        BY <2>1, <3>1, PayoutSteps
  <2>2. CASE payoutCase = "IN_PROGRESS"
    <3>1. CanUpdateCase
        BY <2>2
        DEF CanUpdateCase, CaseOpen, PortalInvariant, Invariant, CaseInvariant,
            CaseAgreesWithTransfer, QuoteInvariant, AcceptanceIsFinal, Funded
    <3>2. associate \in {"NONE", "USABLE", "UNUSABLE"}
        BY DEF PortalInvariant, Invariant, TypeOK
    <3> QED
        BY <1>1, <2>2, <3>1, <3>2, PayoutSteps DEF CanUpdateCase
  <2>3. CASE step = "RELEASE"
    <3>1. CanRelease
        BY <1>1, <2>3
        DEF CanRelease, PortalInvariant, Invariant, CaseInvariant, CaseAgreesWithTransfer
    <3> QED
        BY <2>3, <3>1, PayoutSteps
  <2> QED
      BY <1>1, <2>1, <2>2, <2>3
<1> QED
    BY <1>1, <1>2, <1>3 DEF Good, RouteRules

\* The dispute form: a dispute under review can be resolved any way, unless
\* its case was paused before the payout was reported.
LEMMA DisputeFormIsGood ==
    ASSUME PortalInvariant, NEW person \in Staff \cup {Administrator},
           NEW step \in DisputeForm(person) \ RefusedToStaff(person)
    PROVE  Good(person, step)
<1>1. /\ "DISPUTE_MANAGE" \in person.can
      /\ \/ step = "REVIEW_DISPUTE" /\ \E d \in Disputes : disputes[d] = "OPEN"
         \/ /\ step \in {"RESUME", "REJECT", "REFUND", "RESOLVE_COMPLETE", "FAIL"}
            /\ \E d \in Disputes : disputes[d] = "IN_REVIEW"
            /\ step \in {"RESOLVE_COMPLETE", "FAIL"} => person.admin
      /\ step = "RESOLVE_COMPLETE" => payoutCase # "ON_HOLD"
      /\ step = "REFUND" => "REFUND_MANAGE" \in person.can
    BY DEF DisputeForm, Offer, RefusedToStaff
<1>2. Permitted(person, step)
    BY <1>1, People, RoutesAsk DEF Permitted, AdministratorOnly
<1>3. CASE step = "REVIEW_DISPUTE"
    BY <1>1, <1>2, <1>3, ResolutionSteps DEF Good, RouteRules
<1>4. CASE step \in {"RESUME", "REJECT", "REFUND", "RESOLVE_COMPLETE", "FAIL"}
  <2>1. PICK d \in Disputes : disputes[d] = "IN_REVIEW"
      BY <1>1, <1>4
  <2>2. /\ Active(d)
        /\ status = "DISPUTED"
        /\ Refundable
        /\ payoutCase # "ON_HOLD" => PayoutAttested
      BY <2>1
      DEF Active, PortalInvariant, Invariant, CaseInvariant, CaseAgreesWithTransfer,
          DisputeAgreesWithCase, QuoteInvariant, AcceptanceIsFinal, Funded, Refundable,
          MoneyInvariant, PaidOutOrRefunded, PayoutAttested
  <2>3. \A action \in {"RESUME", "REJECT", "REFUND", "FAIL"} : CanResolve(d, action)
      BY <2>2 DEF CanResolve, ResolutionTarget
  <2>4. payoutCase # "ON_HOLD" => CanResolve(d, "COMPLETE")
      BY <2>2 DEF CanResolve
  <2>5. step \in Accepted
      BY <1>1, <1>4, <2>3, <2>4, ResolutionSteps
  <2> QED
      BY <1>2, <1>4, <2>5 DEF Good, RouteRules
<1> QED
    BY <1>1, <1>3, <1>4

\* The resolution actions.
LEMMA ResolutionActionsAreGood ==
    ASSUME PortalInvariant, NEW person \in Staff \cup {Administrator},
           NEW step \in ResolutionActions(person) \ RefusedToStaff(person)
    PROVE  Good(person, step)
<1>1. \/ step \in DisputeForm(person)
      \/ /\ step \in {"REQUEST_CONFIRMATION", "COMPLETE"}
         /\ status = "PAYOUT_REPORTED"
         /\ step = "COMPLETE" => person.admin
         /\ step = "REQUEST_CONFIRMATION" => "PAYOUT_MANAGE" \in person.can
      \/ /\ step = "START_REFUND"
         /\ "REFUND_MANAGE" \in person.can
         /\ refundCase = "NONE" /\ status \in {"FUNDS_CONFIRMED", "ON_HOLD"}
      \/ step = "CONFIRM_REFUND" /\ refundCase = "PENDING" /\ person.admin
    BY DEF ResolutionActions, RefundForm, Offer, RefusedToStaff
<1>2. CASE step \in {"REQUEST_CONFIRMATION", "COMPLETE"} /\ step \notin DisputeForm(person)
  <2>1. CanRequestConfirmation /\ CanComplete
      BY <1>1, <1>2
      DEF CanRequestConfirmation, CanComplete, PayoutAttested, PortalInvariant, Invariant,
          CaseInvariant, CaseAgreesWithTransfer, MoneyInvariant, PaidOutOrRefunded
  <2> QED
      BY <1>1, <1>2, <2>1, People, ResolutionSteps, RoutesAsk
      DEF Good, RouteRules, Permitted, AdministratorOnly
<1>3. CASE step = "START_REFUND" /\ step \notin DisputeForm(person)
  <2>1. CanStartRefund
      BY <1>1, <1>3
      DEF CanStartRefund, Refundable, PortalInvariant, Invariant, QuoteInvariant,
          AcceptanceIsFinal, Funded
  <2> QED
      BY <1>1, <1>3, <2>1, ResolutionSteps, RoutesAsk
      DEF Good, RouteRules, Permitted, AdministratorOnly
<1>4. CASE step = "CONFIRM_REFUND" /\ step \notin DisputeForm(person)
  <2>1. CanConfirmRefund
      BY <1>1, <1>4
      DEF CanConfirmRefund, PortalInvariant, Invariant, MoneyInvariant, PaidOutOrRefunded
  <2> QED
      BY <1>1, <1>4, <2>1, ResolutionSteps, RoutesAsk
      DEF Good, RouteRules, Permitted
<1> QED
    BY <1>1, <1>2, <1>3, <1>4, DisputeFormIsGood

\* Whatever the page of a transfer offers to a member of staff.
LEMMA StaffOffersAreGood ==
    ASSUME PortalInvariant, NEW person \in Staff \cup {Administrator},
           NEW step \in OffersTo(person) \ RefusedToStaff(person)
    PROVE  Good(person, step)
<1>1. /\ "TRANSFER_REVIEW" \in person.can
      /\ step \in ReviewPanel \cup QuotePanel(person) \cup FundingActions(person)
                    \cup PayoutActions(person) \cup ResolutionActions(person)
    BY DEF OffersTo, Offer
<1> QED
    BY <1>1, ReviewPanelIsGood, QuotePanelIsGood, FundingActionsAreGood, PayoutActionsAreGood,
       ResolutionActionsAreGood

\* Whatever the two clients offer to the sender.
LEMMA SenderOffersAreAccepted ==
    ASSUME PortalInvariant, NEW step \in (WebOffers \cup AndroidOffers) \ RefusedToSender
    PROVE  step \in Accepted
<1>1. \/ /\ step = "CANCEL"
         /\ status \in {"REQUESTED", "NEEDS_INFO", "QUOTING", "QUOTED", "QUOTE_ACCEPTED",
                        "FUNDING_PENDING"}
      \/ /\ step = "DECIDE" /\ OnOffer
         /\ status \notin {"QUOTING", "NEEDS_INFO", "DECLINED"}
      \/ step = "SUBMIT_PROOF" /\ status = "FUNDING_PENDING" /\ ~UploadPending
      \/ step = "CONFIRM_RECEIPT" /\ status = "CONFIRMATION_PENDING"
      \/ step = "DISPUTE" /\ status \in DisputableStates
    BY DEF WebOffers, AndroidOffers, TransferDetail, FundingPanel, ResolutionPanel, QuoteSection,
           FundingSection, ResolutionSection, RefusedToSender, Offer, DisputableStates
<1>2. CASE step = "CANCEL"
    BY <1>1, <1>2, EarlySteps DEF CanMove
<1>3. CASE step = "DECIDE"
  <2>1. \E v \in QuoteId : CanDecide(v, now)
      BY <1>1, <1>3 DEF OnOffer, CanDecide, PortalInvariant, QuotesInForce, HasQuote
  <2> QED
      BY <1>3, <2>1, EarlySteps
<1>4. CASE step = "SUBMIT_PROOF"
  <2>1. instruction # NoQuote
      BY <1>1, <1>4 DEF PortalInvariant, Invariant, FundingInvariant, FundingInstructed
  <2>2. \A p \in Proofs \ StaleProofs : proofs[p] \notin {"PENDING_UPLOAD", "SUBMITTED"}
      BY <1>1, <1>4
      DEF UploadPending, StaleProofs, PortalInvariant, Invariant, TypeOK, FundingInvariant,
          FundsRestOnVerifiedProof
  <2> QED
      BY <1>1, <1>4, <2>1, <2>2, EarlySteps DEF CanSubmitProof
<1>5. CASE step = "CONFIRM_RECEIPT"
  <2>1. CanConfirmReceipt
      BY <1>1, <1>5
      DEF CanConfirmReceipt, PayoutAttested, PortalInvariant, Invariant, CaseInvariant,
          CaseAgreesWithTransfer, MoneyInvariant, PaidOutOrRefunded
  <2> QED
      BY <1>5, <2>1, ResolutionSteps
<1>6. CASE step = "DISPUTE"
    BY <1>1, <1>6, ResolutionSteps
<1> QED
    BY <1>1, <1>2, <1>3, <1>4, <1>5, <1>6

\* Every step that a page just loaded offers is one its user may take and the
\* service accepts, but for the refusals that Portal names.
THEOREM OffersCorrect == Spec => []OfferIsAccepted
<1>1. ASSUME PortalInvariant
      PROVE  OfferIsAccepted
  <2>1. \A person \in Staff \cup {Administrator} :
          \A step \in OffersTo(person) \ RefusedToStaff(person) :
            step \in Accepted \cap RouteRules /\ Permitted(person, step)
      BY <1>1, StaffOffersAreGood DEF Good
  <2>2. WebOffers \subseteq RouteRules
      BY DEF WebOffers, TransferDetail, FundingPanel, ResolutionPanel, Offer, RouteRules
  <2>3. (WebOffers \cup AndroidOffers) \ RefusedToSender \subseteq Accepted
      BY <1>1, SenderOffersAreAccepted
  <2> QED
      BY <2>1, <2>2, <2>3 DEF OfferIsAccepted
<1> QED
    BY <1>1, OffersRestOnThis, PTL

-----------------------------------------------------------------------------
(* The way on *)

\* A step that somebody is offered, may take and has accepted, and that does
\* not give the transfer up.
WayOn ==
    \/ (WebOffers \ {"CANCEL"}) \cap Accepted # {}
    \/ \E person \in Staff \cup {Administrator} :
         \E step \in (OffersTo(person) \ {"DECLINE"}) \cap Accepted : Permitted(person, step)

\* Nothing but the rows can stand in the way of an administrator.
LEMMA AdministratorGoesOn ==
    ASSUME NEW step \in Accepted, step # "DECLINE", step \in OffersTo(Administrator),
           Routes(step) # {}
    PROVE  WayOn
BY DEF WayOn, Permitted, Administrator

\* The administrator opens the page of every transfer in the queue.
LEMMA AdministratorSees ==
    ASSUME status \in OperationsQueue
    PROVE  OffersTo(Administrator) =
             ReviewPanel \cup QuotePanel(Administrator) \cup FundingActions(Administrator)
               \cup PayoutActions(Administrator) \cup ResolutionActions(Administrator)
BY DEF OffersTo, Offer, Administrator, Capability

\* Up to a quote on offer it is quoted.
LEMMA QuotingGoesOn ==
    ASSUME PortalInvariant, status \in {"REQUESTED", "NEEDS_INFO", "QUOTING", "QUOTED"},
           ~(Quotable /\ ExpiredDraft)
    PROVE  WayOn
<1>1. status \in OperationsQueue
    BY DEF OperationsQueue
<1>2. CASE status \in {"REQUESTED", "NEEDS_INFO"}
  <2>1. "START_QUOTING" \in OffersTo(Administrator)
      BY <1>1, <1>2, AdministratorSees DEF ReviewPanel, Offer
  <2> QED
      BY <1>2, <2>1, EarlySteps, RoutesAsk, AdministratorGoesOn DEF CanMove
<1>3. CASE Quotable /\ HasQuote("DRAFT")
  <2>1. "SEND_DRAFT" \in OffersTo(Administrator)
      BY <1>1, <1>3, AdministratorSees DEF QuotePanel, Offer, Quotable, Administrator, Capability
  <2>2. \E v \in QuoteId : Sendable(v, now)
      BY <1>3 DEF HasQuote, ExpiredDraft, Sendable, PortalInvariant, Invariant, TypeOK
  <2> QED
      BY <2>1, <2>2, EarlySteps, RoutesAsk, AdministratorGoesOn
<1>4. CASE Quotable /\ ~HasQuote("DRAFT")
  <2>1. "PREPARE_QUOTE" \in OffersTo(Administrator)
      BY <1>1, <1>4, AdministratorSees DEF QuotePanel, Offer, Quotable, Administrator, Capability
  <2> QED
      BY <1>4, <2>1, EarlySteps, RoutesAsk, AdministratorGoesOn DEF CanDraft
<1> QED
    BY <1>2, <1>3, <1>4 DEF Quotable

\* From an accepted quote to the money.
LEMMA FundingGoesOn ==
    ASSUME PortalInvariant, status \in {"QUOTE_ACCEPTED", "FUNDING_PENDING", "FUNDING_SUBMITTED"},
           ~(status = "FUNDING_PENDING" /\ UploadPending)
    PROVE  WayOn
<1>1. status \in OperationsQueue
    BY DEF OperationsQueue
<1>2. FundingActions(Administrator) =
        Offer(status = "QUOTE_ACCEPTED" /\ instruction = NoQuote, {"PUBLISH"})
          \cup Offer(\E p \in Proofs : proofs[p] = "SUBMITTED", {"REVIEW_PROOF"})
          \cup Offer(status = "FUNDING_SUBMITTED" /\ \E p \in Proofs : proofs[p] = "VERIFIED",
                     {"CONFIRM_FUNDS"})
    BY DEF FundingActions, Administrator, Capability, Offer
<1>3. CASE status = "QUOTE_ACCEPTED"
  <2>1. "PUBLISH" \in FundingActions(Administrator)
      BY <1>2, <1>3 DEF Offer, PortalInvariant, NotYetInstructed
  <2>2. "PUBLISH" \in Accepted
      BY <2>1, FundingActionsAreGood DEF Good
  <2> QED
      BY <1>1, <2>1, <2>2, AdministratorSees, RoutesAsk, AdministratorGoesOn
<1>4. CASE status = "FUNDING_PENDING"
  <2>1. instruction # NoQuote
      BY <1>4 DEF PortalInvariant, Invariant, FundingInvariant, FundingInstructed
  <2>2. "SUBMIT_PROOF" \in WebOffers
      BY <1>4, <2>1 DEF WebOffers, FundingPanel, Offer
  <2>3. "SUBMIT_PROOF" \notin RefusedToSender
      BY <1>4 DEF RefusedToSender, Offer
  <2> QED
      BY <2>2, <2>3, SenderOffersAreAccepted DEF WayOn
<1>5. CASE status = "FUNDING_SUBMITTED"
  <2>1. PICK p \in Proofs : proofs[p] \in {"SUBMITTED", "VERIFIED"}
      BY <1>5 DEF PortalInvariant, Invariant, FundingInvariant, FundsRestOnVerifiedProof
  <2>2. PICK step \in {"REVIEW_PROOF", "CONFIRM_FUNDS"} : step \in FundingActions(Administrator)
      BY <1>2, <1>5, <2>1 DEF Offer
  <2>3. step \in Accepted
      BY <2>2, FundingActionsAreGood DEF Good
  <2> QED
      BY <1>1, <2>2, <2>3, AdministratorSees, RoutesAsk, AdministratorGoesOn
<1> QED
    BY <1>3, <1>4, <1>5

\* From the money to the report of its payout, holds included.
LEMMA PayoutGoesOn ==
    ASSUME PortalInvariant, status \in {"FUNDS_CONFIRMED", "PAYOUT_IN_PROGRESS", "ON_HOLD"}
    PROVE  WayOn
<1>1. status \in OperationsQueue
    BY DEF OperationsQueue
<1>2. /\ status = "FUNDS_CONFIRMED" => payoutCase = "NONE"
      /\ status = "PAYOUT_IN_PROGRESS" => payoutCase = "IN_PROGRESS"
      /\ status = "ON_HOLD" => payoutCase = "ON_HOLD"
    BY DEF PortalInvariant, Invariant, CaseInvariant, CaseAgreesWithTransfer
<1>3. PICK step \in {"CREATE_CASE", "ADD_EVIDENCE", "RELEASE"} : step \in PayoutActions(Administrator)
    BY <1>2 DEF PayoutActions, Offer, Administrator, Capability
<1>4. step \notin RefusedToStaff(Administrator)
    BY DEF RefusedToStaff, Offer, Administrator, Capability
<1>5. step \in Accepted
    BY <1>3, <1>4, PayoutActionsAreGood DEF Good
<1> QED
    BY <1>1, <1>3, <1>5, AdministratorSees, RoutesAsk, AdministratorGoesOn

\* From the report to the end, through a dispute or a refund.
LEMMA ResolutionGoesOn ==
    ASSUME PortalInvariant,
           status \in {"PAYOUT_REPORTED", "CONFIRMATION_PENDING", "DISPUTED", "REFUND_PENDING"}
    PROVE  WayOn
<1>1. CASE status = "CONFIRMATION_PENDING"
  <2>1. "CONFIRM_RECEIPT" \in WebOffers \ RefusedToSender
      BY <1>1 DEF WebOffers, ResolutionPanel, RefusedToSender, Offer
  <2> QED
      BY <2>1, SenderOffersAreAccepted DEF WayOn
<1>2. CASE status \in {"PAYOUT_REPORTED", "DISPUTED", "REFUND_PENDING"}
  <2>1. status \in OperationsQueue
      BY <1>2 DEF OperationsQueue
  <2>2. \/ status = "PAYOUT_REPORTED"
        \/ \E d \in Disputes : disputes[d] \in {"OPEN", "IN_REVIEW"}
        \/ refundCase = "PENDING"
      BY <1>2
      DEF PortalInvariant, Invariant, CaseInvariant, DisputeAgreesWithCase, Active,
          MoneyInvariant, PaidOutOrRefunded
  <2>3. PICK step \in {"COMPLETE", "REVIEW_DISPUTE", "RESUME", "CONFIRM_REFUND"} :
          step \in ResolutionActions(Administrator)
      BY <1>2, <2>2 DEF ResolutionActions, DisputeForm, Offer, Administrator, Capability
  <2>4. step \notin RefusedToStaff(Administrator)
      BY DEF RefusedToStaff, Offer, Administrator, Capability
  <2>5. step \in Accepted
      BY <2>3, <2>4, ResolutionActionsAreGood DEF Good
  <2> QED
      BY <2>1, <2>3, <2>5, AdministratorSees, RoutesAsk, AdministratorGoesOn
<1> QED
    BY <1>1, <1>2

\* A transfer that has not ended is never abandoned by the clients: somebody
\* who opens its page is offered a step that the API lets them take, but for
\* the two waits that Portal names.
THEOREM WaysOnCorrect == Spec => []SomebodyCanGoOn
<1>1. PortalInvariant => SomebodyCanGoOn
    BY QuotingGoesOn, FundingGoesOn, PayoutGoesOn, ResolutionGoesOn
    DEF SomebodyCanGoOn, WayOn, PortalInvariant, Invariant, TypeOK, TransferStatus
<1> QED
    BY <1>1, OffersRestOnThis, PTL
=============================================================================
