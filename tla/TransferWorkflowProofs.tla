----------------------- MODULE TransferWorkflowProofs -----------------------
(***************************************************************************)
(* Type correctness, the safety invariants and the refinement of           *)
(* TransferWorkflow, proved for every set of clients, proofs and disputes  *)
(* and for all bounds.  Two lemmas split the services at the confirmation  *)
(* of the funds: early steps leave the payout and its resolution alone,    *)
(* late steps leave the quotes and the funding alone.  Then where the      *)
(* money is: the funds rest on a verified proof, and are paid out or       *)
(* refunded, not both.  The last part is about steps: the database accepts *)
(* each of them, and each is a step of TransferLifecycle or a stutter.     *)
(***************************************************************************)
EXTENDS TransferWorkflow, TLAPS

-----------------------------------------------------------------------------
(* Types *)

\* A client with nothing in flight is described by a request as well.
LEMMA IdleIsRequest == Idle \in Request
BY DEF Idle, Request, Stage, TransferStatus, NoQuote

\* Every target of the transition table is a status.
LEMMA TableTargets ==
    ASSUME NEW from, NEW to, CanMove(from, to)
    PROVE  from \in TransferStatus /\ to \in TransferStatus
BY DEF CanMove, TransferStatus

\* Steps of the transfer and quote services keep every column in its range.
LEMMA RequestStepTypes == TypeOK /\ RequestStep => TypeOK'
<1> SUFFICES ASSUME TypeOK, RequestStep PROVE TypeOK'
    OBVIOUS
<1> USE IdleIsRequest, TableTargets
<1>1. UNCHANGED <<fundingVars, payoutVars, resolutionVars>>
    BY DEF RequestStep
<1>2. SUFFICES /\ (status \in TransferStatus)'
               /\ (now \in Nat)'
               /\ (inFlight \in [Clients -> Request])'
               /\ (quotes \in [QuoteId -> QuoteStatus \cup {"ABSENT"}])'
               /\ (expiresAt \in [QuoteId -> Nat])'
               /\ (acceptedQuote \in QuoteId \cup {NoQuote})'
    BY <1>1 DEF TypeOK, fundingVars, payoutVars, resolutionVars
<1>3. PICK c \in Clients : ClientStep(c)
    BY DEF RequestStep
<1>4. CASE RequestCancellation(c)
    BY <1>4 DEF TypeOK, RequestCancellation, ReadStatus, Begin, Idle, Request, Stage, quoteVars
<1>5. CASE \E target \in ReviewTargets : RequestReview(c, target)
  <2> PICK target \in ReviewTargets : ReadStatus(c, target)
      BY <1>5 DEF RequestReview
  <2>1. [Idle EXCEPT !.stage = "TRANSITION", !.seen = status, !.target = target] \in Request
      BY DEF ReadStatus, Idle, Request, Stage, NoQuote
  <2> QED
      BY <2>1 DEF TypeOK, ReadStatus, Begin, quoteVars
<1>6. CASE ApplyTransition(c)
    BY <1>6 DEF TypeOK, ApplyTransition, Finish, Superseded, QuoteStatus, Request
<1>7. CASE \E v \in QuoteId : RequestSend(c, v)
  <2> PICK v \in QuoteId : RequestSend(c, v)
      BY <1>7
  <2>1. [Idle EXCEPT !.stage = "SEND", !.quote = v, !.at = now] \in Request
      BY DEF TypeOK, Idle, Request, Stage
  <2> QED
      BY <2>1 DEF TypeOK, RequestSend, Begin, quoteVars
<1>8. CASE SendDraft(c)
    BY <1>8 DEF TypeOK, SendDraft, Superseded, MoveTo, Finish, QuoteStatus
<1>9. CASE RequestList(c)
    BY <1>9 DEF TypeOK, RequestList, Begin, Idle, Request, Stage, quoteVars
<1>10. CASE \E v \in QuoteId, target \in {"QUOTE_ACCEPTED", "QUOTING"} :
              RequestDecision(c, v, target)
  <2> PICK v \in QuoteId, target \in {"QUOTE_ACCEPTED", "QUOTING"} :
             RequestDecision(c, v, target)
      BY <1>10
  <2>1. [Idle EXCEPT !.stage = "EXPIRY", !.quote = v, !.target = target, !.at = now] \in Request
      BY DEF TypeOK, Idle, Request, Stage, TransferStatus
  <2> QED
      BY <2>1 DEF TypeOK, RequestDecision, Begin, quoteVars
<1>11. CASE \E v \in QuoteId : ExpireSent(c, v)
    BY <1>11 DEF TypeOK, ExpireSent, AfterExpiry, Finish, MoveTo, QuoteStatus, Request, Stage
<1>12. CASE NothingToExpire(c)
    BY <1>12 DEF TypeOK, NothingToExpire, AfterExpiry, Finish, Request, Stage, quoteVars
<1>13. CASE AcceptQuote(c)
    BY <1>13 DEF TypeOK, AcceptQuote, Decidable, Finish, MoveTo, QuoteStatus, Request
<1>14. CASE RejectQuote(c)
    BY <1>14 DEF TypeOK, RejectQuote, Decidable, Finish, MoveTo, QuoteStatus
<1>15. CASE Abandon(c) /\ UNCHANGED quoteVars
    BY <1>15 DEF TypeOK, Abandon, Finish, quoteVars
<1> QED
    BY <1>3, <1>4, <1>5, <1>6, <1>7, <1>8, <1>9, <1>10, <1>11, <1>12, <1>13, <1>14,
       <1>15
    DEF ClientStep

\* Quote operations keep the types.
LEMMA QuoteStepTypes == TypeOK /\ QuoteStep => TypeOK'
<1> SUFFICES ASSUME TypeOK, QuoteStep PROVE TypeOK'
    OBVIOUS
<1>1. CASE \E v \in QuoteId, validity \in Validities : CreateDraft(v, validity)
    BY <1>1, ValiditiesAssumption
    DEF QuoteStep, TypeOK, CreateDraft, recordVars, fundingVars, payoutVars, resolutionVars,
        QuoteStatus
<1>2. CASE Tick /\ UNCHANGED quoteVars
    BY <1>2 DEF QuoteStep, TypeOK, Tick, quoteVars, fundingVars, payoutVars, resolutionVars
<1> QED
    BY <1>1, <1>2 DEF QuoteStep

\* Funding operations keep the types.
LEMMA FundingStepTypes == TypeOK /\ FundingStep => TypeOK'
<1> SUFFICES ASSUME TypeOK, FundingStep PROVE TypeOK'
    OBVIOUS
<1> USE TableTargets DEF TypeOK, MoveTo, recordVars, quoteVars, payoutVars, resolutionVars
<1>1. CASE PublishInstruction
    BY <1>1 DEF FundingStep, PublishInstruction
<1>2. CASE \E p \in Proofs : SubmitReference(p)
    BY <1>2 DEF FundingStep, SubmitReference, WithProof, StaleProofs, ProofStatus
<1>3. CASE \E p \in Proofs : RequestUpload(p)
    BY <1>3, UploadTtlAssumption DEF FundingStep, RequestUpload, WithProof, StaleProofs, ProofStatus
<1>4. CASE \E p \in Proofs : CompleteUpload(p)
    BY <1>4 DEF FundingStep, CompleteUpload, ProofStatus
<1>5. CASE \E p \in Proofs : VerifyProof(p)
    BY <1>5 DEF FundingStep, VerifyProof, ProofStatus
<1>6. CASE \E p \in Proofs, verdict \in {"NEEDS_RESUBMISSION", "REJECTED"} : ReturnProof(p, verdict)
    BY <1>6 DEF FundingStep, ReturnProof, ProofStatus
<1>7. CASE \E p \in Proofs : ConfirmFunds(p)
    BY <1>7 DEF FundingStep, ConfirmFunds, fundingVars
<1> QED
    BY <1>1, <1>2, <1>3, <1>4, <1>5, <1>6, <1>7 DEF FundingStep

\* Payout operations keep the types.
LEMMA PayoutStepTypes == TypeOK /\ PayoutStep => TypeOK'
<1> SUFFICES ASSUME TypeOK, PayoutStep PROVE TypeOK'
    OBVIOUS
<1> USE TableTargets
    DEF TypeOK, MoveTo, CaseStatus, recordVars, quoteVars, fundingVars, resolutionVars
<1>1. CASE \E contact \in {"NONE", "USABLE"}, references \in SUBSET {"RECORDED"} :
              CreateCase(contact, references)
    BY <1>1 DEF PayoutStep, CreateCase
<1>2. CASE \E contact \in {associate, "USABLE"}, references \in SUBSET {"RECORDED"} :
              UpdateCase(contact, references)
    BY <1>2 DEF PayoutStep, UpdateCase
<1>3. CASE UpdateAssociate
    BY <1>3 DEF PayoutStep, UpdateAssociate
<1>4. CASE \E kind \in {"PENDING", "RECORDED"} : AddEvidence(kind)
    BY <1>4 DEF PayoutStep, AddEvidence
<1>5. CASE \E left \in SUBSET {"PENDING"} : CompleteEvidenceUpload(left)
    BY <1>5 DEF PayoutStep, CompleteEvidenceUpload
<1>6. CASE \E references \in SUBSET {"RECORDED"} : ReportPayout(references)
    BY <1>6 DEF PayoutStep, ReportPayout
<1>7. CASE PlaceHold
    BY <1>7 DEF PayoutStep, PlaceHold
<1>8. CASE ReleaseHold
    BY <1>8 DEF PayoutStep, ReleaseHold, TransferStatus
<1> QED
    BY <1>1, <1>2, <1>3, <1>4, <1>5, <1>6, <1>7, <1>8 DEF PayoutStep

\* Resolution operations keep the types.
LEMMA ResolutionStepTypes == TypeOK /\ ResolutionStep => TypeOK'
<1> SUFFICES ASSUME TypeOK, ResolutionStep PROVE TypeOK'
    OBVIOUS
<1> USE TableTargets
    DEF TypeOK, MoveTo, recordVars, quoteVars, fundingVars, payoutVars, resolutionVars
<1>1. CASE RequestSenderConfirmation
    BY <1>1 DEF ResolutionStep, RequestSenderConfirmation
<1>2. CASE ConfirmRecipientReceived
    BY <1>2 DEF ResolutionStep, ConfirmRecipientReceived, CaseStatus
<1>3. CASE CompleteByAdmin
    BY <1>3 DEF ResolutionStep, CompleteByAdmin, CaseStatus
<1>4. CASE \E d \in Disputes : OpenDispute(d)
    BY <1>4 DEF ResolutionStep, OpenDispute, CaseStatus, DisputeStatus
<1>5. CASE \E d \in Disputes : TakeDispute(d)
    BY <1>5 DEF ResolutionStep, TakeDispute, DisputeStatus
<1>6. CASE \E d \in Disputes, action \in ResolutionAction : ResolveDispute(d, action)
    BY <1>6 DEF ResolutionStep, ResolveDispute, CaseAfterDispute, CreateRefund, CaseStatus,
                DisputeStatus, RefundStatus
<1>7. CASE StartRefund
    BY <1>7 DEF ResolutionStep, StartRefund, CreateRefund, CaseStatus, RefundStatus
<1>8. CASE ConfirmRefund
    BY <1>8 DEF ResolutionStep, ConfirmRefund, RefundStatus
<1> QED
    BY <1>1, <1>2, <1>3, <1>4, <1>5, <1>6, <1>7, <1>8 DEF ResolutionStep

\* The types hold at the start.
LEMMA InitTypes == Init => TypeOK
BY IdleIsRequest
DEF Init, TypeOK, RecordInit, QuoteInit, FundingInit, PayoutInit, ResolutionInit,
    TransferStatus, QuoteStatus, ProofStatus, CaseStatus, DisputeStatus, RefundStatus

\* Every step keeps the types.
LEMMA StepTypes == TypeOK /\ [Next]_vars => TypeOK'
<1> SUFFICES ASSUME TypeOK, [Next]_vars PROVE TypeOK'
    OBVIOUS
<1>1. CASE Next
    BY <1>1, RequestStepTypes, QuoteStepTypes, FundingStepTypes, PayoutStepTypes,
       ResolutionStepTypes DEF Next
<1>2. CASE UNCHANGED vars
    BY <1>2 DEF TypeOK, vars, recordVars, quoteVars, fundingVars, payoutVars, resolutionVars
<1> QED
    BY <1>1, <1>2

\* Every variable stays in the range its column or its request allows.
THEOREM TypeCorrect == Spec => []TypeOK
BY InitTypes, StepTypes, PTL DEF Spec

-----------------------------------------------------------------------------
(* The case, the disputes and the quotes *)

\* What transition checked before its transaction still describes the move
\* it is about to make, however long ago it checked; a decision names a quote.
RequestsChecked ==
    \A c \in Clients :
        /\ inFlight[c].stage = "TRANSITION" =>
             /\ CanMove(inFlight[c].seen, inFlight[c].target)
             /\ inFlight[c].target \in ReviewTargets \cup {"CANCELLED"}
        /\ inFlight[c].stage = "DECISION" => inFlight[c].quote \in QuoteId

\* The statuses the transfer and quote services write, and those with the
\* funding service's.
RequestTargets ==
    {"NEEDS_INFO", "QUOTING", "DECLINED", "CANCELLED", "QUOTED", "QUOTE_EXPIRED",
     "QUOTE_ACCEPTED"}
EarlyTargets ==
    RequestTargets \cup {"FUNDING_PENDING", "FUNDING_SUBMITTED", "FUNDS_CONFIRMED"}

\* A request of the transfer or quote service takes the status along the
\* table if at all, however stale what it read.
LEMMA RequestStepStatus ==
    ASSUME TypeOK, RequestsChecked, RequestStep
    PROVE  /\ UNCHANGED <<fundingVars, payoutVars, resolutionVars>>
           /\ \/ UNCHANGED status
              \/ CanMove(status, status') /\ status' \in RequestTargets
<1>1. PICK c \in Clients : ClientStep(c)
    BY DEF RequestStep
<1>2. CASE ApplyTransition(c)
    BY <1>2
    DEF RequestsChecked, ApplyTransition, RequestStep, ReviewTargets, RequestTargets
<1>3. CASE SendDraft(c) \/ AcceptQuote(c) \/ RejectQuote(c) \/ \E v \in QuoteId : ExpireSent(c, v)
    BY <1>3
    DEF SendDraft, AcceptQuote, RejectQuote, ExpireSent, MoveTo, RequestStep, RequestTargets
<1> QED
    BY <1>1, <1>2, <1>3
    DEF ClientStep, RequestCancellation, RequestReview, ReadStatus, RequestSend, RequestList,
        RequestDecision, NothingToExpire, Abandon, RequestStep

\* A step of the transfer, quote or funding service changes no payout case,
\* no dispute and no refund, and takes the status along the table if at all.
LEMMA EarlyStep ==
    ASSUME TypeOK, RequestsChecked, RequestStep \/ QuoteStep \/ FundingStep
    PROVE  /\ UNCHANGED <<payoutVars, resolutionVars>>
           /\ \/ UNCHANGED status
              \/ CanMove(status, status') /\ status' \in EarlyTargets
<1>1. CASE RequestStep
    BY <1>1, RequestStepStatus DEF EarlyTargets
<1>2. CASE QuoteStep
    BY <1>2 DEF QuoteStep, CreateDraft, Tick, recordVars
<1>3. CASE FundingStep
    BY <1>3
    DEF FundingStep, PublishInstruction, SubmitReference, RequestUpload, CompleteUpload,
        VerifyProof, ReturnProof, ConfirmFunds, MoveTo, recordVars, EarlyTargets
<1> QED
    BY <1>1, <1>2, <1>3

\* A step of the payout or resolution service changes no quote and no
\* funding, and keeps a funded transfer funded.
LEMMA LateStep ==
    ASSUME TypeOK, PayoutStep \/ ResolutionStep
    PROVE  /\ UNCHANGED <<now, inFlight, quoteVars, fundingVars>>
           /\ \/ UNCHANGED status
              \/ status \in Funded /\ status' \in Funded
<1> USE DEF Funded, MoveTo, CanMove, recordVars
<1>1. CASE PayoutStep
    BY <1>1
    DEF PayoutStep, CreateCase, CanCreateCase, UpdateCase, CanUpdateCase, UpdateAssociate,
        AddEvidence, CompleteEvidenceUpload, ReportPayout, CanReport, PlaceHold, ReleaseHold,
        CanRelease, CaseOpen
<1>2. CASE ResolutionStep
  <2>1. CASE \E d \in Disputes, action \in ResolutionAction : ResolveDispute(d, action)
      BY <1>2, <2>1 DEF ResolutionStep, ResolveDispute, ResolutionTarget
  <2>2. CASE \E d \in Disputes : OpenDispute(d) \/ TakeDispute(d)
      BY <1>2, <2>2 DEF ResolutionStep, OpenDispute, TakeDispute, DisputableStates
  <2>3. CASE \/ RequestSenderConfirmation \/ ConfirmRecipientReceived \/ CompleteByAdmin
             \/ StartRefund \/ ConfirmRefund
      BY <1>2, <2>3
      DEF ResolutionStep, RequestSenderConfirmation, ConfirmRecipientReceived, CompleteByAdmin,
          StartRefund, ConfirmRefund
  <2> QED
      BY <1>2, <2>1, <2>2, <2>3 DEF ResolutionStep
<1> QED
    BY <1>1, <1>2

\* Requests in flight keep what they checked.
LEMMA RequestsStayChecked ==
    ASSUME TypeOK, RequestsChecked, [Next]_vars
    PROVE  RequestsChecked'
<1> USE DEF RequestsChecked
<1>1. CASE RequestStep
  <2>1. PICK c \in Clients : ClientStep(c)
      BY <1>1 DEF RequestStep
  <2>2. CASE RequestCancellation(c) \/ \E target \in ReviewTargets : RequestReview(c, target)
    <3>1. PICK target \in ReviewTargets \cup {"CANCELLED"} : ReadStatus(c, target)
        BY <2>2 DEF RequestCancellation, RequestReview
    <3>2. /\ inFlight'[c].stage = "TRANSITION"
          /\ inFlight'[c].seen = status
          /\ inFlight'[c].target = target
          /\ CanMove(status, target)
        BY <3>1 DEF TypeOK, ReadStatus, Begin, Idle
    <3>3. \A b \in Clients : b # c => inFlight'[b] = inFlight[b]
        BY <3>1 DEF TypeOK, ReadStatus, Begin
    <3> QED
        BY <3>2, <3>3
  <2>3. CASE \/ \E v \in QuoteId : RequestSend(c, v)
             \/ RequestList(c)
             \/ \E v \in QuoteId, target \in {"QUOTE_ACCEPTED", "QUOTING"} :
                   RequestDecision(c, v, target)
    <3>1. inFlight'[c].stage \notin {"TRANSITION", "DECISION"}
      <4>1. CASE \E v \in QuoteId : RequestSend(c, v)
          BY <4>1 DEF TypeOK, RequestSend, Begin, Idle
      <4>2. CASE RequestList(c)
          BY <4>2 DEF TypeOK, RequestList, Begin, Idle
      <4>3. CASE \E v \in QuoteId, target \in {"QUOTE_ACCEPTED", "QUOTING"} :
                    RequestDecision(c, v, target)
          BY <4>3 DEF TypeOK, RequestDecision, Begin, Idle
      <4> QED
          BY <2>3, <4>1, <4>2, <4>3
    <3>2. \A b \in Clients : b # c => inFlight'[b] = inFlight[b]
        BY <2>3 DEF TypeOK, RequestSend, RequestList, RequestDecision, Begin
    <3> QED
        BY <3>1, <3>2
  <2>4. CASE \/ ApplyTransition(c) \/ SendDraft(c) \/ AcceptQuote(c) \/ RejectQuote(c)
             \/ Abandon(c)
      BY <2>4 DEF TypeOK, ApplyTransition, SendDraft, AcceptQuote, RejectQuote, Abandon, Finish,
                  Idle
  <2>5. CASE NothingToExpire(c) \/ \E v \in QuoteId : ExpireSent(c, v)
    <3>1. /\ inFlight'[c].stage # "TRANSITION"
          /\ inFlight'[c].stage = "DECISION" => inFlight'[c].quote \in QuoteId
        <4>1. inFlight[c].stage = "EXPIRY" /\ AfterExpiry(c)
            BY <2>5 DEF NothingToExpire, ExpireSent
        <4>2. CASE inFlight[c].quote = NoQuote
            BY <4>1, <4>2 DEF TypeOK, AfterExpiry, Finish, Idle
        <4>3. CASE inFlight[c].quote # NoQuote
            BY <4>1, <4>3 DEF TypeOK, AfterExpiry, Request
        <4> QED
            BY <4>2, <4>3
    <3>2. \A b \in Clients : b # c => inFlight'[b] = inFlight[b]
        BY <2>5 DEF TypeOK, NothingToExpire, ExpireSent, AfterExpiry, Finish
    <3> QED
        BY <3>1, <3>2
  <2> QED
      BY <2>1, <2>2, <2>3, <2>4, <2>5 DEF ClientStep
<1>2. CASE QuoteStep
    BY <1>2 DEF QuoteStep, CreateDraft, Tick, recordVars
<1>3. CASE FundingStep
    BY <1>3
    DEF FundingStep, PublishInstruction, SubmitReference, RequestUpload, CompleteUpload,
        VerifyProof, ReturnProof, ConfirmFunds, recordVars
<1>4. CASE PayoutStep \/ ResolutionStep
    BY <1>4, LateStep
<1>5. CASE UNCHANGED vars
    BY <1>5 DEF vars, recordVars
<1> QED
    BY <1>1, <1>2, <1>3, <1>4, <1>5 DEF Next

-----------------------------------------------------------------------------
\* The payout case, the disputes and the transfer.

CaseInvariant == CaseAgreesWithTransfer /\ DisputeAgreesWithCase

\* An early step leaves the case alone, and the table takes the status only
\* where the same case is allowed.
LEMMA EarlyStepKeepsCase ==
    ASSUME TypeOK, RequestsChecked, CaseInvariant, RequestStep \/ QuoteStep \/ FundingStep
    PROVE  CaseInvariant'
<1>1. /\ UNCHANGED <<payoutVars, resolutionVars>>
      /\ \/ UNCHANGED status
         \/ CanMove(status, status') /\ status' \in EarlyTargets
    BY EarlyStep
<1>2. CaseAgreesWithTransfer'
    BY <1>1
    DEF CaseInvariant, CaseAgreesWithTransfer, CanMove, EarlyTargets, RequestTargets,
        BeforeFunds, payoutVars
<1>3. DisputeAgreesWithCase'
    BY <1>1
    DEF CaseInvariant, DisputeAgreesWithCase, CanMove, EarlyTargets, RequestTargets,
        OneActiveDispute, Active, payoutVars, resolutionVars
<1> QED
    BY <1>2, <1>3 DEF CaseInvariant

\* A payout operation keeps the case, the dispute and the refund in step.
LEMMA PayoutStepKeepsCase ==
    ASSUME TypeOK, CaseInvariant, PayoutStep
    PROVE  CaseInvariant'
<1> USE DEF CaseInvariant
<1>1. UNCHANGED resolutionVars
    BY DEF PayoutStep
<1>2. CASE UNCHANGED <<status, payoutCase>>
    BY <1>1, <1>2
    DEF CaseAgreesWithTransfer, DisputeAgreesWithCase, OneActiveDispute, Active, resolutionVars
<1>3. CASE \E contact \in {"NONE", "USABLE"}, references \in SUBSET {"RECORDED"} :
              CreateCase(contact, references)
    BY <1>1, <1>3
    DEF CreateCase, CanCreateCase, MoveTo, BeforeFunds, CaseAgreesWithTransfer,
        DisputeAgreesWithCase, OneActiveDispute, Active, resolutionVars
<1>4. CASE \/ \E references \in SUBSET {"RECORDED"} : ReportPayout(references)
           \/ PlaceHold
           \/ ReleaseHold
    BY <1>1, <1>4
    DEF ReportPayout, CanReport, PlaceHold, ReleaseHold, CanRelease, CaseOpen, MoveTo,
        BeforeFunds, CaseAgreesWithTransfer, DisputeAgreesWithCase, OneActiveDispute, Active,
        resolutionVars
<1> QED
    BY <1>2, <1>3, <1>4
    DEF PayoutStep, UpdateCase, UpdateAssociate, AddEvidence, CompleteEvidenceUpload, recordVars

\* Opening a dispute pauses a payout in progress and remembers that it did.
LEMMA OpenDisputeKeepsCase ==
    ASSUME TypeOK, CaseInvariant, NEW d \in Disputes, OpenDispute(d)
    PROVE  CaseInvariant'
<1> USE DEF CaseInvariant
<1>1. /\ status' = "DISPUTED"
      /\ payoutCase' \in {"ON_HOLD", "REPORTED"}
      /\ payoutCase' = "ON_HOLD" <=> status = "PAYOUT_IN_PROGRESS"
      /\ status \in DisputableStates
    BY DEF OpenDispute, MoveTo, CaseAgreesWithTransfer, DisputableStates
<1>2. \A e \in Disputes : ~Active(e)
    BY <1>1 DEF DisputeAgreesWithCase, DisputableStates
<1>3. /\ disputes'[d] = "OPEN"
      /\ disputedStatus'[d] = status
      /\ \A e \in Disputes \ {d} : disputes'[e] = disputes[e]
    BY DEF OpenDispute, TypeOK
<1>4. \A e \in Disputes : Active(e)' <=> e = d
    BY <1>2, <1>3 DEF Active
<1>5. CaseAgreesWithTransfer'
    BY <1>1 DEF CaseAgreesWithTransfer, BeforeFunds
<1>6. DisputeAgreesWithCase'
    BY <1>1, <1>3, <1>4 DEF DisputeAgreesWithCase, OneActiveDispute
<1> QED
    BY <1>5, <1>6

\* Resolving the one active dispute takes the case where it takes the
\* transfer, whether the case was paused or already reported.
LEMMA ResolveDisputeKeepsCase ==
    ASSUME TypeOK, CaseInvariant, NEW d \in Disputes, NEW action \in ResolutionAction,
           ResolveDispute(d, action)
    PROVE  CaseInvariant'
<1> USE DEF CaseInvariant
<1> DEFINE target == ResolutionTarget(d, action)
<1>1. /\ Active(d)
      /\ status = "DISPUTED"
      /\ status' = target
      /\ payoutCase' = CaseAfterDispute(target)
      /\ target = "COMPLETED" => PayoutAttested
    BY DEF ResolveDispute, CanResolve, MoveTo
<1>2. \A e \in Disputes : ~Active(e)'
  <2>1. disputes'[d] \in {"REJECTED", "RESOLVED"}
      BY DEF ResolveDispute, TypeOK
  <2>2. \A e \in Disputes \ {d} : disputes'[e] = disputes[e] /\ ~Active(e)
      BY <1>1 DEF ResolveDispute, TypeOK, DisputeAgreesWithCase, OneActiveDispute
  <2> QED
      BY <2>1, <2>2 DEF Active
<1>3. target \in {"REFUND_PENDING", "COMPLETED", "FAILED", "PAYOUT_IN_PROGRESS",
                  "CONFIRMATION_PENDING"}
    BY DEF ResolutionTarget, ResolutionAction
<1>4. /\ target = "PAYOUT_IN_PROGRESS" => payoutCase = "ON_HOLD"
      /\ target = "CONFIRMATION_PENDING" => payoutCase = "REPORTED"
      /\ target = "COMPLETED" => payoutCase = "REPORTED"
    BY <1>1 DEF ResolutionTarget, ResolutionAction, DisputeAgreesWithCase, PayoutAttested
<1>5. payoutCase \in {"ON_HOLD", "REPORTED"}
    BY <1>1 DEF CaseAgreesWithTransfer
<1>6. CaseAgreesWithTransfer'
  <2> HIDE DEF target
  <2> QED
      BY <1>1, <1>3, <1>4, <1>5 DEF CaseAgreesWithTransfer, CaseAfterDispute, BeforeFunds
<1>7. DisputeAgreesWithCase'
  <2> HIDE DEF target
  <2> QED
      BY <1>1, <1>2, <1>3 DEF DisputeAgreesWithCase, OneActiveDispute
<1> QED
    BY <1>6, <1>7

\* A resolution operation keeps the case, the dispute and the refund in step.
LEMMA ResolutionStepKeepsCase ==
    ASSUME TypeOK, CaseInvariant, ResolutionStep
    PROVE  CaseInvariant'
<1> USE DEF CaseInvariant
<1>1. CASE \E d \in Disputes : OpenDispute(d)
    BY <1>1, OpenDisputeKeepsCase
<1>2. CASE \E d \in Disputes, action \in ResolutionAction : ResolveDispute(d, action)
    BY <1>2, ResolveDisputeKeepsCase
<1>3. CASE \E d \in Disputes : TakeDispute(d)
    BY <1>3
    DEF TypeOK, TakeDispute, CaseAgreesWithTransfer, DisputeAgreesWithCase, OneActiveDispute,
        Active, recordVars, payoutVars
<1>4. CASE \/ RequestSenderConfirmation \/ ConfirmRecipientReceived \/ CompleteByAdmin
           \/ StartRefund \/ ConfirmRefund
  <2>1. UNCHANGED <<disputes, disputedStatus>>
      BY <1>4
      DEF RequestSenderConfirmation, ConfirmRecipientReceived, CompleteByAdmin, StartRefund,
          ConfirmRefund, resolutionVars
  <2>2. status # "DISPUTED" /\ status' # "DISPUTED"
      BY <1>4
      DEF RequestSenderConfirmation, CanRequestConfirmation, ConfirmRecipientReceived,
          CanConfirmReceipt, CompleteByAdmin, CanComplete, StartRefund, CanStartRefund,
          ConfirmRefund, CanConfirmRefund, MoveTo
  <2>3. DisputeAgreesWithCase'
      BY <2>1, <2>2 DEF DisputeAgreesWithCase, OneActiveDispute, Active
  <2>4. CaseAgreesWithTransfer'
      BY <1>4
      DEF RequestSenderConfirmation, CanRequestConfirmation, ConfirmRecipientReceived,
          CanConfirmReceipt, CompleteByAdmin, CanComplete, StartRefund, CanStartRefund,
          ConfirmRefund, CanConfirmRefund, PayoutAttested, MoveTo, CaseAgreesWithTransfer,
          BeforeFunds, payoutVars
  <2> QED
      BY <2>3, <2>4
<1> QED
    BY <1>1, <1>2, <1>3, <1>4 DEF ResolutionStep

\* Every step keeps the case, the dispute and the refund in step.
LEMMA StepKeepsCase ==
    ASSUME TypeOK, RequestsChecked, CaseInvariant, [Next]_vars
    PROVE  CaseInvariant'
<1>1. CASE UNCHANGED vars
    BY <1>1
    DEF CaseInvariant, CaseAgreesWithTransfer, DisputeAgreesWithCase, OneActiveDispute, Active,
        vars, recordVars, payoutVars, resolutionVars
<1> QED
    BY <1>1, EarlyStepKeepsCase, PayoutStepKeepsCase, ResolutionStepKeepsCase DEF Next

-----------------------------------------------------------------------------
\* The quotes.

\* Versions are created in order, and only the newest can be a draft: what is
\* on offer has been overtaken by a draft at most.
QuotesInOrder ==
    \A v, w \in QuoteId : w > v =>
        /\ quotes[v] = "ABSENT" => quotes[w] = "ABSENT"
        /\ quotes[v] = "DRAFT" => quotes[w] = "ABSENT"
        /\ quotes[v] = "SENT" => quotes[w] \in {"ABSENT", "DRAFT"}

QuoteInvariant == QuotesInOrder /\ AcceptanceIsFinal

\* Superseding what is on offer, as a cancellation and a replacement do.
LEMMA SupersededQuotes ==
    ASSUME TypeOK, QuotesInOrder
    PROVE  /\ Superseded \in [QuoteId -> QuoteStatus \cup {"ABSENT"}]
           /\ \A v \in QuoteId : /\ Superseded[v] # "SENT"
                                 /\ Superseded[v] = quotes[v] \/ quotes[v] = "SENT"
                                 /\ Superseded[v] \in {"ABSENT", "DRAFT", "ACCEPTED"} <=>
                                      quotes[v] \in {"ABSENT", "DRAFT", "ACCEPTED"}
BY DEF TypeOK, Superseded, QuoteStatus

\* A transition with its bookkeeping keeps the quotes in order.
LEMMA ApplyTransitionKeepsQuotes ==
    ASSUME TypeOK, RequestsChecked, QuoteInvariant, NEW c \in Clients, ApplyTransition(c)
    PROVE  QuoteInvariant'
<1> USE DEF QuoteInvariant
<1>1. CanMove(status, status') /\ status' \in ReviewTargets \cup {"CANCELLED"}
    BY DEF RequestsChecked, ApplyTransition
<1>2. \/ quotes' = quotes
      \/ quotes' = Superseded /\ status' = "CANCELLED"
    BY DEF ApplyTransition
<1>3. acceptedQuote' = acceptedQuote
    BY DEF ApplyTransition
<1>4. QuotesInOrder'
    BY <1>2, SupersededQuotes DEF QuotesInOrder
<1>5. AcceptanceIsFinal'
    BY <1>1, <1>2, <1>3, SupersededQuotes
    DEF AcceptanceIsFinal, CanMove, ReviewTargets, AwaitingFunds, Funded
<1> QED
    BY <1>4, <1>5

\* Sending a draft keeps the quotes in order.
LEMMA SendDraftKeepsQuotes ==
    ASSUME TypeOK, QuoteInvariant, NEW c \in Clients, SendDraft(c)
    PROVE  QuoteInvariant'
<1> USE DEF QuoteInvariant
<1> DEFINE v == inFlight[c].quote
<1>1. /\ quotes[v] = "DRAFT"
      /\ quotes' = [Superseded EXCEPT ![v] = "SENT"]
      /\ acceptedQuote' = acceptedQuote
      /\ status \in {"QUOTING", "QUOTED"}
      /\ status' = "QUOTED"
    BY DEF SendDraft, Sendable, Quotable, MoveTo
<1>2. acceptedQuote = NoQuote
    BY <1>1 DEF AcceptanceIsFinal, AwaitingFunds, Funded
<1>3. QuotesInOrder'
    BY <1>1, SupersededQuotes DEF QuotesInOrder, TypeOK, QuoteId
<1>4. AcceptanceIsFinal'
    BY <1>1, <1>2, SupersededQuotes
    DEF AcceptanceIsFinal, AwaitingFunds, Funded, TypeOK
<1> QED
    BY <1>3, <1>4

\* Deciding, or expiring, takes the one quote on offer off it.
LEMMA DecisionKeepsQuotes ==
    ASSUME TypeOK, RequestsChecked, QuoteInvariant, NEW c \in Clients,
           AcceptQuote(c) \/ RejectQuote(c) \/ \E v \in QuoteId : ExpireSent(c, v)
    PROVE  QuoteInvariant'
<1> USE DEF QuoteInvariant
<1>1. CASE AcceptQuote(c)
  <2>1. PICK v \in QuoteId : /\ quotes[v] = "SENT"
                            /\ quotes' = [quotes EXCEPT ![v] = "ACCEPTED"]
                            /\ acceptedQuote' = v
                            /\ status = "QUOTED"
                            /\ status' = "QUOTE_ACCEPTED"
      BY <1>1 DEF AcceptQuote, Decidable, CanDecide, MoveTo, RequestsChecked
  <2>2. acceptedQuote = NoQuote
      BY <2>1 DEF AcceptanceIsFinal, AwaitingFunds, Funded
  <2>3. QuotesInOrder'
      BY <2>1 DEF QuotesInOrder, TypeOK
  <2>4. \A w \in QuoteId : w \in Nat /\ w # NoQuote
      BY BoundsAssumption DEF QuoteId, NoQuote
  <2>5. quotes'[v] = "ACCEPTED" /\ \A w \in QuoteId : w # v => quotes'[w] = quotes[w]
      BY <2>1 DEF TypeOK
  <2>6. \A w \in QuoteId : w # v =>
           /\ quotes[w] \notin {"ACCEPTED", "SENT"}
           /\ w > v => quotes[w] \in {"ABSENT", "DRAFT"}
    <3> SUFFICES ASSUME NEW w \in QuoteId, w # v
                 PROVE  /\ quotes[w] \notin {"ACCEPTED", "SENT"}
                        /\ w > v => quotes[w] \in {"ABSENT", "DRAFT"}
        OBVIOUS
    <3>1. w > v \/ v > w
        BY <2>4
    <3>2. quotes[w] # "ACCEPTED"
        BY <2>2, <2>4 DEF AcceptanceIsFinal
    <3>3. w > v => quotes[w] \in {"ABSENT", "DRAFT"}
        BY <2>1 DEF QuotesInOrder
    <3>4. v > w => quotes[w] # "SENT"
        BY <2>1 DEF QuotesInOrder
    <3> QED
        BY <3>1, <3>2, <3>3, <3>4
  <2>7. AcceptanceIsFinal'
    <3>1. \A w \in QuoteId : w > v => w # v
        BY <2>4
    <3> QED
        BY <2>1, <2>4, <2>5, <2>6, <3>1 DEF AcceptanceIsFinal, AwaitingFunds
  <2> QED
      BY <2>3, <2>7
<1>2. CASE RejectQuote(c)
  <2>1. /\ quotes' = [quotes EXCEPT ![inFlight[c].quote] = "REJECTED"]
        /\ acceptedQuote' = acceptedQuote
        /\ quotes[inFlight[c].quote] = "SENT"
        /\ status = "QUOTED"
        /\ status' = "QUOTING"
      BY <1>2 DEF RejectQuote, Decidable, CanDecide, MoveTo
  <2>2. acceptedQuote = NoQuote
      BY <2>1 DEF AcceptanceIsFinal, AwaitingFunds, Funded
  <2> HIDE <1>2
  <2> QED
      BY <2>1, <2>2 DEF QuotesInOrder, AcceptanceIsFinal, AwaitingFunds, Funded, TypeOK
<1>3. CASE \E v \in QuoteId : ExpireSent(c, v)
    BY <1>3
    DEF ExpireSent, MoveTo, QuotesInOrder, AcceptanceIsFinal, AwaitingFunds, Funded, TypeOK
<1> QED
    BY <1>1, <1>2, <1>3

\* Drafting a quote keeps the quotes in order.
LEMMA CreateDraftKeepsQuotes ==
    ASSUME TypeOK, QuoteInvariant, NEW v \in QuoteId, NEW validity \in Validities,
           CreateDraft(v, validity)
    PROVE  QuoteInvariant'
<1> USE DEF QuoteInvariant
<1>1. /\ quotes[v] = "ABSENT"
      /\ quotes'[v] = "DRAFT"
      /\ \A w \in QuoteId : w # v => quotes'[w] = quotes[w]
      /\ \A w \in QuoteId : quotes[w] # "DRAFT"
      /\ \A w \in QuoteId : w > v => quotes[w] = "ABSENT"
      /\ \A w \in QuoteId : v > w => quotes[w] # "ABSENT"
    BY BoundsAssumption DEF CreateDraft, CanDraft, NextVersion, HasQuote, TypeOK, QuoteId
<1>2. QuotesInOrder'
    BY <1>1 DEF QuotesInOrder
<1>3. acceptedQuote' = acceptedQuote /\ status' = status /\ status \in {"QUOTING", "QUOTED"}
    BY DEF CreateDraft, CanDraft, Quotable, recordVars
<1>4. acceptedQuote = NoQuote
    BY <1>3 DEF AcceptanceIsFinal, AwaitingFunds, Funded
<1>5. AcceptanceIsFinal'
    BY <1>1, <1>3, <1>4 DEF AcceptanceIsFinal, AwaitingFunds, Funded
<1> QED
    BY <1>2, <1>5

\* Every step keeps the quotes in order.
LEMMA StepKeepsQuotes ==
    ASSUME TypeOK, RequestsChecked, QuoteInvariant, [Next]_vars
    PROVE  QuoteInvariant'
<1> USE DEF QuoteInvariant
<1>1. CASE RequestStep
  <2>1. PICK c \in Clients : ClientStep(c)
      BY <1>1 DEF RequestStep
  <2>2. CASE ApplyTransition(c)
      BY <2>2, ApplyTransitionKeepsQuotes
  <2>3. CASE SendDraft(c)
      BY <2>3, SendDraftKeepsQuotes
  <2>4. CASE AcceptQuote(c) \/ RejectQuote(c) \/ \E v \in QuoteId : ExpireSent(c, v)
      BY <2>4, DecisionKeepsQuotes
  <2>5. CASE UNCHANGED <<status, quoteVars>>
      BY <2>5 DEF quoteVars, QuotesInOrder, AcceptanceIsFinal
  <2> QED
      BY <2>1, <2>2, <2>3, <2>4, <2>5
      DEF ClientStep, RequestCancellation, RequestReview, ReadStatus, RequestSend, RequestList,
          RequestDecision, NothingToExpire, Abandon
<1>2. CASE \E v \in QuoteId, validity \in Validities : CreateDraft(v, validity)
    BY <1>2, CreateDraftKeepsQuotes
<1>3. CASE UNCHANGED <<status, quoteVars>>
    BY <1>3 DEF quoteVars, QuotesInOrder, AcceptanceIsFinal
<1>4. CASE FundingStep
  <2>1. UNCHANGED quoteVars
      BY <1>4
      DEF FundingStep, PublishInstruction, SubmitReference, RequestUpload, CompleteUpload,
          VerifyProof, ReturnProof, ConfirmFunds
  <2>2. \/ UNCHANGED status
        \/ status \in AwaitingFunds /\ status' \in AwaitingFunds \cup Funded
      BY <1>4
      DEF FundingStep, PublishInstruction, CanPublish, SubmitReference, RequestUpload,
          CompleteUpload, VerifyProof, ReturnProof, ConfirmFunds, Confirmable, ProofAllowed,
          CanSubmitProof, Reviewable, MoveTo, recordVars, AwaitingFunds, Funded
  <2> QED
      BY <2>1, <2>2 DEF quoteVars, QuotesInOrder, AcceptanceIsFinal
<1>5. CASE PayoutStep \/ ResolutionStep
    BY <1>5, LateStep DEF quoteVars, QuotesInOrder, AcceptanceIsFinal
<1> QED
    BY <1>1, <1>2, <1>3, <1>4, <1>5 DEF Next, QuoteStep, Tick, vars, recordVars

-----------------------------------------------------------------------------

\* The parts of the invariant hold at the start.
LEMMA InitInvariants == Init => RequestsChecked /\ CaseInvariant /\ QuoteInvariant
<1> SUFFICES ASSUME Init PROVE RequestsChecked /\ CaseInvariant /\ QuoteInvariant
    OBVIOUS
<1>1. RequestsChecked /\ CaseInvariant
    BY DEF Init, RecordInit, PayoutInit, ResolutionInit, RequestsChecked, CaseInvariant, Idle,
           CaseAgreesWithTransfer, DisputeAgreesWithCase, OneActiveDispute, Active, BeforeFunds
<1>2. QuoteInvariant
    BY BoundsAssumption
    DEF Init, RecordInit, QuoteInit, QuoteInvariant, QuotesInOrder, AcceptanceIsFinal,
        AwaitingFunds, Funded, QuoteId, NoQuote
<1> QED
    BY <1>1, <1>2

\* The payout case agrees with the transfer at every commit, and a dispute
\* with both: the two rows that five operations of two services write never
\* contradict each other.
THEOREM CaseCorrect == Spec => [](CaseAgreesWithTransfer /\ DisputeAgreesWithCase)
<1>1. Init => RequestsChecked /\ CaseInvariant
    BY InitInvariants
<1>2. TypeOK /\ RequestsChecked /\ CaseInvariant /\ [Next]_vars
        => RequestsChecked' /\ CaseInvariant'
    BY RequestsStayChecked, StepKeepsCase
<1> QED
    BY <1>1, <1>2, TypeCorrect, PTL DEF Spec, CaseInvariant

\* A transfer is DISPUTED exactly while its one dispute is open, and the payout
\* case is still in what that dispute will resume (resolution/service.ts).
THEOREM DisputesCorrect == Spec => []DisputeAgreesWithCase
BY CaseCorrect, PTL

\* Accepting a quote is final: the link, the quote and the status agree from
\* then on, nothing else is accepted or on offer, and the sender never landed
\* on a version that had been replaced.
THEOREM AcceptanceCorrect == Spec => []AcceptanceIsFinal
<1>1. Init => RequestsChecked /\ QuoteInvariant
    BY InitInvariants
<1>2. TypeOK /\ RequestsChecked /\ QuoteInvariant /\ [Next]_vars
        => RequestsChecked' /\ QuoteInvariant'
    BY RequestsStayChecked, StepKeepsQuotes
<1> QED
    BY <1>1, <1>2, TypeCorrect, PTL DEF Spec, QuoteInvariant

-----------------------------------------------------------------------------
(* The money *)

\* The instruction is published before the sender can prove anything.
FundingInstructed ==
    status \in {"FUNDING_PENDING", "FUNDING_SUBMITTED"} \cup Funded => instruction # NoQuote

FundingInvariant == FundsRestOnVerifiedProof /\ FundingInstructed /\ OneActiveProof

\* Requests of the transfer and quote services leave the proofs alone and
\* never move a transfer whose proof is under review.
LEMMA RequestStepKeepsFunding ==
    ASSUME TypeOK, RequestsChecked, QuoteInvariant, FundingInvariant, RequestStep
    PROVE  FundingInvariant'
<1> USE DEF FundingInvariant
<1>1. /\ UNCHANGED <<instruction, proofs>>
      /\ \/ UNCHANGED status
         \/ CanMove(status, status') /\ status' \in RequestTargets
    BY RequestStepStatus DEF fundingVars
<1>2. \/ acceptedQuote' = acceptedQuote
      \/ acceptedQuote = NoQuote /\ status = "QUOTED"
  <2>1. PICK c \in Clients : ClientStep(c)
      BY DEF RequestStep
  <2>2. CASE AcceptQuote(c)
      BY <2>2
      DEF AcceptQuote, Decidable, CanDecide, QuoteInvariant, AcceptanceIsFinal, AwaitingFunds,
          Funded
  <2>3. CASE ApplyTransition(c) \/ SendDraft(c) \/ RejectQuote(c) \/ \E v \in QuoteId : ExpireSent(c, v)
      BY <2>3 DEF ApplyTransition, SendDraft, RejectQuote, ExpireSent
  <2>4. CASE UNCHANGED quoteVars
      BY <2>4 DEF quoteVars
  <2> QED
      BY <2>1, <2>2, <2>3, <2>4
      DEF ClientStep, RequestCancellation, RequestReview, ReadStatus, RequestSend, RequestList,
          RequestDecision, NothingToExpire
<1>3. instruction' # NoQuote => instruction' = acceptedQuote'
    BY <1>1, <1>2 DEF FundsRestOnVerifiedProof
<1>4. FundsRestOnVerifiedProof'
    BY <1>1, <1>3 DEF FundsRestOnVerifiedProof, CanMove, RequestTargets, Funded
<1>5. FundingInstructed' /\ OneActiveProof'
    BY <1>1 DEF FundingInstructed, OneActiveProof, CanMove, RequestTargets, Funded
<1> QED
    BY <1>4, <1>5

\* A new proof finds no other under review, none verified, and only stale
\* placeholders waiting for their upload.
LEMMA NewProofKeepsFunding ==
    ASSUME TypeOK, FundingInvariant, NEW p \in Proofs, SubmitReference(p) \/ RequestUpload(p)
    PROVE  FundingInvariant'
<1> USE DEF FundingInvariant
<1>1. /\ status = "FUNDING_PENDING"
      /\ instruction # NoQuote
      /\ UNCHANGED <<instruction, acceptedQuote>>
      /\ \A q \in Proofs : proofs[q] \notin {"SUBMITTED", "VERIFIED"}
    BY DEF SubmitReference, RequestUpload, ProofAllowed, CanSubmitProof, FundsRestOnVerifiedProof,
        Funded, quoteVars
<1>2. PICK s \in {"SUBMITTED", "PENDING_UPLOAD"} :
        /\ proofs' = WithProof(p, s)
        /\ s = "SUBMITTED" => status' = "FUNDING_SUBMITTED"
        /\ s = "PENDING_UPLOAD" => status' = status
    BY DEF SubmitReference, RequestUpload, MoveTo, recordVars
<1>3. proofs'[p] = s
    BY <1>2 DEF WithProof
<1>4. \A q \in Proofs : q # p =>
         proofs'[q] \notin {"PENDING_UPLOAD", "SUBMITTED", "VERIFIED"}
    BY <1>1, <1>2
    DEF WithProof, SubmitReference, RequestUpload, ProofAllowed, CanSubmitProof, StaleProofs
<1>5. FundsRestOnVerifiedProof'
    BY <1>1, <1>2, <1>3, <1>4 DEF FundsRestOnVerifiedProof, Funded
<1>6. FundingInstructed' /\ OneActiveProof'
    BY <1>1, <1>2, <1>3, <1>4 DEF FundingInstructed, OneActiveProof
<1> QED
    BY <1>5, <1>6

\* A funding operation keeps the funding and its proof in step.
LEMMA FundingStepKeepsFunding ==
    ASSUME TypeOK, QuoteInvariant, FundingInvariant, FundingStep
    PROVE  FundingInvariant'
<1> USE DEF FundingInvariant
<1>1. CASE PublishInstruction
    BY <1>1
    DEF PublishInstruction, CanPublish, MoveTo, FundsRestOnVerifiedProof, FundingInstructed,
        OneActiveProof, Funded, quoteVars
<1>2. CASE \E p \in Proofs : SubmitReference(p) \/ RequestUpload(p)
    BY <1>2, NewProofKeepsFunding
<1>3. CASE \E p \in Proofs : CompleteUpload(p)
  <2> PICK p \in Proofs : CompleteUpload(p)
      BY <1>3
  <2>1. /\ status = "FUNDING_PENDING" /\ status' = "FUNDING_SUBMITTED"
        /\ proofs[p] = "PENDING_UPLOAD" /\ proofs'[p] = "SUBMITTED"
        /\ \A q \in Proofs : q # p => proofs'[q] = proofs[q]
        /\ UNCHANGED <<instruction, acceptedQuote>>
      BY DEF CompleteUpload, MoveTo, TypeOK, quoteVars
  <2>2. \A q \in Proofs : q # p => proofs[q] \notin {"PENDING_UPLOAD", "SUBMITTED", "VERIFIED"}
      BY <2>1 DEF OneActiveProof, FundsRestOnVerifiedProof, Funded
  <2> QED
      BY <2>1, <2>2 DEF FundsRestOnVerifiedProof, FundingInstructed, OneActiveProof, Funded
<1>4. CASE \E p \in Proofs : VerifyProof(p)
  <2> PICK p \in Proofs : VerifyProof(p)
      BY <1>4
  <2>1. /\ status = "FUNDING_SUBMITTED" /\ status' = status
        /\ proofs[p] = "SUBMITTED" /\ proofs'[p] = "VERIFIED"
        /\ \A q \in Proofs : q # p => proofs'[q] = proofs[q]
        /\ UNCHANGED <<instruction, acceptedQuote>>
      BY DEF VerifyProof, Reviewable, TypeOK, quoteVars, recordVars
  <2> QED
      BY <2>1 DEF FundsRestOnVerifiedProof, FundingInstructed, OneActiveProof, Funded
<1>5. CASE \E p \in Proofs, verdict \in {"NEEDS_RESUBMISSION", "REJECTED"} : ReturnProof(p, verdict)
  <2> PICK p \in Proofs, verdict \in {"NEEDS_RESUBMISSION", "REJECTED"} : ReturnProof(p, verdict)
      BY <1>5
  <2>1. /\ status = "FUNDING_SUBMITTED" /\ status' = "FUNDING_PENDING"
        /\ proofs[p] = "SUBMITTED" /\ proofs'[p] = verdict
        /\ \A q \in Proofs : q # p => proofs'[q] = proofs[q]
        /\ UNCHANGED <<instruction, acceptedQuote>>
      BY DEF ReturnProof, Reviewable, MoveTo, TypeOK, quoteVars
  <2>2. \A q \in Proofs : q # p => proofs[q] \notin {"SUBMITTED", "VERIFIED"}
      BY <2>1 DEF FundsRestOnVerifiedProof
  <2> QED
      BY <2>1, <2>2 DEF FundsRestOnVerifiedProof, FundingInstructed, OneActiveProof, Funded
<1>6. CASE \E p \in Proofs : ConfirmFunds(p)
  <2> PICK p \in Proofs : ConfirmFunds(p)
      BY <1>6
  <2>1. /\ status = "FUNDING_SUBMITTED" /\ status' = "FUNDS_CONFIRMED"
        /\ proofs[p] = "VERIFIED"
        /\ UNCHANGED <<instruction, acceptedQuote, proofs>>
      BY DEF ConfirmFunds, Confirmable, MoveTo, quoteVars, fundingVars
  <2> QED
      BY <2>1 DEF FundsRestOnVerifiedProof, FundingInstructed, OneActiveProof, Funded
<1> QED
    BY <1>1, <1>2, <1>3, <1>4, <1>5, <1>6 DEF FundingStep

\* Every step keeps the funding and its proof in step.
LEMMA StepKeepsFunding ==
    ASSUME TypeOK, RequestsChecked, QuoteInvariant, FundingInvariant, [Next]_vars
    PROVE  FundingInvariant'
<1> USE DEF FundingInvariant, FundsRestOnVerifiedProof, FundingInstructed, OneActiveProof
<1>1. CASE QuoteStep \/ UNCHANGED vars
    BY <1>1
    DEF QuoteStep, CreateDraft, Tick, vars, recordVars, quoteVars, fundingVars
<1>2. CASE PayoutStep \/ ResolutionStep
    BY <1>2, LateStep DEF quoteVars, fundingVars, Funded
<1> QED
    BY <1>1, <1>2, RequestStepKeepsFunding, FundingStepKeepsFunding DEF Next

\* Money counts as received only behind a verified proof for the instruction
\* of the accepted quote, and a proof waits for review exactly while the
\* transfer says so.
THEOREM FundingCorrect == Spec => []FundsRestOnVerifiedProof
<1>1. Init => RequestsChecked /\ QuoteInvariant /\ FundingInvariant
    BY InitInvariants
    DEF Init, RecordInit, FundingInit, FundingInvariant, FundsRestOnVerifiedProof,
        FundingInstructed, OneActiveProof, Funded
<1>2. TypeOK /\ RequestsChecked /\ QuoteInvariant /\ FundingInvariant /\ [Next]_vars
        => RequestsChecked' /\ QuoteInvariant' /\ FundingInvariant'
    BY RequestsStayChecked, StepKeepsQuotes, StepKeepsFunding
<1> QED
    BY <1>1, <1>2, TypeCorrect, PTL DEF Spec, FundingInvariant

-----------------------------------------------------------------------------
\* Payout and refund.

\* No code ever fails a refund case, though its column allows it.
MoneyInvariant == PaidOutOrRefunded /\ refundCase # "FAILED"

\* Before the money is available there is none to pay or to give back.
LEMMA EarlyStepKeepsMoney ==
    ASSUME TypeOK, RequestsChecked, MoneyInvariant, RequestStep \/ QuoteStep \/ FundingStep
    PROVE  MoneyInvariant'
<1>1. /\ UNCHANGED <<payoutVars, resolutionVars>>
      /\ \/ UNCHANGED status
         \/ CanMove(status, status') /\ status' \in EarlyTargets
    BY EarlyStep
<1> QED
    BY <1>1
    DEF MoneyInvariant, PaidOutOrRefunded, CanMove, EarlyTargets, RequestTargets, payoutVars,
        resolutionVars

\* An open case has no refund and no report behind it, so working on it,
\* reporting it and holding it start from a clean slate.
LEMMA PayoutStepKeepsMoney ==
    ASSUME TypeOK, CaseInvariant, MoneyInvariant, PayoutStep
    PROVE  MoneyInvariant'
<1> USE DEF MoneyInvariant, PaidOutOrRefunded
<1>1. UNCHANGED refundCase
    BY DEF PayoutStep, resolutionVars
<1>2. CASE UpdateAssociate
    BY <1>1, <1>2 DEF UpdateAssociate, recordVars
<1>3. CASE \E contact \in {"NONE", "USABLE"}, references \in SUBSET {"RECORDED"} :
              CreateCase(contact, references)
    BY <1>1, <1>3 DEF CreateCase, CanCreateCase, MoveTo, TypeOK, RefundStatus
<1>4. CASE \/ \E contact \in {associate, "USABLE"}, references \in SUBSET {"RECORDED"} :
                 UpdateCase(contact, references)
           \/ \E kind \in {"PENDING", "RECORDED"} : AddEvidence(kind)
           \/ \E left \in SUBSET {"PENDING"} : CompleteEvidenceUpload(left)
    BY <1>1, <1>4 DEF UpdateCase, AddEvidence, CompleteEvidenceUpload, CaseOpen, recordVars
<1>5. CASE \E references \in SUBSET {"RECORDED"} : ReportPayout(references)
    BY <1>1, <1>5 DEF ReportPayout, CanReport, CaseOpen, MoveTo, TypeOK
<1>6. CASE PlaceHold \/ ReleaseHold
    BY <1>1, <1>6 DEF PlaceHold, ReleaseHold, CanRelease, CaseOpen, MoveTo
<1> QED
    BY <1>2, <1>3, <1>4, <1>5, <1>6 DEF PayoutStep

\* A resolution operation never gives back what was paid out.
LEMMA ResolutionStepKeepsMoney ==
    ASSUME TypeOK, CaseInvariant, MoneyInvariant, ResolutionStep
    PROVE  MoneyInvariant'
<1> USE DEF MoneyInvariant, PaidOutOrRefunded
<1>1. CASE RequestSenderConfirmation \/ ConfirmRecipientReceived \/ CompleteByAdmin
    BY <1>1
    DEF RequestSenderConfirmation, CanRequestConfirmation, ConfirmRecipientReceived,
        CanConfirmReceipt, CompleteByAdmin, CanComplete, PayoutAttested, MoveTo, payoutVars,
        resolutionVars
<1>2. CASE \E d \in Disputes : OpenDispute(d)
    BY <1>2
    DEF OpenDispute, DisputableStates, MoveTo, CaseInvariant, CaseAgreesWithTransfer
<1>3. CASE \E d \in Disputes : TakeDispute(d)
    BY <1>3 DEF TakeDispute, recordVars, payoutVars
<1>4. CASE \E d \in Disputes, action \in ResolutionAction : ResolveDispute(d, action)
  <2> PICK d \in Disputes, action \in ResolutionAction : ResolveDispute(d, action)
      BY <1>4
  <2>1. PICK target \in TransferStatus : target = ResolutionTarget(d, action)
      BY DEF ResolveDispute, MoveTo, CanMove, TransferStatus
  <2>2. /\ status = "DISPUTED"
        /\ status' = target
        /\ payoutCase' = CaseAfterDispute(target)
        /\ UNCHANGED <<confirmations, evidence>>
        /\ target = "COMPLETED" => payoutCase = "REPORTED"
        /\ refundCase' = IF action = "REFUND" THEN "PENDING" ELSE refundCase
      BY <2>1 DEF ResolveDispute, CanResolve, MoveTo, PayoutAttested, CreateRefund
  <2>3. /\ payoutCase \in {"ON_HOLD", "REPORTED"}
        /\ refundCase = "NONE"
      BY <2>2 DEF CaseInvariant, CaseAgreesWithTransfer, TypeOK, RefundStatus
  <2>4. /\ action = "REFUND" <=> target = "REFUND_PENDING"
        /\ target # "REFUNDED"
      BY <2>1 DEF ResolutionTarget, ResolutionAction
  <2>5. /\ payoutCase = "ON_HOLD" => payoutCase' \in {"IN_PROGRESS", "FAILED"}
        /\ payoutCase = "REPORTED" => payoutCase' \in {"REPORTED", "COMPLETED", "FAILED"}
        /\ target = "REFUND_PENDING" => payoutCase' = "FAILED"
      BY <2>2, <2>3 DEF CaseAfterDispute
  <2> QED
      BY <2>2, <2>3, <2>4, <2>5
<1>5. CASE StartRefund
    BY <1>5
    DEF StartRefund, CanStartRefund, CreateRefund, MoveTo, CaseInvariant, CaseAgreesWithTransfer,
        BeforeFunds
<1>6. CASE ConfirmRefund
    BY <1>6 DEF ConfirmRefund, CanConfirmRefund, MoveTo, payoutVars
<1> QED
    BY <1>1, <1>2, <1>3, <1>4, <1>5, <1>6 DEF ResolutionStep

\* Every step keeps the money in one place.
LEMMA StepKeepsMoney ==
    ASSUME TypeOK, RequestsChecked, CaseInvariant, MoneyInvariant, [Next]_vars
    PROVE  MoneyInvariant'
<1>1. CASE UNCHANGED vars
    BY <1>1
    DEF MoneyInvariant, PaidOutOrRefunded, vars, recordVars, payoutVars, resolutionVars
<1> QED
    BY <1>1, EarlyStepKeepsMoney, PayoutStepKeepsMoney, ResolutionStepKeepsMoney DEF Next

\* The money leaves once: a transfer is paid out or refunded but not both,
\* and a payout that was reported is never worked on again.
THEOREM MoneyCorrect == Spec => []PaidOutOrRefunded
<1>1. Init => RequestsChecked /\ CaseInvariant /\ MoneyInvariant
    BY InitInvariants
    DEF Init, RecordInit, PayoutInit, ResolutionInit, MoneyInvariant, PaidOutOrRefunded
<1>2. TypeOK /\ RequestsChecked /\ CaseInvariant /\ MoneyInvariant /\ [Next]_vars
        => RequestsChecked' /\ CaseInvariant' /\ MoneyInvariant'
    BY RequestsStayChecked, StepKeepsCase, StepKeepsMoney
<1> QED
    BY <1>1, <1>2, TypeCorrect, PTL DEF Spec, MoneyInvariant

-----------------------------------------------------------------------------
(* The steps: the database accepts each of them, and each is a step of the *)
(* life cycle or a stutter                                                *)

Invariant ==
    TypeOK /\ RequestsChecked /\ CaseInvariant /\ QuoteInvariant /\ FundingInvariant
    /\ MoneyInvariant

\* The whole invariant holds at the start.
LEMMA InitInvariant == Init => Invariant
<1> SUFFICES ASSUME Init PROVE Invariant
    OBVIOUS
<1>1. TypeOK
    BY InitTypes
<1>2. FundingInvariant
    BY DEF Init, RecordInit, FundingInit, FundingInvariant, FundsRestOnVerifiedProof,
           FundingInstructed, OneActiveProof, Funded
<1>3. MoneyInvariant
    BY DEF Init, RecordInit, PayoutInit, ResolutionInit, MoneyInvariant, PaidOutOrRefunded
<1> QED
    BY <1>1, <1>2, <1>3, InitInvariants DEF Invariant

\* Every step keeps the whole invariant.
LEMMA StepInvariant == Invariant /\ [Next]_vars => Invariant'
BY StepTypes, RequestsStayChecked, StepKeepsCase, StepKeepsQuotes, StepKeepsFunding,
   StepKeepsMoney
DEF Invariant

-----------------------------------------------------------------------------
\* What the unique indexes and lifecycle triggers ask of a step.

QuotesAccepted == \A v \in QuoteId : QuoteLifecycleAllows(quotes[v], quotes'[v])
ProofsAccepted == \A p \in Proofs : ProofLifecycleAllows(proofs[p], proofs'[p])
CaseAccepted == CaseLifecycleAllows(payoutCase, payoutCase')
DisputesAccepted == \A d \in Disputes : DisputeLifecycleAllows(disputes[d], disputes'[d])
RefundAccepted == RefundLifecycleAllows(refundCase, refundCase')

\* At most one quote is a draft, one on offer and one accepted.
LEMMA OneQuotePerStatus ==
    ASSUME QuoteInvariant
    PROVE  \A s \in {"DRAFT", "SENT", "ACCEPTED"} : OnePerStatus(s)
<1>1. OnePerStatus("ACCEPTED")
    BY DEF QuoteInvariant, AcceptanceIsFinal, OnePerStatus
<1>2. ASSUME NEW s \in {"DRAFT", "SENT"}, NEW v \in QuoteId, NEW w \in QuoteId,
             quotes[v] = s, quotes[w] = s
      PROVE  v = w
  <2>1. ~(v > w) /\ ~(w > v)
      BY <1>2 DEF QuoteInvariant, QuotesInOrder
  <2> QED
      BY <2>1, BoundsAssumption DEF QuoteId
<1> QED
    BY <1>1, <1>2 DEF OnePerStatus

\* A quote operation is a move of the life cycle.
LEMMA QuoteMoves ==
    ASSUME Invariant, [Next]_vars
    PROVE  QuotesAccepted
<1> USE DEF QuotesAccepted, QuoteLifecycleAllows
<1>1. CASE RequestStep
  <2>1. PICK c \in Clients : ClientStep(c)
      BY <1>1 DEF RequestStep
  <2>2. CASE ApplyTransition(c)
      BY <2>2 DEF ApplyTransition, Superseded
  <2>3. CASE SendDraft(c)
      BY <2>3 DEF SendDraft, Sendable, Superseded
  <2>4. CASE \E v \in QuoteId : ExpireSent(c, v)
      BY <2>4 DEF ExpireSent, Invariant, TypeOK
  <2>5. CASE AcceptQuote(c) \/ RejectQuote(c)
      BY <2>5 DEF AcceptQuote, RejectQuote, Decidable, CanDecide, Invariant, TypeOK
  <2>6. CASE UNCHANGED quoteVars
      BY <2>6 DEF quoteVars
  <2> QED
      BY <2>1, <2>2, <2>3, <2>4, <2>5, <2>6
      DEF ClientStep, RequestCancellation, RequestReview, ReadStatus, RequestSend, RequestList,
          RequestDecision, NothingToExpire
<1>2. CASE \E v \in QuoteId, validity \in Validities : CreateDraft(v, validity)
  <2> PICK v \in QuoteId, validity \in Validities : CreateDraft(v, validity)
      BY <1>2
  <2>1. quotes[v] = "ABSENT" /\ quotes' = [quotes EXCEPT ![v] = "DRAFT"]
      BY BoundsAssumption DEF CreateDraft, NextVersion, QuoteId
  <2> QED
      BY <2>1 DEF Invariant, TypeOK
<1>3. CASE FundingStep
    BY <1>3
    DEF FundingStep, PublishInstruction, SubmitReference, RequestUpload, CompleteUpload,
        VerifyProof, ReturnProof, ConfirmFunds, quoteVars
<1>4. CASE PayoutStep \/ ResolutionStep
    BY <1>4, LateStep DEF Invariant, quoteVars
<1>5. CASE (Tick /\ UNCHANGED quoteVars) \/ UNCHANGED vars
    BY <1>5 DEF vars, quoteVars
<1> QED
    BY <1>1, <1>2, <1>3, <1>4, <1>5 DEF Next, QuoteStep

\* A review of a proof is a move of the life cycle.
LEMMA ProofMoves ==
    ASSUME Invariant, [Next]_vars
    PROVE  ProofsAccepted
<1> USE DEF ProofsAccepted, ProofLifecycleAllows
<1>1. CASE FundingStep
  <2>1. CASE \E p \in Proofs : SubmitReference(p) \/ RequestUpload(p)
      BY <2>1 DEF SubmitReference, RequestUpload, ProofAllowed, WithProof, StaleProofs
  <2>2. CASE \E p \in Proofs : \/ CompleteUpload(p) \/ VerifyProof(p)
                               \/ \E verdict \in {"NEEDS_RESUBMISSION", "REJECTED"} :
                                    ReturnProof(p, verdict)
      BY <2>2 DEF CompleteUpload, VerifyProof, ReturnProof, Reviewable, Invariant, TypeOK
  <2> QED
      BY <1>1, <2>1, <2>2 DEF FundingStep, PublishInstruction, ConfirmFunds, fundingVars
<1>2. CASE RequestStep \/ QuoteStep
    BY <1>2 DEF RequestStep, QuoteStep, fundingVars
<1>3. CASE PayoutStep \/ ResolutionStep
    BY <1>3 DEF PayoutStep, ResolutionStep, fundingVars
<1>4. CASE UNCHANGED vars
    BY <1>4 DEF vars, fundingVars
<1> QED
    BY <1>1, <1>2, <1>3, <1>4 DEF Next

\* An operation of the case is a move of the life cycle.
LEMMA CaseMoves ==
    ASSUME Invariant, [Next]_vars
    PROVE  CaseAccepted
<1> USE DEF CaseAccepted, CaseLifecycleAllows
<1>1. CASE RequestStep \/ QuoteStep \/ FundingStep
    BY <1>1, EarlyStep DEF Invariant, payoutVars
<1>2. CASE PayoutStep
    BY <1>2
    DEF PayoutStep, CreateCase, CanCreateCase, UpdateCase, CanUpdateCase, UpdateAssociate,
        AddEvidence, CompleteEvidenceUpload, ReportPayout, CanReport, PlaceHold, ReleaseHold,
        CanRelease, CaseOpen, CaseStatus
<1>3. CASE ResolutionStep
  <2>1. CASE \E d \in Disputes, action \in ResolutionAction : ResolveDispute(d, action)
    <3> PICK d \in Disputes, action \in ResolutionAction : ResolveDispute(d, action)
        BY <2>1
    <3>1. PICK target \in TransferStatus : /\ payoutCase' = CaseAfterDispute(target)
                                           /\ target = "COMPLETED" => payoutCase = "REPORTED"
        BY DEF ResolveDispute, CanResolve, MoveTo, CanMove, TransferStatus, PayoutAttested
    <3> QED
        BY <3>1 DEF CaseAfterDispute
  <2>2. CASE \E d \in Disputes : OpenDispute(d) \/ TakeDispute(d)
      BY <2>2 DEF OpenDispute, TakeDispute, payoutVars
  <2>3. CASE \/ RequestSenderConfirmation \/ ConfirmRecipientReceived \/ CompleteByAdmin
             \/ StartRefund \/ ConfirmRefund
      BY <2>3
      DEF RequestSenderConfirmation, CanRequestConfirmation, ConfirmRecipientReceived,
          CanConfirmReceipt, CompleteByAdmin, CanComplete, StartRefund, CanStartRefund,
          ConfirmRefund, CanConfirmRefund, PayoutAttested, payoutVars
  <2> QED
      BY <1>3, <2>1, <2>2, <2>3 DEF ResolutionStep
<1>4. CASE UNCHANGED vars
    BY <1>4 DEF vars, payoutVars
<1> QED
    BY <1>1, <1>2, <1>3, <1>4 DEF Next

\* A dispute or a refund is a move of the life cycle.
LEMMA DisputeAndRefundMoves ==
    ASSUME Invariant, [Next]_vars
    PROVE  DisputesAccepted /\ RefundAccepted
<1> USE DEF DisputesAccepted, DisputeLifecycleAllows, RefundAccepted, RefundLifecycleAllows
<1>1. CASE RequestStep \/ QuoteStep \/ FundingStep
    BY <1>1, EarlyStep DEF Invariant, resolutionVars
<1>2. CASE PayoutStep \/ UNCHANGED vars
    BY <1>2 DEF PayoutStep, vars, resolutionVars
<1>3. CASE ResolutionStep
  <2>1. CASE \E d \in Disputes, action \in ResolutionAction : ResolveDispute(d, action)
    <3> PICK d \in Disputes, action \in ResolutionAction : ResolveDispute(d, action)
        BY <2>1
    <3>1. DisputesAccepted
        BY DEF ResolveDispute, CanResolve, Active, Invariant, TypeOK
    <3>2. status = "DISPUTED" /\ refundCase' \in {"PENDING", refundCase}
        BY DEF ResolveDispute, CanResolve, CreateRefund
    <3>3. refundCase = "NONE"
        BY <3>2 DEF Invariant, MoneyInvariant, PaidOutOrRefunded, TypeOK, RefundStatus
    <3> QED
        BY <3>1, <3>2, <3>3
  <2>2. CASE \E d \in Disputes : OpenDispute(d) \/ TakeDispute(d)
      BY <2>2 DEF OpenDispute, TakeDispute, Invariant, TypeOK
  <2>3. CASE \/ RequestSenderConfirmation \/ ConfirmRecipientReceived \/ CompleteByAdmin
             \/ StartRefund \/ ConfirmRefund
      BY <2>3
      DEF RequestSenderConfirmation, CanRequestConfirmation, ConfirmRecipientReceived,
          CanConfirmReceipt, CompleteByAdmin, CanComplete, StartRefund, CanStartRefund,
          ConfirmRefund, CanConfirmRefund, CreateRefund, resolutionVars
  <2> QED
      BY <1>3, <2>1, <2>2, <2>3 DEF ResolutionStep
<1> QED
    BY <1>1, <1>2, <1>3 DEF Next

\* No step of a service is one the unique indexes and lifecycle triggers of
\* the migrations reject.
THEOREM DatabaseCorrect == Spec => DatabaseAcceptsEveryStep
<1>1. Invariant /\ Invariant' /\ [Next]_vars => DatabaseAccepts
  <2> SUFFICES ASSUME Invariant, Invariant', [Next]_vars PROVE DatabaseAccepts
      OBVIOUS
  <2>1. \A s \in {"DRAFT", "SENT", "ACCEPTED"} : OnePerStatus(s)'
    <3>1. (QuoteInvariant => \A s \in {"DRAFT", "SENT", "ACCEPTED"} : OnePerStatus(s))'
        BY OneQuotePerStatus, PTL
    <3> QED
        BY <3>1 DEF Invariant
  <2>2. OneActiveProof' /\ OneActiveDispute'
      BY DEF Invariant, FundingInvariant, CaseInvariant, DisputeAgreesWithCase
  <2>3. QuotesAccepted /\ ProofsAccepted /\ CaseAccepted /\ DisputesAccepted /\ RefundAccepted
      BY QuoteMoves, ProofMoves, CaseMoves, DisputeAndRefundMoves
  <2> QED
      BY <2>1, <2>2, <2>3
      DEF DatabaseAccepts, QuotesAccepted, ProofsAccepted, CaseAccepted, DisputesAccepted,
          RefundAccepted
<1> QED
    BY <1>1, InitInvariant, StepInvariant, PTL DEF Spec, DatabaseAcceptsEveryStep

-----------------------------------------------------------------------------
\* The refinement of TransferLifecycle.

\* The abstract table is the concrete one.
LEMMA SameTable == \A from, to : Lifecycle!CanMove(from, to) <=> CanMove(from, to)
BY DEF Lifecycle!CanMove, CanMove

\* Who has the money can be read off the status alone, but for a cancelled
\* transfer.
CustodyFollowsStatus ==
    /\ status \in BeforeFunds => Custody = "SENDER"
    /\ status \in Funded \ {"COMPLETED", "REFUNDED"} => Custody = "HAWELLY"
    /\ status = "COMPLETED" => Custody = "RECIPIENT"
    /\ status = "REFUNDED" => Custody = "RETURNED"
    /\ status = "CANCELLED" => Custody = IF payoutCase = "NONE" THEN "SENDER" ELSE "HAWELLY"

\* The status tells who holds the money.
LEMMA CustodyOfStatus == Invariant => CustodyFollowsStatus
<1> SUFFICES ASSUME Invariant PROVE CustodyFollowsStatus
    OBVIOUS
<1> USE DEF Invariant, CaseInvariant, CaseAgreesWithTransfer, MoneyInvariant, PaidOutOrRefunded
<1>1. refundCase = "REFUNDED" <=> status = "REFUNDED"
    OBVIOUS
<1>2. payoutCase = "COMPLETED" <=> status = "COMPLETED"
    OBVIOUS
<1>3. Custody = IF status = "REFUNDED" THEN "RETURNED"
                ELSE IF status = "COMPLETED" THEN "RECIPIENT"
                ELSE IF status \in Funded \/ payoutCase # "NONE" THEN "HAWELLY"
                ELSE "SENDER"
    BY <1>1, <1>2 DEF Custody
<1>4. status \in BeforeFunds => payoutCase = "NONE" /\ status \notin Funded
    BY DEF BeforeFunds, Funded
<1>5. status = "CANCELLED" => status \notin Funded
    BY DEF Funded
<1>6. status \in BeforeFunds => status \notin {"REFUNDED", "COMPLETED"}
    BY DEF BeforeFunds
<1> QED
    BY <1>3, <1>4, <1>5, <1>6 DEF CustodyFollowsStatus

\* A late step that leaves the status alone leaves the money alone; the
\* others follow the table, but for the release of a hold.
LEMMA LateMoves ==
    ASSUME Invariant, PayoutStep \/ ResolutionStep
    PROVE  \/ UNCHANGED <<status, payoutCase, refundCase>>
           \/ CanMove(status, status') /\ status \in Funded /\ status' \in Funded
           \/ status = "ON_HOLD" /\ status' = "PAYOUT_IN_PROGRESS"
<1>1. \/ UNCHANGED status
      \/ status \in Funded /\ status' \in Funded
    BY LateStep DEF Invariant
<1>2. CASE PayoutStep
  <2>1. UNCHANGED refundCase
      BY <1>2 DEF PayoutStep, resolutionVars
  <2> QED
      BY <1>1, <1>2, <2>1
      DEF PayoutStep, CreateCase, CanCreateCase, UpdateCase, CanUpdateCase, UpdateAssociate,
          AddEvidence, CompleteEvidenceUpload, ReportPayout, CanReport, PlaceHold, ReleaseHold,
          CanRelease, MoveTo, recordVars, CanMove, Funded
<1>3. CASE ResolutionStep
  <2>1. CASE \E d \in Disputes : TakeDispute(d)
      BY <2>1 DEF TakeDispute, recordVars, payoutVars
  <2>2. CASE \E d \in Disputes, action \in ResolutionAction : ResolveDispute(d, action)
      BY <1>1, <2>2 DEF ResolveDispute, MoveTo, CanMove
  <2>3. CASE \E d \in Disputes : OpenDispute(d)
      BY <1>1, <2>3 DEF OpenDispute, MoveTo, CanMove
  <2>4. CASE \/ RequestSenderConfirmation \/ ConfirmRecipientReceived \/ CompleteByAdmin
             \/ StartRefund \/ ConfirmRefund
      BY <1>1, <2>4
      DEF RequestSenderConfirmation, ConfirmRecipientReceived, CompleteByAdmin, StartRefund,
          ConfirmRefund, MoveTo, CanMove
  <2> QED
      BY <1>3, <2>1, <2>2, <2>3, <2>4 DEF ResolutionStep
<1> QED
    BY <1>2, <1>3

\* A step once the money is there maps to a step or a stutter.
LEMMA LateStepRefines ==
    ASSUME Invariant, Invariant', PayoutStep \/ ResolutionStep
    PROVE  Lifecycle!Next \/ UNCHANGED <<status, Custody>>
<1>1. (Invariant => CustodyFollowsStatus)'
    BY CustodyOfStatus, PTL
<1> USE DEF CustodyFollowsStatus
<1>2. CASE UNCHANGED <<status, payoutCase, refundCase>>
    BY <1>2 DEF Custody
<1>3. CASE CanMove(status, status') /\ status \in Funded /\ status' \in Funded
  <2>1. Custody = "HAWELLY"
      BY <1>3, CustodyOfStatus DEF CanMove
  <2>2. CASE status' = "COMPLETED"
      BY <1>1, <1>3, <2>1, <2>2, SameTable DEF Lifecycle!Next, Lifecycle!Complete
  <2>3. CASE status' = "REFUNDED"
    <3>1. status = "REFUND_PENDING"
        BY <1>3, <2>3 DEF CanMove
    <3> QED
        BY <1>1, <2>1, <2>3, <3>1 DEF Lifecycle!Next, Lifecycle!Refund
  <2>4. CASE status' \notin {"COMPLETED", "REFUNDED"}
      BY <1>1, <1>3, <2>1, <2>4, SameTable DEF Lifecycle!Next, Lifecycle!Process
  <2> QED
      BY <2>2, <2>3, <2>4
<1>4. CASE status = "ON_HOLD" /\ status' = "PAYOUT_IN_PROGRESS"
  <2>1. Custody = "HAWELLY" /\ Custody' = "HAWELLY"
      BY <1>1, <1>4, CustodyOfStatus DEF Funded
  <2> QED
      BY <1>4, <2>1 DEF Lifecycle!Next, Lifecycle!Process
<1> QED
    BY <1>2, <1>3, <1>4, LateMoves

\* A step before the money is there maps to a step or a stutter.
LEMMA EarlyStepRefines ==
    ASSUME Invariant, Invariant', RequestStep \/ QuoteStep \/ FundingStep
    PROVE  Lifecycle!Next \/ UNCHANGED <<status, Custody>>
<1>1. /\ UNCHANGED <<payoutCase, refundCase>>
      /\ \/ UNCHANGED status
         \/ CanMove(status, status') /\ status' \in EarlyTargets
    BY EarlyStep DEF Invariant, payoutVars, resolutionVars
<1>2. (Invariant => CustodyFollowsStatus)'
    BY CustodyOfStatus, PTL
<1> USE DEF CustodyFollowsStatus
<1>3. CASE UNCHANGED status
    BY <1>1, <1>3 DEF Custody
<1>4. CASE status = "ON_HOLD" /\ status' = "CANCELLED"
  <2>1. payoutCase = "ON_HOLD" /\ Custody = "HAWELLY"
      BY <1>4, CustodyOfStatus DEF Invariant, CaseInvariant, CaseAgreesWithTransfer, Funded
  <2>2. Custody' = "HAWELLY"
      BY <1>1, <1>2, <1>4, <2>1
  <2> QED
      BY <1>4, <2>1, <2>2, SameTable DEF Lifecycle!Next, Lifecycle!Process, CanMove
<1>5. CASE status \in BeforeFunds /\ CanMove(status, status') /\ status' \in EarlyTargets
  <2>1. Custody = "SENDER" /\ payoutCase = "NONE"
      BY <1>5, CustodyOfStatus DEF Invariant, CaseInvariant, CaseAgreesWithTransfer
  <2>2. CASE status' = "FUNDS_CONFIRMED"
    <3>1. status = "FUNDING_SUBMITTED"
        BY <1>5, <2>2 DEF CanMove
    <3> QED
        BY <1>2, <2>1, <2>2, <3>1 DEF Lifecycle!Next, Lifecycle!ReceiveFunds, Funded
  <2>3. CASE status' # "FUNDS_CONFIRMED"
    <3>1. status' \in BeforeFunds \cup {"CANCELLED"}
        BY <1>5, <2>3 DEF EarlyTargets, RequestTargets, BeforeFunds
    <3>2. Custody' = "SENDER"
        BY <1>1, <1>2, <2>1, <3>1
    <3> QED
        BY <1>5, <2>1, <3>1, <3>2, SameTable
        DEF Lifecycle!Next, Lifecycle!Negotiate, Lifecycle!BeforeFunds, BeforeFunds
  <2> QED
      BY <2>2, <2>3
<1>6. \/ UNCHANGED status
      \/ status = "ON_HOLD" /\ status' = "CANCELLED"
      \/ status \in BeforeFunds /\ CanMove(status, status') /\ status' \in EarlyTargets
    BY <1>1 DEF CanMove, EarlyTargets, RequestTargets, BeforeFunds
<1> QED
    BY <1>3, <1>4, <1>5, <1>6

\* Whatever the requests in flight had read, every step of every service is a
\* step of the published life cycle or none at all: the money is received
\* once and leaves once.
THEOREM RefinementCorrect == Spec => ImplementsLifecycle
<1>1. Init => Lifecycle!Init
    BY DEF Init, RecordInit, PayoutInit, ResolutionInit, Lifecycle!Init, Custody, Funded
<1>2. Invariant /\ Invariant' /\ [Next]_vars => [Lifecycle!Next]_(Lifecycle!vars)
  <2> SUFFICES ASSUME Invariant, Invariant', [Next]_vars
               PROVE  Lifecycle!Next \/ UNCHANGED <<status, Custody>>
      BY DEF Lifecycle!vars
  <2>1. CASE UNCHANGED vars
      BY <2>1 DEF vars, recordVars, payoutVars, resolutionVars, Custody
  <2> QED
      BY <2>1, EarlyStepRefines, LateStepRefines DEF Next
<1> QED
    BY <1>1, <1>2, InitInvariant, StepInvariant, PTL DEF Spec, ImplementsLifecycle, Lifecycle!Spec

-----------------------------------------------------------------------------
(* The proofs of the sender *)

\* An operation that leaves the proofs and the clock alone moves no row.
LEMMA ProofsLeftAlone ==
    ASSUME UNCHANGED <<proofs, uploadBy, now>>
    PROVE  Submissions!Move
BY DEF Submissions!Move, ProofRow, StaleProofs

\* A review finds a proof that was recorded, and leaves it so.
LEMMA ReviewLeavesRows ==
    ASSUME TypeOK, NEW p \in Proofs, NEW s \in {"VERIFIED", "NEEDS_RESUBMISSION", "REJECTED"},
           proofs[p] = "SUBMITTED", proofs' = [proofs EXCEPT ![p] = s],
           UNCHANGED <<uploadBy, now>>
    PROVE  Submissions!Move
<1>1. \A q \in Proofs : ProofRow'[q] = ProofRow[q]
    BY DEF ProofRow, StaleProofs, TypeOK
<1> QED
    BY <1>1 DEF Submissions!Move, ProofRow

\* What submitProof leaves of the rows, whatever it adds.
LEMMA WithProofRows ==
    ASSUME Invariant, NEW p \in Proofs, ProofAllowed(p), NEW s \in {"PENDING_UPLOAD", "SUBMITTED"},
           proofs' = WithProof(p, s), UNCHANGED now,
           s = "SUBMITTED" => UNCHANGED uploadBy,
           s = "PENDING_UPLOAD" => uploadBy' = [uploadBy EXCEPT ![p] = now + UploadTtl]
    PROVE  /\ Submissions!MaySubmit
           /\ ProofRow[p] = "ABSENT"
           /\ ProofRow' = [Submissions!WithoutLapsed EXCEPT
                             ![p] = IF s = "SUBMITTED" THEN "RECORDED" ELSE "PENDING"]
<1>1. Submissions!MaySubmit
    BY DEF Submissions!MaySubmit, ProofRow, ProofAllowed, CanSubmitProof
<1>2. ProofRow[p] = "ABSENT" /\ p \notin StaleProofs
    BY DEF ProofRow, ProofAllowed, StaleProofs
<1>3. ProofRow'[p] = IF s = "SUBMITTED" THEN "RECORDED" ELSE "PENDING"
  <2>1. proofs'[p] = s
      BY DEF WithProof
  <2>2. s = "PENDING_UPLOAD" => p \notin StaleProofs'
    <3>1. now \in Nat /\ uploadBy \in [Proofs -> Nat]
        BY DEF Invariant, TypeOK
    <3>2. s = "PENDING_UPLOAD" => ~(uploadBy'[p] <= now')
        BY <3>1, UploadTtlAssumption
    <3> QED
        BY <3>2 DEF StaleProofs
  <2> QED
      BY <2>1, <2>2 DEF ProofRow
<1>4. \A q \in Proofs \ {p} :
        ProofRow'[q] = IF ProofRow[q] = "LAPSED" THEN "ABSENT" ELSE ProofRow[q]
  <2> SUFFICES ASSUME NEW q \in Proofs \ {p}
               PROVE  ProofRow'[q] = IF ProofRow[q] = "LAPSED" THEN "ABSENT" ELSE ProofRow[q]
      OBVIOUS
  <2>1. proofs'[q] = IF q \in StaleProofs THEN "ABSENT" ELSE proofs[q]
      BY DEF WithProof
  <2>2. proofs[q] # "PENDING_UPLOAD" \/ q \in StaleProofs
      BY DEF ProofAllowed, CanSubmitProof
  <2>3. CASE q \in StaleProofs
      BY <2>1, <2>3 DEF ProofRow, StaleProofs
  <2>4. CASE q \notin StaleProofs
      BY <2>1, <2>2, <2>4 DEF ProofRow
  <2> QED
      BY <2>3, <2>4
<1>5. ProofRow' = [q \in Proofs |-> ProofRow'[q]]
    BY DEF ProofRow
<1> QED
    BY <1>1, <1>2, <1>3, <1>4, <1>5 DEF Submissions!WithoutLapsed

\* Every operation of the funding service moves the rows as promised.
LEMMA FundingStepMovesRows ==
    ASSUME Invariant, FundingStep
    PROVE  Submissions!Next
<1> USE DEF Invariant
<1>1. CASE PublishInstruction \/ \E p \in Proofs : ConfirmFunds(p)
    BY <1>1, ProofsLeftAlone
    DEF Submissions!Next, PublishInstruction, ConfirmFunds, MoveTo, fundingVars
<1>2. CASE \E p \in Proofs : SubmitReference(p)
  <2>1. PICK p \in Proofs : SubmitReference(p)
      BY <1>2
  <2>2. /\ ProofAllowed(p) /\ proofs' = WithProof(p, "SUBMITTED") /\ UNCHANGED <<uploadBy, now>>
        /\ status' = "FUNDING_SUBMITTED"
      BY <2>1 DEF SubmitReference, MoveTo
  <2>3. Submissions!Submit
      BY <2>2, WithProofRows DEF Submissions!Submit
  <2> QED
      BY <2>3 DEF Submissions!Next
<1>3. CASE \E p \in Proofs : RequestUpload(p)
  <2>1. PICK p \in Proofs : RequestUpload(p)
      BY <1>3
  <2>2. /\ ProofAllowed(p) /\ proofs' = WithProof(p, "PENDING_UPLOAD")
        /\ uploadBy' = [uploadBy EXCEPT ![p] = now + UploadTtl]
        /\ UNCHANGED <<now, status>>
      BY <2>1 DEF RequestUpload, recordVars
  <2>3. Submissions!Announce(p)
      BY <2>2, WithProofRows DEF Submissions!Announce
  <2> QED
      BY <2>3 DEF Submissions!Next
<1>4. CASE \E p \in Proofs : CompleteUpload(p)
  <2>1. PICK p \in Proofs : CompleteUpload(p)
      BY <1>4
  <2>2. /\ proofs[p] = "PENDING_UPLOAD" /\ proofs' = [proofs EXCEPT ![p] = "SUBMITTED"]
        /\ status = "FUNDING_PENDING" /\ status' = "FUNDING_SUBMITTED"
        /\ UNCHANGED <<uploadBy, now>>
      BY <2>1 DEF CompleteUpload, MoveTo
  <2>3. ProofRow[p] \in {"PENDING", "LAPSED"}
      BY <2>2 DEF ProofRow
  <2>4. \A q \in Proofs : ProofRow'[q] = IF q = p THEN "RECORDED" ELSE ProofRow[q]
      BY <2>2 DEF ProofRow, StaleProofs, TypeOK
  <2>5. ProofRow' = [ProofRow EXCEPT ![p] = "RECORDED"]
      BY <2>4 DEF ProofRow
  <2>6. Submissions!Record(p)
      BY <2>2, <2>3, <2>5 DEF Submissions!Record
  <2> QED
      BY <2>6 DEF Submissions!Next
<1>5. CASE \E p \in Proofs : \/ VerifyProof(p)
                            \/ \E verdict \in {"NEEDS_RESUBMISSION", "REJECTED"} : ReturnProof(p, verdict)
  <2>1. PICK p \in Proofs, s \in {"VERIFIED", "NEEDS_RESUBMISSION", "REJECTED"} :
          /\ proofs[p] = "SUBMITTED" /\ proofs' = [proofs EXCEPT ![p] = s]
          /\ UNCHANGED <<uploadBy, now>>
      BY <1>5 DEF VerifyProof, ReturnProof, Reviewable, MoveTo, recordVars
  <2> QED
      BY <2>1, ReviewLeavesRows DEF Submissions!Next
<1> QED
    BY <1>1, <1>2, <1>3, <1>4, <1>5 DEF FundingStep

\* The clock lets links lapse and does nothing else to a proof.
LEMMA TickLetsLinksLapse ==
    ASSUME Invariant, Tick, UNCHANGED <<status, fundingVars>>
    PROVE  Submissions!Lapse
<1> DEFINE late == {p \in Proofs : ProofRow[p] = "PENDING" /\ p \in StaleProofs'}
<1>1. now' = now + 1 /\ now \in Nat /\ uploadBy \in [Proofs -> Nat]
    BY DEF Tick, Invariant, TypeOK
<1>2. \A p \in StaleProofs : p \in StaleProofs'
    BY <1>1 DEF StaleProofs, fundingVars
<1>3. \A p \in Proofs : ProofRow'[p] = IF p \in late THEN "LAPSED" ELSE ProofRow[p]
    BY <1>2 DEF ProofRow, fundingVars
<1>4. ProofRow' = [p \in Proofs |-> IF p \in late THEN "LAPSED" ELSE ProofRow[p]]
    BY <1>3 DEF ProofRow
<1> QED
    BY <1>4 DEF Submissions!Lapse

\* Whatever surrounds them, the rows of proofs move one at a time, are taken
\* away by a later submission only, and never once they are recorded.
THEOREM ProofRowsCorrect == Spec => ImplementsProofRows
<1>1. Init => Submissions!Init
    BY DEF Init, FundingInit, Submissions!Init, ProofRow
<1>2. Invariant /\ [Next]_vars => [Submissions!Next]_(Submissions!vars)
  <2> SUFFICES ASSUME Invariant, [Next]_vars
               PROVE  [Submissions!Next]_(Submissions!vars)
      OBVIOUS
  <2>1. CASE UNCHANGED <<proofs, uploadBy, now>>
      BY <2>1, ProofsLeftAlone DEF Submissions!Next
  <2>2. CASE FundingStep
      BY <2>2, FundingStepMovesRows
  <2>3. CASE QuoteStep
    <3>1. CASE Tick
        BY <2>3, <3>1, TickLetsLinksLapse DEF QuoteStep, Tick, Submissions!Next
    <3> QED
        BY <2>1, <2>3, <3>1 DEF QuoteStep, CreateDraft, recordVars, fundingVars
  <2>4. CASE RequestStep
      BY <2>1, <2>4
      DEF RequestStep, ClientStep, RequestCancellation, RequestReview, ReadStatus,
          ApplyTransition, RequestSend, SendDraft, RequestList, RequestDecision, ExpireSent,
          NothingToExpire, AcceptQuote, RejectQuote, Abandon, fundingVars
  <2>5. CASE PayoutStep \/ ResolutionStep
      BY <2>1, <2>5, LateStep DEF Invariant, fundingVars
  <2> QED
      BY <2>1, <2>2, <2>3, <2>4, <2>5 DEF Next, vars, recordVars, fundingVars
<1> QED
    BY <1>1, <1>2, InitInvariant, StepInvariant, PTL DEF Spec, ImplementsProofRows, Submissions!Spec
=============================================================================
