--------------------------- MODULE FundingService ---------------------------
(***************************************************************************)
(* apps/api/src/funding/service.ts for one transfer: publishing the        *)
(* funding instruction, submitting and uploading a proof, reviewing it and *)
(* confirming the funds.  Each operation is one transaction under the row  *)
(* lock.  The file behind an uploaded proof is left to another model: here *)
(* an upload is its database half.                                         *)
(***************************************************************************)
EXTENDS QuoteService

CONSTANTS
    Proofs,     \* the FundingProof rows the sender may create
    UploadTtl   \* lifetime of an upload URL, in ticks

ASSUME UploadTtlAssumption == UploadTtl \in Nat \ {0}

VARIABLES
    instruction,  \* FundingInstruction.acceptedQuoteId, or NoQuote
    proofs,       \* FundingProof.status by row; "ABSENT" when there is no row
    uploadBy      \* FundingProof.uploadExpiresAt by row

fundingVars == <<instruction, proofs, uploadBy>>

ProofStatus ==
    {"PENDING_UPLOAD", "SUBMITTED", "NEEDS_RESUBMISSION", "VERIFIED", "REJECTED"}

FundingInit ==
    /\ instruction = NoQuote
    /\ proofs = [p \in Proofs |-> "ABSENT"]
    /\ uploadBy = [p \in Proofs |-> 0]

\* publishInstruction, with a template that is active and fits the currency.
CanPublish ==
    /\ status = "QUOTE_ACCEPTED"
    /\ acceptedQuote # NoQuote
    /\ quotes[acceptedQuote] = "ACCEPTED"
    /\ instruction = NoQuote

PublishInstruction ==
    /\ CanPublish
    /\ instruction' = acceptedQuote
    /\ MoveTo("FUNDING_PENDING")
    /\ UNCHANGED <<now, inFlight, quoteVars, proofs, uploadBy>>

\* Upload placeholders past their expiry; submitProof deletes them first.
StaleProofs == {p \in Proofs : proofs[p] = "PENDING_UPLOAD" /\ uploadBy[p] <= now}

\* The guards of submitProof, the deletion of stale placeholders included.
CanSubmitProof ==
    /\ status = "FUNDING_PENDING"
    /\ instruction # NoQuote
    /\ \A q \in Proofs \ StaleProofs : proofs[q] \notin {"PENDING_UPLOAD", "SUBMITTED"}

ProofAllowed(p) == CanSubmitProof /\ proofs[p] = "ABSENT"

\* A mistake the properties must catch: the placeholders stay.
ProofAdded(p, s) == [proofs EXCEPT ![p] = s]

WithProof(p, s) ==
    [q \in Proofs |-> IF q = p THEN s ELSE IF q \in StaleProofs THEN "ABSENT" ELSE proofs[q]]

\* submitProof without an attachment: the transfer is submitted at once.
SubmitReference(p) ==
    /\ ProofAllowed(p)
    /\ proofs' = WithProof(p, "SUBMITTED")
    /\ MoveTo("FUNDING_SUBMITTED")
    /\ UNCHANGED <<now, inFlight, quoteVars, instruction, uploadBy>>

\* submitProof with an attachment: the row waits for its upload.
RequestUpload(p) ==
    /\ ProofAllowed(p)
    /\ proofs' = WithProof(p, "PENDING_UPLOAD")
    /\ uploadBy' = [uploadBy EXCEPT ![p] = now + UploadTtl]
    /\ UNCHANGED <<recordVars, quoteVars, instruction>>

\* The transaction of completeUpload.  Its expiry check came before the file
\* was written, so a slow upload may commit after uploadExpiresAt.
CompleteUpload(p) ==
    /\ proofs[p] = "PENDING_UPLOAD"
    /\ status = "FUNDING_PENDING"
    /\ proofs' = [proofs EXCEPT ![p] = "SUBMITTED"]
    /\ MoveTo("FUNDING_SUBMITTED")
    /\ UNCHANGED <<now, inFlight, quoteVars, instruction, uploadBy>>

Reviewable(p) == status = "FUNDING_SUBMITTED" /\ proofs[p] = "SUBMITTED"

\* reviewProof with VERIFY leaves the transfer where it is.
VerifyProof(p) ==
    /\ Reviewable(p)
    /\ proofs' = [proofs EXCEPT ![p] = "VERIFIED"]
    /\ UNCHANGED <<recordVars, quoteVars, instruction, uploadBy>>

\* reviewProof with REQUEST_RESUBMISSION or REJECT sends it back.
ReturnProof(p, verdict) ==
    /\ verdict \in {"NEEDS_RESUBMISSION", "REJECTED"}
    /\ Reviewable(p)
    /\ proofs' = [proofs EXCEPT ![p] = verdict]
    /\ MoveTo("FUNDING_PENDING")
    /\ UNCHANGED <<now, inFlight, quoteVars, instruction, uploadBy>>

\* A mistake the properties must catch: any proof under review will do.
ConfirmUnreviewed(p) ==
    /\ proofs[p] \in {"SUBMITTED", "VERIFIED"}
    /\ status = "FUNDING_SUBMITTED"
    /\ MoveTo("FUNDS_CONFIRMED")
    /\ UNCHANGED <<now, inFlight, quoteVars, fundingVars>>

Confirmable(p) == proofs[p] = "VERIFIED" /\ status = "FUNDING_SUBMITTED"

ConfirmFunds(p) ==
    /\ Confirmable(p)
    /\ MoveTo("FUNDS_CONFIRMED")
    /\ UNCHANGED <<now, inFlight, quoteVars, fundingVars>>

\* The moves the FundingProof lifecycle and delete triggers let through.
ProofLifecycleAllows(old, new) ==
    \/ new = old
    \/ old = "ABSENT" /\ new \in {"PENDING_UPLOAD", "SUBMITTED"}
    \/ old = "PENDING_UPLOAD" /\ new \in {"SUBMITTED", "ABSENT"}
    \/ old = "SUBMITTED" /\ new \in {"NEEDS_RESUBMISSION", "VERIFIED", "REJECTED"}

\* The partial unique index on active proofs.
OneActiveProof ==
    \A p, q \in Proofs : {proofs[p], proofs[q]} \subseteq {"PENDING_UPLOAD", "SUBMITTED"} => p = q
=============================================================================
