---------------------------- MODULE PayoutService ---------------------------
(***************************************************************************)
(* apps/api/src/payout/service.ts for one transfer: the payout case, the   *)
(* associate contact it names, its evidence, the payout report and the     *)
(* hold.  The associate directory is reduced to whether the contact the    *)
(* case names is active and compatible, which updateAssociate may change   *)
(* at any time; evidence is reduced to what the report's check tells apart.*)
(***************************************************************************)
EXTENDS QuoteService

VARIABLES
    payoutCase,    \* PayoutCase.status; "NONE" when there is no case
    associate,     \* the case's contact: "NONE", "USABLE" or "UNUSABLE"
    evidence,      \* "PENDING": a receipt awaits its upload; "RECORDED": a
                   \* reference or an uploaded receipt exists
    confirmations  \* the sources of the TransferConfirmation rows

payoutVars == <<payoutCase, associate, evidence, confirmations>>

CaseStatus == {"PENDING", "IN_PROGRESS", "REPORTED", "ON_HOLD", "COMPLETED", "FAILED"}

PayoutInit ==
    /\ payoutCase = "NONE"
    /\ associate = "NONE"
    /\ evidence = {}
    /\ confirmations = {}

\* createCase: a contact given must be compatible; a reference may be given.
CanCreateCase ==
    /\ status = "FUNDS_CONFIRMED"
    /\ payoutCase = "NONE"
    /\ acceptedQuote # NoQuote
    /\ quotes[acceptedQuote] = "ACCEPTED"

CreateCase(contact, references) ==
    /\ CanCreateCase
    /\ contact \in {"NONE", "USABLE"}
    /\ references \subseteq {"RECORDED"}
    /\ payoutCase' = "IN_PROGRESS"
    /\ associate' = contact
    /\ evidence' = references
    /\ MoveTo("PAYOUT_IN_PROGRESS")
    /\ UNCHANGED <<now, inFlight, quoteVars, confirmations>>

CaseOpen == status = "PAYOUT_IN_PROGRESS" /\ payoutCase = "IN_PROGRESS"

\* updateCase: the contact may be replaced, a reference may be filled in.
CanUpdateCase == CaseOpen /\ acceptedQuote # NoQuote

UpdateCase(contact, references) ==
    /\ CanUpdateCase
    /\ contact \in {associate, "USABLE"}
    /\ references \subseteq {"RECORDED"}
    /\ associate' = contact
    /\ evidence' = evidence \cup references
    /\ UNCHANGED <<recordVars, quoteVars, payoutCase, confirmations>>

\* updateAssociate: the contact's status, countries, methods or currencies
\* change; no transfer is looked at.
UpdateAssociate ==
    /\ associate # "NONE"
    /\ associate' = IF associate = "USABLE" THEN "UNUSABLE" ELSE "USABLE"
    /\ UNCHANGED <<recordVars, quoteVars, payoutCase, evidence, confirmations>>

\* addEvidence: a bare reference counts at once, an attachment must follow.
AddEvidence(kind) ==
    /\ CaseOpen
    /\ kind \in {"PENDING", "RECORDED"}
    /\ evidence' = evidence \cup {kind}
    /\ UNCHANGED <<recordVars, quoteVars, payoutCase, associate, confirmations>>

\* The transaction of completeUpload; other receipts may still be pending.
CompleteEvidenceUpload(left) ==
    /\ CaseOpen
    /\ "PENDING" \in evidence
    /\ left \subseteq {"PENDING"}
    /\ evidence' = (evidence \ {"PENDING"}) \cup left \cup {"RECORDED"}
    /\ UNCHANGED <<recordVars, quoteVars, payoutCase, associate, confirmations>>

\* reportPayout, with or without a reference of its own.  The contact's row
\* is locked and checked again.
CanReport(references) ==
    /\ CaseOpen
    /\ associate = "USABLE"
    /\ "RECORDED" \in evidence \cup references

ReportPayout(references) ==
    /\ references \subseteq {"RECORDED"}
    /\ CanReport(references)
    /\ payoutCase' = "REPORTED"
    /\ evidence' = evidence \cup references
    /\ confirmations' = confirmations \cup {"STAFF"}
    /\ MoveTo("PAYOUT_REPORTED")
    /\ UNCHANGED <<now, inFlight, quoteVars, associate>>

\* changeHold, placing: the table is asked.
PlaceHold ==
    /\ CaseOpen
    /\ payoutCase' = "ON_HOLD"
    /\ MoveTo("ON_HOLD")
    /\ UNCHANGED <<now, inFlight, quoteVars, associate, evidence, confirmations>>

\* A mistake the properties must catch: the table is asked, as it is for
\* placing a hold.
ReleaseByTable ==
    /\ status = "ON_HOLD" /\ payoutCase = "ON_HOLD"
    /\ payoutCase' = "IN_PROGRESS"
    /\ MoveTo("PAYOUT_IN_PROGRESS")
    /\ UNCHANGED <<now, inFlight, quoteVars, associate, evidence, confirmations>>

\* changeHold, releasing: the table has no such row and is not asked.
CanRelease == status = "ON_HOLD" /\ payoutCase = "ON_HOLD"

ReleaseHold ==
    /\ CanRelease
    /\ payoutCase' = "IN_PROGRESS"
    /\ status' = "PAYOUT_IN_PROGRESS"
    /\ UNCHANGED <<now, inFlight, quoteVars, associate, evidence, confirmations>>

\* The moves the protect_payout_case_integrity trigger lets through.
CaseLifecycleAllows(old, new) ==
    \/ new = old
    \/ old = "NONE" /\ new \in CaseStatus
    \/ old = "PENDING" /\ new \in {"IN_PROGRESS", "ON_HOLD", "FAILED"}
    \/ old = "IN_PROGRESS" /\ new \in {"REPORTED", "ON_HOLD", "FAILED"}
    \/ old = "ON_HOLD" /\ new \in {"IN_PROGRESS", "FAILED"}
    \/ old = "REPORTED" /\ new \in {"COMPLETED", "FAILED"}
=============================================================================
