--------------------------- MODULE EvidenceUpload ---------------------------
(***************************************************************************)
(* The two halves of an evidence upload: the FundingProof or               *)
(* PayoutEvidence row, and the file under EVIDENCE_STORAGE_ROOT that       *)
(* funding/storage.ts writes.  completeUpload of both services reads the   *)
(* row, writes the file, and only then opens its transaction; submitProof  *)
(* deletes expired rows in its transaction and their files after it.  The  *)
(* process may stop between any two of these steps.                        *)
(***************************************************************************)

CONSTANTS
    Proofs,    \* FundingProof rows with an attachment
    Receipts,  \* PayoutEvidence rows with an attachment
    Uploads,   \* PUT requests the API serves at once
    Faults     \* what may go wrong around a request

ASSUME RowsAssumption == Proofs \cap Receipts = {} /\ "NONE" \notin Proofs \cup Receipts
ASSUME FaultsAssumption == Faults \subseteq {"CRASH", "LOST_ACK"}

VARIABLES
    phase,    \* what TransferRequest.status allows: "FUNDING" is
              \* FUNDING_PENDING, "PAYOUT" is PAYOUT_IN_PROGRESS with its case
              \* IN_PROGRESS, "ELSEWHERE" is any other status
    row,      \* the row of each attachment; its UUID is never used again, and
              \* "RECORDED" is every status from SUBMITTED on
    expired,  \* the rows whose uploadExpiresAt has passed
    file,     \* the file under the row's object key
    upload,   \* what each PUT request has done so far
    sweep,    \* object keys of deleted rows that submitProof has yet to unlink
    cutOff    \* history: rows whose upload or sweep the process died in, until
              \* submitProof replaces them

vars == <<phase, row, expired, file, upload, sweep, cutOff>>

Rows == Proofs \cup Receipts

\* CHECKED: the row was read, the file is not yet open.
\* WRITING, WRITTEN: the file is open, then complete and closed.
\* FAILED: an error was caught and the file is to be unlinked.
Stage == {"IDLE", "CHECKED", "WRITING", "WRITTEN", "FAILED"}

\* linked: the file this upload opened is still the one under the key.
Idle == [stage |-> "IDLE", row |-> "NONE", linked |-> FALSE]

Init ==
    /\ phase \in {"FUNDING", "PAYOUT"}
    /\ row = [r \in Rows |-> "ABSENT"]
    /\ expired = {}
    /\ file = [r \in Rows |-> "NONE"]
    /\ upload = [u \in Uploads |-> Idle]
    /\ sweep = {}
    /\ cutOff = {}

At(u, stage) == upload[u].stage = stage

Enter(u, stage) == upload' = [upload EXCEPT ![u].stage = stage]

\* A mistake the properties must catch: the request ends but keeps its row.
LeaveOpen(u) == Enter(u, "IDLE")

Leave(u) == upload' = [upload EXCEPT ![u] = Idle]

\* deleteObject unlinks by path: an upload that has the file open goes on
\* writing to a file without a name.
WithoutFile(r) == [file EXCEPT ![r] = "NONE"]

Unlinked(r) ==
    [u \in Uploads |-> [upload[u] EXCEPT !.linked = @ /\ upload[u].row # r]]

-----------------------------------------------------------------------------

\* Other operations move the transfer on and back.
StatusMoves ==
    /\ phase' \in {"FUNDING", "PAYOUT", "ELSEWHERE"} \ {phase}
    /\ UNCHANGED <<row, expired, file, upload, sweep, cutOff>>

\* The clock passes uploadExpiresAt.
Expire(r) ==
    /\ row[r] = "PENDING"
    /\ r \notin expired
    /\ expired' = expired \cup {r}
    /\ UNCHANGED <<phase, row, file, upload, sweep, cutOff>>

\* The expired placeholders the transaction of submitProof deletes.
Stale == {p \in Proofs : row[p] = "PENDING" /\ p \in expired}

ProofAllowed ==
    /\ phase = "FUNDING"
    /\ \A q \in Proofs \ Stale : row[q] # "PENDING"

\* A mistake the properties must catch: the placeholders stay.
RowsWithStale == row

RowsWithoutStale == [r \in Rows |-> IF r \in Stale THEN "DELETED" ELSE row[r]]

\* submitProof without an attachment.
SubmitReference ==
    /\ ProofAllowed
    /\ row' = RowsWithoutStale
    /\ sweep' = sweep \cup Stale
    /\ cutOff' = cutOff \ Stale
    /\ phase' = "ELSEWHERE"
    /\ UNCHANGED <<expired, file, upload>>

\* A mistake the properties must catch: the replaced files are forgotten.
ReplaceRowOnly(p) ==
    /\ ProofAllowed
    /\ row[p] = "ABSENT"
    /\ row' = [RowsWithoutStale EXCEPT ![p] = "PENDING"]
    /\ cutOff' = cutOff \ Stale
    /\ UNCHANGED <<phase, expired, file, upload, sweep>>

\* submitProof with an attachment.
RequestProof(p) ==
    /\ ProofAllowed
    /\ row[p] = "ABSENT"
    /\ row' = [RowsWithoutStale EXCEPT ![p] = "PENDING"]
    /\ sweep' = sweep \cup Stale
    /\ cutOff' = cutOff \ Stale
    /\ UNCHANGED <<phase, expired, file, upload>>

\* addEvidence with an attachment; nothing ever deletes a receipt.
RequestReceipt(r) ==
    /\ phase = "PAYOUT"
    /\ row[r] = "ABSENT"
    /\ row' = [row EXCEPT ![r] = "PENDING"]
    /\ UNCHANGED <<phase, expired, file, upload, sweep, cutOff>>

\* After its commit submitProof unlinks the files of the rows it deleted.
SweepFile(r) ==
    /\ r \in sweep
    /\ file' = WithoutFile(r)
    /\ upload' = Unlinked(r)
    /\ sweep' = sweep \ {r}
    /\ UNCHANGED <<phase, row, expired, cutOff>>

-----------------------------------------------------------------------------

\* completeUpload reads the row; the URL's signature and type fit.
BeginUpload(u, r) ==
    /\ At(u, "IDLE")
    /\ row[r] = "PENDING"
    /\ r \notin expired
    /\ upload' = [upload EXCEPT ![u] = [stage |-> "CHECKED", row |-> r, linked |-> FALSE]]
    /\ UNCHANGED <<phase, row, expired, file, sweep, cutOff>>

\* A mistake the properties must catch: an existing file is opened again.
Reopen(u) ==
    /\ At(u, "CHECKED")
    /\ file' = [file EXCEPT ![upload[u].row] = "PARTIAL"]
    /\ upload' = [upload EXCEPT ![u].stage = "WRITING", ![u].linked = TRUE]
    /\ UNCHANGED <<phase, row, expired, sweep, cutOff>>

\* writeObject opens the file for exclusive creation.
OpenFile(u) ==
    /\ At(u, "CHECKED")
    /\ file[upload[u].row] = "NONE"
    /\ file' = [file EXCEPT ![upload[u].row] = "PARTIAL"]
    /\ upload' = [upload EXCEPT ![u].stage = "WRITING", ![u].linked = TRUE]
    /\ UNCHANGED <<phase, row, expired, sweep, cutOff>>

\* EEXIST: "Evidence has already been uploaded".
RefuseUpload(u) ==
    /\ At(u, "CHECKED")
    /\ file[upload[u].row] # "NONE"
    /\ Leave(u)
    /\ UNCHANGED <<phase, row, expired, file, sweep, cutOff>>

\* The last byte arrives, the size and the magic bytes fit.
FinishWrite(u) ==
    /\ At(u, "WRITING")
    /\ file' = IF upload[u].linked THEN [file EXCEPT ![upload[u].row] = "WHOLE"] ELSE file
    /\ Enter(u, "WRITTEN")
    /\ UNCHANGED <<phase, row, expired, sweep, cutOff>>

\* The stream breaks, or its size or content is not what was declared.
BreakWrite(u) ==
    /\ At(u, "WRITING")
    /\ Enter(u, "FAILED")
    /\ UNCHANGED <<phase, row, expired, file, sweep, cutOff>>

\* What the transaction of completeUpload asks of the row and the transfer.
UploadOpen(r) ==
    /\ row[r] = "PENDING"
    /\ phase = IF r \in Proofs THEN "FUNDING" ELSE "PAYOUT"

\* The transaction commits; a proof moves its transfer to FUNDING_SUBMITTED.
\* When the answer to the commit is lost, the service sees an error.
CommitUpload(u, answer) ==
    LET r == upload[u].row IN
    /\ At(u, "WRITTEN")
    /\ UploadOpen(r)
    /\ answer \in {"ACK"} \cup (Faults \cap {"LOST_ACK"})
    /\ row' = [row EXCEPT ![r] = "RECORDED"]
    /\ phase' = IF r \in Proofs THEN "ELSEWHERE" ELSE phase
    /\ IF answer = "ACK" THEN Leave(u) ELSE Enter(u, "FAILED")
    /\ UNCHANGED <<expired, file, sweep, cutOff>>

\* The transaction rolls back: the upload is closed, or the database failed.
RollBackUpload(u) ==
    /\ At(u, "WRITTEN")
    /\ Enter(u, "FAILED")
    /\ UNCHANGED <<phase, row, expired, file, sweep, cutOff>>

\* A mistake the properties must catch: the error is passed on at once.
LeaveFile(u) ==
    /\ At(u, "FAILED")
    /\ Leave(u)
    /\ UNCHANGED <<phase, row, expired, file, sweep, cutOff>>

\* The catch blocks of writeObject and completeUpload.
RemoveFile(u) ==
    /\ At(u, "FAILED")
    /\ file' = WithoutFile(upload[u].row)
    /\ upload' = [Unlinked(upload[u].row) EXCEPT ![u] = Idle]
    /\ UNCHANGED <<phase, row, expired, sweep, cutOff>>

InHand(u) == upload[u].stage \in {"WRITING", "WRITTEN", "FAILED"}

\* The process stops: rows and files stay as they are.
Crash ==
    /\ "CRASH" \in Faults
    /\ cutOff' = cutOff \cup sweep \cup {upload[u].row : u \in {v \in Uploads : InHand(v)}}
    /\ upload' = [u \in Uploads |-> Idle]
    /\ sweep' = {}
    /\ UNCHANGED <<phase, row, expired, file>>

-----------------------------------------------------------------------------

RowStep ==
    \/ StatusMoves
    \/ SubmitReference
    \/ \E p \in Proofs : RequestProof(p)
    \/ \E r \in Receipts : RequestReceipt(r)
    \/ \E r \in Rows : Expire(r) \/ SweepFile(r)

UploadStep(u) ==
    \/ \E r \in Rows : BeginUpload(u, r)
    \/ OpenFile(u)
    \/ RefuseUpload(u)
    \/ FinishWrite(u)
    \/ BreakWrite(u)
    \/ \E answer \in {"ACK", "LOST_ACK"} : CommitUpload(u, answer)
    \/ RollBackUpload(u)
    \/ RemoveFile(u)

Next == RowStep \/ (\E u \in Uploads : UploadStep(u)) \/ Crash

Spec == Init /\ [][Next]_vars

\* What the process does by itself once a file is open: the server ends every
\* request within its requestTimeout, and all else are awaited promises.
Continue(u) ==
    \/ FinishWrite(u)
    \/ BreakWrite(u)
    \/ \E answer \in {"ACK", "LOST_ACK"} : CommitUpload(u, answer)
    \/ RollBackUpload(u)
    \/ RemoveFile(u)

FairSpec ==
    /\ Spec
    /\ \A u \in Uploads : WF_vars(Continue(u))
    /\ \A r \in Rows : WF_vars(SweepFile(r))

-----------------------------------------------------------------------------

\* Rows, files and requests stay in the ranges the code gives them.
TypeOK ==
    /\ phase \in {"FUNDING", "PAYOUT", "ELSEWHERE"}
    /\ row \in [Rows -> {"ABSENT", "PENDING", "RECORDED", "DELETED"}]
    /\ expired \subseteq Rows
    /\ file \in [Rows -> {"NONE", "PARTIAL", "WHOLE"}]
    /\ upload \in [Uploads -> [stage : Stage, row : Rows \cup {"NONE"}, linked : BOOLEAN]]
    /\ \A u \in Uploads : upload[u].row = "NONE" <=> At(u, "IDLE")
    /\ sweep \subseteq Rows
    /\ cutOff \subseteq Rows

\* A row that promises evidence has its whole file, whatever uploads, retries,
\* sweeps, rollbacks and crashes surrounded its upload.
RecordedEvidenceIsWhole ==
    \A r \in Rows : row[r] = "RECORDED" => file[r] = "WHOLE"

\* A file is there for a reason: its row is recorded, an upload still has it
\* open or will remove it, or its row was deleted and it will be swept, unless
\* the process died over it.  Replacing an expired upload makes the file that
\* a crash left behind a file to be swept.
NoStrayFile ==
    \A r \in Rows \ cutOff : file[r] # "NONE" =>
        \/ row[r] = "RECORDED"
        \/ r \in sweep
        \/ \E u \in Uploads : InHand(u) /\ upload[u].row = r

\* No private document lies around for ever: a file that appears ends with its
\* row recorded or is removed, unless the process dies over it.
FilesSettle ==
    \A r \in Rows :
        file[r] # "NONE" ~> file[r] = "NONE" \/ row[r] = "RECORDED" \/ r \in cutOff

\* What becomes of a proof's row, its file aside.
ProofRow ==
    [p \in Proofs |->
        IF row[p] \in {"ABSENT", "DELETED"} THEN "ABSENT"
        ELSE IF row[p] = "RECORDED" THEN "RECORDED"
        ELSE IF p \in expired THEN "LAPSED" ELSE "PENDING"]

Submissions == INSTANCE ProofRows WITH awaited <- phase = "FUNDING", proof <- ProofRow

\* The rows of proofs move here as they do in the workflow, whatever becomes
\* of their files: one at a time is waited for, only a later submission takes
\* it away, once its link has lapsed, and what was recorded stays.
ImplementsProofRows == Submissions!Spec

\* The funding design notes: "There is no automatic deletion of submitted
\* evidence".  An error around a commit that took effect deletes it.
SubmittedEvidenceStays ==
    [][\A r \in Rows : row[r] = "RECORDED" => file'[r] = file[r]]_vars

\* An upload that finds a file is told that the evidence "has already been
\* uploaded".  After a crash it has not, nobody is uploading it, and every
\* retry is told the same.
RefusalIsTrue ==
    \A u \in Uploads : At(u, "CHECKED") /\ file[upload[u].row] # "NONE" =>
        \/ row[upload[u].row] \in {"RECORDED", "DELETED"}
        \/ \E v \in Uploads : InHand(v) /\ upload[v].row = upload[u].row
=============================================================================
