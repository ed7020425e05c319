------------------------ MODULE EvidenceUploadProofs ------------------------
(***************************************************************************)
(* The rows and the files of EvidenceUpload agree for any number of        *)
(* attachments and of uploads in flight.                                   *)
(***************************************************************************)
EXTENDS EvidenceUpload, TLAPS

\* Deleting the stale placeholders records nothing and loses no record.
LEMMA StaleRows ==
    ASSUME TypeOK
    PROVE  /\ RowsWithoutStale \in [Rows -> {"ABSENT", "PENDING", "RECORDED", "DELETED"}]
           /\ Stale \subseteq Rows
           /\ \A r \in Rows : /\ RowsWithoutStale[r] = "RECORDED" <=> row[r] = "RECORDED"
                              /\ row[r] = "DELETED" => RowsWithoutStale[r] = "DELETED"
                              /\ r \in Stale => /\ row[r] = "PENDING"
                                                /\ RowsWithoutStale[r] = "DELETED"
BY DEF TypeOK, RowsWithoutStale, Stale, Rows

\* The initial state has the right types.
LEMMA InitTypes == Init => TypeOK
BY DEF Init, TypeOK, Idle, At, Stage

\* Steps on rows and sweeps keep the types.
LEMMA RowStepTypes == TypeOK /\ RowStep => TypeOK'
<1> SUFFICES ASSUME TypeOK, RowStep PROVE TypeOK'
    OBVIOUS
<1>1. CASE StatusMoves
    BY <1>1 DEF TypeOK, StatusMoves, At
<1>2. CASE SubmitReference
    BY <1>2, StaleRows DEF TypeOK, SubmitReference, At
<1>3. CASE \E p \in Proofs : RequestProof(p)
    BY <1>3, StaleRows DEF TypeOK, RequestProof, At, Rows
<1>4. CASE \E r \in Receipts : RequestReceipt(r)
    BY <1>4 DEF TypeOK, RequestReceipt, At, Rows
<1>5. CASE \E r \in Rows : Expire(r)
    BY <1>5 DEF TypeOK, Expire, At
<1>6. CASE \E r \in Rows : SweepFile(r)
  <2> PICK r \in Rows : SweepFile(r)
      BY <1>6
  <2>1. upload' \in [Uploads -> [stage : Stage, row : Rows \cup {"NONE"}, linked : BOOLEAN]]
      BY DEF TypeOK, SweepFile, Unlinked
  <2>2. \A u \in Uploads : upload'[u].stage = upload[u].stage /\ upload'[u].row = upload[u].row
      BY DEF TypeOK, SweepFile, Unlinked
  <2> QED
      BY <2>1, <2>2 DEF TypeOK, SweepFile, WithoutFile, At
<1> QED
    BY <1>1, <1>2, <1>3, <1>4, <1>5, <1>6 DEF RowStep

\* Steps of an upload keep the types.
LEMMA UploadStepTypes ==
    ASSUME TypeOK, NEW u \in Uploads, UploadStep(u)
    PROVE  TypeOK'
<1> USE DEF TypeOK, At, Enter, Leave, Idle, Stage
<1>1. CASE \E r \in Rows : BeginUpload(u, r)
  <2> PICK r \in Rows : BeginUpload(u, r)
      BY <1>1
  <2>1. r # "NONE"
      BY RowsAssumption DEF Rows
  <2> QED
      BY <2>1 DEF BeginUpload
<1>2. CASE OpenFile(u)
    BY <1>2 DEF OpenFile
<1>3. CASE RefuseUpload(u)
    BY <1>3 DEF RefuseUpload
<1>4. CASE FinishWrite(u)
    BY <1>4 DEF FinishWrite
<1>5. CASE BreakWrite(u)
    BY <1>5 DEF BreakWrite
<1>6. CASE \E answer \in {"ACK", "LOST_ACK"} : CommitUpload(u, answer)
  <2> PICK answer \in {"ACK", "LOST_ACK"} : CommitUpload(u, answer)
      BY <1>6
  <2>1. upload[u].row \in Rows
      BY DEF CommitUpload
  <2>2. /\ row' = [row EXCEPT ![upload[u].row] = "RECORDED"]
        /\ UNCHANGED <<expired, file, sweep, cutOff>>
        /\ phase' \in {"FUNDING", "PAYOUT", "ELSEWHERE"}
      BY DEF CommitUpload
  <2>3. CASE Leave(u)
      BY <2>1, <2>2, <2>3
  <2>4. CASE Enter(u, "FAILED") /\ upload[u].stage = "WRITTEN"
      BY <2>1, <2>2, <2>4
  <2> QED
      BY <2>3, <2>4 DEF CommitUpload
<1>7. CASE RollBackUpload(u)
    BY <1>7 DEF RollBackUpload
<1>8. CASE RemoveFile(u)
  <2>1. \A v \in Uploads \ {u} : /\ upload'[v].stage = upload[v].stage
                                 /\ upload'[v].row = upload[v].row
      BY <1>8 DEF RemoveFile, Unlinked
  <2>2. upload'[u] = Idle
      BY <1>8 DEF RemoveFile, Unlinked
  <2>3. upload' \in [Uploads -> [stage : Stage, row : Rows \cup {"NONE"}, linked : BOOLEAN]]
      BY <1>8 DEF RemoveFile, Unlinked
  <2> QED
      BY <1>8, <2>1, <2>2, <2>3 DEF RemoveFile, WithoutFile
<1> QED
    BY <1>1, <1>2, <1>3, <1>4, <1>5, <1>6, <1>7, <1>8 DEF UploadStep

\* A crash keeps the types.
LEMMA CrashTypes == TypeOK /\ Crash => TypeOK'
<1> SUFFICES ASSUME TypeOK, Crash PROVE TypeOK'
    OBVIOUS
<1>1. {upload[u].row : u \in {v \in Uploads : InHand(v)}} \subseteq Rows
    BY DEF TypeOK, InHand, At
<1> QED
    BY <1>1 DEF TypeOK, Crash, Idle, Stage, At

\* Rows, files and requests stay in their ranges, for any set of attachments
\* and of uploads served at once.
THEOREM UploadTypeCorrect == Spec => []TypeOK
<1>1. TypeOK /\ [Next]_vars => TypeOK'
  <2> SUFFICES ASSUME TypeOK, [Next]_vars PROVE TypeOK'
      OBVIOUS
  <2>1. CASE UNCHANGED vars
      BY <2>1 DEF TypeOK, vars, At
  <2> QED
      BY <2>1, RowStepTypes, UploadStepTypes, CrashTypes DEF Next
<1> QED
    BY <1>1, InitTypes, PTL DEF Spec

-----------------------------------------------------------------------------

Dangling(u) == InHand(u) /\ ~upload[u].linked

\* Why a recorded row has its file.  An upload in hand either holds the file
\* under the key, as far as it has written it, or has lost it to the deletion
\* of its row; no two uploads hold one file; and the row of an upload in hand
\* is not recorded, as long as the answer to a commit tells what it did.
LinksAgree ==
    /\ \A u \in Uploads : upload[u].linked =>
          /\ InHand(u)
          /\ file[upload[u].row] # "NONE"
          /\ At(u, "WRITING") => file[upload[u].row] = "PARTIAL"
          /\ At(u, "WRITTEN") => file[upload[u].row] = "WHOLE"
    /\ \A u \in Uploads : Dangling(u) => row[upload[u].row] = "DELETED"
    /\ \A u, v \in Uploads :
          upload[u].linked /\ upload[v].linked /\ upload[u].row = upload[v].row => u = v
    /\ \A u \in Uploads : InHand(u) => row[upload[u].row] # "RECORDED"
    /\ \A r \in sweep : row[r] = "DELETED"

UploadInv == LinksAgree /\ RecordedEvidenceIsWhole

\* Steps on rows and sweeps keep rows and files in agreement.
LEMMA RowStepLinks == TypeOK /\ UploadInv /\ RowStep => UploadInv'
<1> SUFFICES ASSUME TypeOK, UploadInv, RowStep PROVE UploadInv'
    OBVIOUS
<1> USE DEF UploadInv, LinksAgree, RecordedEvidenceIsWhole, InHand, Dangling, At
<1>1. CASE StatusMoves
    BY <1>1 DEF StatusMoves
<1>2. CASE SubmitReference \/ \E p \in Proofs : RequestProof(p)
  <2>1. /\ \A r \in Rows : /\ row'[r] = "RECORDED" <=> row[r] = "RECORDED"
                           /\ row[r] = "DELETED" => row'[r] = "DELETED"
        /\ \A r \in sweep' : row'[r] = "DELETED"
    <3>1. CASE SubmitReference
        BY <3>1, StaleRows DEF TypeOK, SubmitReference
    <3>2. CASE \E p \in Proofs : RequestProof(p)
        BY <3>2, StaleRows DEF TypeOK, RequestProof, Rows
    <3> QED
        BY <1>2, <3>1, <3>2
  <2>2. UNCHANGED <<file, upload>>
      BY <1>2 DEF SubmitReference, RequestProof
  <2>3. \A u \in Uploads : InHand(u) => upload[u].row \in Rows
      BY DEF TypeOK
  <2> QED
      BY <2>1, <2>2, <2>3 DEF TypeOK
<1>3. CASE \E r \in Receipts : RequestReceipt(r)
    BY <1>3 DEF RequestReceipt, TypeOK, Rows
<1>4. CASE \E r \in Rows : Expire(r)
    BY <1>4 DEF Expire
<1>5. CASE \E r \in Rows : SweepFile(r)
  <2> PICK r \in Rows : SweepFile(r)
      BY <1>5
  <2>1. \A u \in Uploads :
           /\ upload'[u].stage = upload[u].stage
           /\ upload'[u].row = upload[u].row
           /\ upload'[u].linked = (upload[u].linked /\ upload[u].row # r)
      BY DEF TypeOK, SweepFile, Unlinked
  <2>2. /\ row[r] = "DELETED"
        /\ row' = row
        /\ sweep' \subseteq sweep
        /\ \A q \in Rows : file'[q] = IF q = r THEN "NONE" ELSE file[q]
      BY DEF TypeOK, SweepFile, WithoutFile
  <2>3. \A u \in Uploads : InHand(u) => upload[u].row \in Rows
      BY DEF TypeOK
  <2>4. \A u \in Uploads : upload'[u].linked => upload[u].linked /\ upload[u].row # r
      BY <2>1
  <2>5. \A u \in Uploads : upload[u].linked /\ upload[u].row # r => upload'[u].linked
      BY <2>1
  <2>6. \A u \in Uploads : Dangling(u)' => row'[upload'[u].row] = "DELETED"
      BY <2>1, <2>2, <2>5
  <2>7. \A u \in Uploads : upload'[u].linked =>
           /\ InHand(u)'
           /\ file'[upload'[u].row] = file[upload[u].row]
           /\ upload'[u].stage = upload[u].stage
      BY <2>1, <2>2, <2>3, <2>4
  <2> QED
      BY <2>1, <2>2, <2>4, <2>6, <2>7
<1> QED
    BY <1>1, <1>2, <1>3, <1>4, <1>5 DEF RowStep

\* Steps of an upload keep rows and files in agreement.
LEMMA UploadStepLinks ==
    ASSUME "LOST_ACK" \notin Faults, TypeOK, UploadInv, NEW u \in Uploads, UploadStep(u)
    PROVE  UploadInv'
<1> USE DEF UploadInv, LinksAgree, RecordedEvidenceIsWhole, InHand, Dangling, At
<1>1. CASE \E r \in Rows : BeginUpload(u, r)
    BY <1>1 DEF BeginUpload, TypeOK
<1>2. CASE OpenFile(u)
  <2> DEFINE r == upload[u].row
  <2>1. /\ r \in Rows
        /\ file' = [file EXCEPT ![r] = "PARTIAL"]
        /\ UNCHANGED <<row, sweep>>
        /\ \A v \in Uploads : /\ upload'[v].row = upload[v].row
                              /\ v # u => upload'[v] = upload[v]
        /\ upload'[u].stage = "WRITING"
        /\ upload'[u].linked
      BY <1>2 DEF OpenFile, TypeOK
  <2>2. \A v \in Uploads : upload[v].linked => upload[v].row # r
      BY <1>2 DEF OpenFile
  <2>3. row[r] # "RECORDED"
      BY <1>2, <2>1 DEF OpenFile
  <2>4. \A v \in Uploads : InHand(v) => upload[v].row \in Rows
      BY DEF TypeOK
  <2> QED
      BY <2>1, <2>2, <2>3, <2>4 DEF TypeOK
<1>3. CASE RefuseUpload(u)
    BY <1>3 DEF RefuseUpload, TypeOK, Leave, Idle
<1>4. CASE FinishWrite(u)
  <2>1. /\ UNCHANGED <<row, sweep>>
        /\ \A v \in Uploads : /\ upload'[v].row = upload[v].row
                              /\ upload'[v].linked = upload[v].linked
                              /\ v # u => upload'[v] = upload[v]
        /\ upload'[u].stage = "WRITTEN"
      BY <1>4 DEF FinishWrite, Enter, TypeOK
  <2>2. upload[u].row \in Rows
      BY <1>4 DEF FinishWrite, TypeOK
  <2>3. CASE upload[u].linked
    <3>1. file' = [file EXCEPT ![upload[u].row] = "WHOLE"]
        BY <1>4, <2>3 DEF FinishWrite
    <3> QED
        BY <1>4, <2>1, <2>2, <2>3, <3>1 DEF FinishWrite, TypeOK
  <2>4. CASE ~upload[u].linked
    <3>1. file' = file
        BY <1>4, <2>4 DEF FinishWrite
    <3> QED
        BY <1>4, <2>1, <2>4, <3>1 DEF FinishWrite
  <2> QED
      BY <2>3, <2>4
<1>5. CASE BreakWrite(u) \/ RollBackUpload(u)
    BY <1>5 DEF BreakWrite, RollBackUpload, Enter, TypeOK
<1>6. CASE \E answer \in {"ACK", "LOST_ACK"} : CommitUpload(u, answer)
  <2> PICK answer \in {"ACK", "LOST_ACK"} : CommitUpload(u, answer)
      BY <1>6
  <2> DEFINE r == upload[u].row
  <2>1. /\ At(u, "WRITTEN") /\ r \in Rows /\ row[r] = "PENDING"
        /\ row' = [row EXCEPT ![r] = "RECORDED"]
        /\ upload' = [upload EXCEPT ![u] = Idle]
        /\ UNCHANGED <<file, sweep>>
      BY DEF CommitUpload, UploadOpen, Leave, TypeOK
  <2>2. upload[u].linked /\ file[r] = "WHOLE"
      BY <2>1 DEF TypeOK
  <2>3. \A v \in Uploads : InHand(v) /\ upload[v].row = r => v = u
      BY <2>1, <2>2 DEF TypeOK
  <2> QED
      BY <2>1, <2>2, <2>3 DEF TypeOK, Idle
<1>7. CASE RemoveFile(u)
  <2> DEFINE r == upload[u].row
  <2>1. /\ upload'[u] = Idle
        /\ UNCHANGED <<row, sweep>>
        /\ \A v \in Uploads \ {u} :
              /\ upload'[v].stage = upload[v].stage
              /\ upload'[v].row = upload[v].row
              /\ upload'[v].linked <=> upload[v].linked /\ upload[v].row # r
        /\ \A q \in Rows : file'[q] = IF q = r THEN "NONE" ELSE file[q]
      BY <1>7 DEF RemoveFile, Unlinked, WithoutFile, TypeOK
  <2>2. /\ InHand(u) /\ r \in Rows /\ row[r] # "RECORDED"
        /\ \A v \in Uploads \ {u} : upload[v].linked /\ upload[v].row = r => row[r] = "DELETED"
      BY <1>7 DEF RemoveFile, TypeOK
  <2>3. \A v \in Uploads : InHand(v) => upload[v].row \in Rows
      BY DEF TypeOK
  <2> QED
      BY <2>1, <2>2, <2>3 DEF Idle
<1> QED
    BY <1>1, <1>2, <1>3, <1>4, <1>5, <1>6, <1>7 DEF UploadStep

\* A recorded row has its whole file, for any number of uploads, retries,
\* sweeps and crashes, unless the answer to a commit is lost.
THEOREM EvidenceCorrect ==
    ASSUME "LOST_ACK" \notin Faults
    PROVE  Spec => []RecordedEvidenceIsWhole
<1>1. Init => UploadInv
    BY DEF Init, UploadInv, LinksAgree, RecordedEvidenceIsWhole, InHand, Dangling, At, Idle
<1>2. TypeOK /\ UploadInv /\ [Next]_vars => UploadInv'
  <2> SUFFICES ASSUME TypeOK, UploadInv, [Next]_vars PROVE UploadInv'
      OBVIOUS
  <2>1. CASE Crash
      BY <2>1 DEF Crash, UploadInv, LinksAgree, RecordedEvidenceIsWhole, InHand, Dangling,
                  At, Idle
  <2>2. CASE UNCHANGED vars
      BY <2>2 DEF vars, UploadInv, LinksAgree, RecordedEvidenceIsWhole, InHand, Dangling, At
  <2> QED
      BY <2>1, <2>2, RowStepLinks, UploadStepLinks DEF Next
<1> QED
    BY <1>1, <1>2, UploadTypeCorrect, PTL DEF Spec, UploadInv

-----------------------------------------------------------------------------

\* A step of an upload leaves no file without a reason.
LEMMA UploadStepFiles ==
    ASSUME TypeOK, NoStrayFile, NEW u \in Uploads, UploadStep(u)
    PROVE  NoStrayFile'
<1> USE DEF NoStrayFile, InHand, At
<1>1. CASE \E r \in Rows : BeginUpload(u, r)
    BY <1>1 DEF BeginUpload, TypeOK
<1>2. CASE OpenFile(u)
    BY <1>2 DEF OpenFile, TypeOK
<1>3. CASE RefuseUpload(u)
    BY <1>3 DEF RefuseUpload, Leave, TypeOK
<1>4. CASE FinishWrite(u)
    BY <1>4 DEF FinishWrite, Enter, TypeOK
<1>5. CASE BreakWrite(u) \/ RollBackUpload(u)
    BY <1>5 DEF BreakWrite, RollBackUpload, Enter, TypeOK
<1>6. CASE \E answer \in {"ACK", "LOST_ACK"} : CommitUpload(u, answer)
  <2> PICK answer \in {"ACK", "LOST_ACK"} : CommitUpload(u, answer)
      BY <1>6
  <2>1. /\ \A r \in Rows : row'[r] = IF r = upload[u].row THEN "RECORDED" ELSE row[r]
        /\ \A v \in Uploads \ {u} : upload'[v] = upload[v]
        /\ UNCHANGED <<file, sweep, cutOff>>
      BY DEF CommitUpload, Leave, Enter, TypeOK
  <2> QED
      BY <2>1
<1>7. CASE RemoveFile(u)
  <2>1. /\ UNCHANGED <<row, sweep, cutOff>>
        /\ \A v \in Uploads \ {u} : /\ upload'[v].stage = upload[v].stage
                                    /\ upload'[v].row = upload[v].row
        /\ \A r \in Rows : file'[r] = IF r = upload[u].row THEN "NONE" ELSE file[r]
      BY <1>7 DEF RemoveFile, Unlinked, WithoutFile, TypeOK
  <2> QED
      BY <2>1
<1> QED
    BY <1>1, <1>2, <1>3, <1>4, <1>5, <1>6, <1>7 DEF UploadStep

\* Every file has its reason: a recorded row, a sweep or an upload that will
\* remove it, or a crash over it; whatever else fails.
THEOREM FilesAccountedFor == Spec => []NoStrayFile
<1>1. Init => NoStrayFile
    BY DEF Init, NoStrayFile
<1>2. TypeOK /\ NoStrayFile /\ [Next]_vars => NoStrayFile'
  <2> SUFFICES ASSUME TypeOK, NoStrayFile, [Next]_vars PROVE NoStrayFile'
      OBVIOUS
  <2> USE DEF NoStrayFile, InHand
  <2>1. CASE SubmitReference \/ \E p \in Proofs : RequestProof(p)
    <3>1. \A r \in Rows : row[r] = "RECORDED" => row'[r] = "RECORDED"
      <4>1. CASE SubmitReference
          BY <4>1, StaleRows DEF SubmitReference
      <4>2. CASE \E p \in Proofs : RequestProof(p)
          BY <4>2, StaleRows DEF TypeOK, RequestProof, Rows
      <4> QED
          BY <2>1, <4>1, <4>2
    <3>2. /\ UNCHANGED <<file, upload>>
          /\ sweep' = sweep \cup Stale
          /\ cutOff' = cutOff \ Stale
        BY <2>1 DEF SubmitReference, RequestProof
    <3> QED
        BY <3>1, <3>2
  <2>2. CASE \E r \in Receipts : RequestReceipt(r)
      BY <2>2 DEF RequestReceipt, TypeOK
  <2>3. CASE \E r \in Rows : SweepFile(r)
    <3> PICK r \in Rows : SweepFile(r)
        BY <2>3
    <3>1. /\ UNCHANGED <<row, cutOff>> /\ sweep' = sweep \ {r}
          /\ \A v \in Uploads : upload'[v].stage = upload[v].stage /\ upload'[v].row = upload[v].row
          /\ \A q \in Rows : file'[q] = IF q = r THEN "NONE" ELSE file[q]
        BY DEF SweepFile, Unlinked, WithoutFile, TypeOK
    <3> QED
        BY <3>1
  <2>4. CASE Crash
      BY <2>4 DEF Crash
  <2>5. CASE StatusMoves \/ (\E r \in Rows : Expire(r)) \/ UNCHANGED vars
      BY <2>5 DEF StatusMoves, Expire, vars
  <2> QED
      BY <2>1, <2>2, <2>3, <2>4, <2>5, UploadStepFiles DEF Next, RowStep
<1> QED
    BY <1>1, <1>2, UploadTypeCorrect, PTL DEF Spec

-----------------------------------------------------------------------------
(* The rows of proofs *)

\* A link lapses only once there is a row.
NothingLapsesBefore == \A r \in Rows : row[r] = "ABSENT" => r \notin expired

\* No row goes back to being absent, and only the ones waited for expire.
LEMMA StepKeepsLapses ==
    ASSUME TypeOK, NothingLapsesBefore, [Next]_vars
    PROVE  NothingLapsesBefore'
<1> USE DEF NothingLapsesBefore
<1>1. CASE SubmitReference \/ \E p \in Proofs : RequestProof(p)
  <2>1. \A r \in Rows : row'[r] = "ABSENT" => row[r] = "ABSENT"
    <3>1. \A r \in Rows : RowsWithoutStale[r] = "ABSENT" => row[r] = "ABSENT"
        BY DEF RowsWithoutStale
    <3> QED
        BY <1>1, <3>1, StaleRows DEF SubmitReference, RequestProof, TypeOK
  <2> QED
      BY <1>1, <2>1 DEF SubmitReference, RequestProof
<1>2. CASE (\E r \in Receipts : RequestReceipt(r)) \/ (\E r \in Rows : Expire(r))
    BY <1>2 DEF RequestReceipt, Expire, TypeOK
<1>3. CASE \E u \in Uploads, answer \in {"ACK", "LOST_ACK"} : CommitUpload(u, answer)
    BY <1>3 DEF CommitUpload, TypeOK
<1>4. CASE UNCHANGED <<row, expired>>
    BY <1>4
<1> QED
    BY <1>1, <1>2, <1>3, <1>4
    DEF Next, RowStep, UploadStep, StatusMoves, SweepFile, BeginUpload, OpenFile, RefuseUpload,
        FinishWrite, BreakWrite, RollBackUpload, RemoveFile, Crash, vars

\* What submitProof leaves of the rows.
LEMMA RowsAfterSubmission ==
    ASSUME TypeOK, ProofAllowed
    PROVE  /\ Submissions!MaySubmit
           /\ \A p \in Proofs :
                /\ p \in Stale => ProofRow[p] = "LAPSED"
                /\ p \notin Stale => /\ ProofRow[p] # "LAPSED"
                                     /\ RowsWithoutStale[p] = row[p]
<1>1. \A p \in Proofs \ Stale : row[p] # "PENDING"
    BY DEF ProofAllowed
<1> QED
    BY <1>1, StaleRows DEF ProofAllowed, Submissions!MaySubmit, ProofRow, Stale, RowsWithoutStale, Rows

\* A submission takes the lapsed rows away, with or without a new one.
LEMMA SubmissionMovesRows ==
    ASSUME TypeOK, NothingLapsesBefore, SubmitReference \/ \E p \in Proofs : RequestProof(p)
    PROVE  Submissions!Next
<1>1. ProofAllowed /\ UNCHANGED expired
    BY DEF SubmitReference, RequestProof
<1>2. CASE SubmitReference
  <2>1. \A p \in Proofs : ProofRow'[p] = IF ProofRow[p] = "LAPSED" THEN "ABSENT" ELSE ProofRow[p]
      BY <1>1, <1>2, RowsAfterSubmission, StaleRows DEF SubmitReference, ProofRow, Rows
  <2>2. ProofRow' = Submissions!WithoutLapsed
      BY <2>1 DEF Submissions!WithoutLapsed, ProofRow
  <2> QED
      BY <1>1, <1>2, <2>2, RowsAfterSubmission DEF SubmitReference, Submissions!Next, Submissions!Submit
<1>3. CASE \E p \in Proofs : RequestProof(p)
  <2>1. PICK p \in Proofs : RequestProof(p)
      BY <1>3
  <2>2. ProofRow[p] = "ABSENT" /\ p \notin expired /\ p \in Rows
      BY <2>1 DEF RequestProof, ProofRow, NothingLapsesBefore, Rows
  <2>3. row'[p] = "PENDING" /\ \A q \in Proofs \ {p} : row'[q] = RowsWithoutStale[q]
      BY <2>1, <2>2, StaleRows DEF RequestProof, Rows
  <2>4. ProofRow'[p] = "PENDING"
      BY <1>1, <2>2, <2>3 DEF ProofRow
  <2>5. \A q \in Proofs \ {p} :
          ProofRow'[q] = IF ProofRow[q] = "LAPSED" THEN "ABSENT" ELSE ProofRow[q]
      BY <1>1, <2>3, RowsAfterSubmission, StaleRows DEF ProofRow, Rows
  <2>6. ProofRow' = [Submissions!WithoutLapsed EXCEPT ![p] = "PENDING"]
      BY <2>2, <2>4, <2>5 DEF Submissions!WithoutLapsed, ProofRow
  <2> QED
      BY <1>1, <2>1, <2>2, <2>6, RowsAfterSubmission
      DEF RequestProof, Submissions!Next, Submissions!Announce
<1> QED
    BY <1>2, <1>3

\* A file that arrived records its row; a receipt's is none of these rows.
LEMMA CommitMovesRows ==
    ASSUME TypeOK, NEW u \in Uploads, NEW answer \in {"ACK", "LOST_ACK"}, CommitUpload(u, answer)
    PROVE  Submissions!Next
<1> DEFINE r == upload[u].row
<1>1. /\ r \in Rows /\ row[r] = "PENDING"
      /\ row' = [row EXCEPT ![r] = "RECORDED"]
      /\ UNCHANGED expired
      /\ r \in Proofs => phase = "FUNDING" /\ phase' = "ELSEWHERE"
      /\ r \notin Proofs => UNCHANGED phase
    BY DEF CommitUpload, UploadOpen, At, Stage, TypeOK
<1> HIDE DEF r
<1>2. \A p \in Proofs : ProofRow'[p] = IF p = r THEN "RECORDED" ELSE ProofRow[p]
    BY <1>1 DEF ProofRow, TypeOK, Rows
<1>3. CASE r \in Proofs
  <2>1. ProofRow[r] \in {"PENDING", "LAPSED"}
      BY <1>1, <1>3 DEF ProofRow
  <2>2. ProofRow' = [ProofRow EXCEPT ![r] = "RECORDED"]
      BY <1>2 DEF ProofRow
  <2> QED
      BY <1>1, <1>3, <2>1, <2>2 DEF Submissions!Next, Submissions!Record
<1>4. CASE r \notin Proofs
  <2>1. ProofRow' = ProofRow
      BY <1>2, <1>4 DEF ProofRow
  <2> QED
      BY <1>1, <2>1 DEF Submissions!Next, Submissions!Move
<1> QED
    BY <1>3, <1>4

\* Whatever becomes of the files, the rows of proofs move as the ones of the
\* workflow do: one at a time is waited for, only a later submission takes it
\* away, and what was recorded stays.
THEOREM UploadRowsCorrect == Spec => ImplementsProofRows
<1>1. Init => TypeOK /\ NothingLapsesBefore /\ Submissions!Init
    BY InitTypes DEF Init, NothingLapsesBefore, Submissions!Init, ProofRow, Rows
<1>2. TypeOK /\ NothingLapsesBefore /\ [Next]_vars
        => NothingLapsesBefore' /\ [Submissions!Next]_(Submissions!vars)
  <2> SUFFICES ASSUME TypeOK, NothingLapsesBefore, [Next]_vars
               PROVE  Submissions!Next
      BY StepKeepsLapses
  <2>1. CASE UNCHANGED <<row, expired>>
      BY <2>1 DEF Submissions!Next, Submissions!Move, ProofRow
  <2>2. CASE SubmitReference \/ \E p \in Proofs : RequestProof(p)
      BY <2>2, SubmissionMovesRows
  <2>3. CASE \E r \in Receipts : RequestReceipt(r)
    <3>1. \A p \in Proofs : row'[p] = row[p]
        BY <2>3, RowsAssumption DEF RequestReceipt, TypeOK, Rows
    <3>2. ProofRow' = ProofRow
        BY <2>3, <3>1 DEF RequestReceipt, ProofRow
    <3> QED
        BY <3>2 DEF Submissions!Next, Submissions!Move
  <2>4. CASE \E r \in Rows : Expire(r)
    <3>1. PICK r \in Rows : Expire(r)
        BY <2>4
    <3> DEFINE late == {p \in {r} \cap Proofs : ProofRow[p] = "PENDING"}
    <3>2. \A p \in Proofs : ProofRow'[p] = IF p \in late THEN "LAPSED" ELSE ProofRow[p]
        BY <3>1 DEF Expire, ProofRow
    <3>3. ProofRow' = [p \in Proofs |-> IF p \in late THEN "LAPSED" ELSE ProofRow[p]]
        BY <3>2 DEF ProofRow
    <3> QED
        BY <3>1, <3>3 DEF Expire, Submissions!Next, Submissions!Lapse
  <2>5. CASE \E u \in Uploads, answer \in {"ACK", "LOST_ACK"} : CommitUpload(u, answer)
      BY <2>5, CommitMovesRows
  <2> QED
      BY <2>1, <2>2, <2>3, <2>4, <2>5
      DEF Next, RowStep, UploadStep, StatusMoves, SweepFile, BeginUpload, OpenFile, RefuseUpload,
          FinishWrite, BreakWrite, RollBackUpload, RemoveFile, Crash, vars
<1> QED
    BY <1>1, <1>2, UploadTypeCorrect, PTL DEF Spec, ImplementsProofRows, Submissions!Spec
=============================================================================
