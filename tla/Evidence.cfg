\* Two placeholders of a sender and one receipt of staff, two uploads at once,
\* crashes anywhere, with the running process making progress.
SPECIFICATION FairSpec
CONSTANTS
    Proofs = {p1, p2}
    Receipts = {r1}
    Uploads = {u1, u2}
    Faults = {"CRASH"}
INVARIANTS
    TypeOK
    RecordedEvidenceIsWhole
    NoStrayFile
PROPERTIES
    FilesSettle
    ImplementsProofRows
CHECK_DEADLOCK FALSE
