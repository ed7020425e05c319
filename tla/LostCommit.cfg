\* The answer to a commit is lost.
SPECIFICATION Spec
CONSTANTS
    Proofs = {p1}
    Receipts = {}
    Uploads = {u1}
    Faults = {"LOST_ACK"}
PROPERTIES
    SubmittedEvidenceStays
CHECK_DEADLOCK FALSE
