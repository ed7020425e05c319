\* The process dies over an upload, which is then retried.
SPECIFICATION Spec
CONSTANTS
    Proofs = {p1}
    Receipts = {}
    Uploads = {u1}
    Faults = {"CRASH"}
INVARIANTS
    RefusalIsTrue
CHECK_DEADLOCK FALSE
