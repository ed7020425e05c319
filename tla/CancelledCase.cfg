\* A sender cancels a transfer whose payout is on hold.
SPECIFICATION Spec
CONSTANTS
    Clients = {c1}
    Proofs = {p1}
    Disputes = {}
    MaxQuotes = 1
    MaxTime = 1
    Validities = {1}
    UploadTtl = 1
    Desks <- MCDesks
INVARIANTS
    CancelledCaseIsClosed
CHECK_DEADLOCK FALSE
