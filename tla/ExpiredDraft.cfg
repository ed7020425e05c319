\* A draft outlives its expiry before it is sent.
SPECIFICATION Spec
CONSTANTS
    Clients = {c1}
    Proofs = {}
    Disputes = {}
    MaxQuotes = 1
    MaxTime = 1
    Validities = {1}
    UploadTtl = 1
    Desks <- MCDesks
INVARIANTS
    QuotingCanContinue
CHECK_DEADLOCK FALSE
