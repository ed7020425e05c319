\* A quote expires after its transfer went back to QUOTING.
SPECIFICATION Spec
CONSTANTS
    Clients = {c1}
    Proofs = {}
    Disputes = {}
    MaxQuotes = 1
    MaxTime = 1
    Validities = {1}
    UploadTtl = 1
    Desks <- MCDesks
PROPERTIES
    ObservedExpiryMovesTransfer
CHECK_DEADLOCK FALSE
