\* Two requests in flight at once over two quote versions; then, after one
\* quote, funding, payout, disputes and refunds to the end.
SPECIFICATION ScenesSpec
CONSTANTS
    Clients = {c1, c2}
    Proofs = {p1, p2}
    Disputes = {d1, d2}
    MaxQuotes = 2
    MaxTime = 2
    Validities = {1}
    UploadTtl = 1
    Desks <- MCDesks
INVARIANTS
    TypeOK
    CaseAgreesWithTransfer
    FundsRestOnVerifiedProof
    DisputeAgreesWithCase
    PaidOutOrRefunded
    AcceptanceIsFinal
    OfferIsAccepted
    SomebodyCanGoOn
    NothingElseIsAsked
PROPERTIES
    DatabaseAcceptsEveryStep
    ImplementsLifecycle
    ImplementsProofRows
SYMMETRY Symmetry
CHECK_DEADLOCK FALSE
