\* A tab logs out while the other tab's refresh is on its way.
SPECIFICATION ClientsSpec
CONSTANTS
    None = None
    p1 = p1
    Requests = {r1, r2}
    Admins = {a1, a2}
    Policies <- Inputs
    EvidenceLimit = 1
    MaxVersions = 2
    Slots = {q1, q2}
    Keys = {k1, k2}
    Contents <- Bodies
    Transfers = {t1, t2}
    Recipients = {p1}
    Addresses <- Places
    MaxActive = 1
    CreateMax = 1
    CreateWindow = 1
    MaxRecipients = 1
    Attempts = 2
    LastInstant = 2
    b1 = b1
    Tabs = {b1, b2}
    Calls = {q1, q2}
    Tab <- FirstTab
    Tokens = {t1, t2}
    NoToken = NoToken
PROPERTIES
    LogoutEndsFamily
SYMMETRY Symmetry
CHECK_DEADLOCK FALSE
