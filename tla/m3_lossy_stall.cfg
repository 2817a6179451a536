\* A sequential provider over a transport that can fail.
CONSTANTS
    as1 = as1
    as2 = as2
    p1 = p1
    p2 = p2
    c1 = c1
    c2 = c2
    Unknown = Unknown
    NoId = NoId
    AS <- MC_OneAS
    FirstAS = as1
    PSIds <- MC_PSIds
    CertIds <- MC_OneCert
    MaxVersion = 2
    MaxServerErrors = 1
    MaxPurges = 1
    Overlap = FALSE
    Lossy = TRUE
    Unreadable = {}

SPECIFICATION Spec

PROPERTY EventuallyReconciled

\* A dropped reply leaves the node with nothing to wake it up.
CHECK_DEADLOCK FALSE
