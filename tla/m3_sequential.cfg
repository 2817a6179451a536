\* A provider that writes only while the AS node is idle; reliable transport.
CONSTANTS
    as1 = as1
    as2 = as2
    p1 = p1
    p2 = p2
    c1 = c1
    c2 = c2
    Unknown = Unknown
    NoId = NoId
    AS <- MC_OneAS
    FirstAS = as1
    PSIds <- MC_PSIds
    CertIds <- MC_TwoCerts
    MaxVersion = 3
    MaxServerErrors = 2
    MaxPurges = 2
    Overlap = FALSE
    Lossy = FALSE
    Unreadable = {}

SPECIFICATION Spec

INVARIANT TypeOK
INVARIANT MirrorConsistentWhenQuiescent
INVARIANT CertsPrecedeChc
PROPERTY EventuallyReconciled

\* With its bounded inputs used up the AF idles waiting for requests.
CHECK_DEADLOCK FALSE
