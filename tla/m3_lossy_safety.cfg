\* A sequential provider over a transport that can fail; two certificates.
CONSTANTS
    as1 = as1
    as2 = as2
    p1 = p1
    p2 = p2
    c1 = c1
    c2 = c2
    Unknown = Unknown
    NoId = NoId
    AS <- MC_OneAS
    FirstAS = as1
    PSIds <- MC_PSIds
    CertIds <- MC_TwoCerts
    MaxVersion = 2
    MaxServerErrors = 1
    MaxPurges = 1
    Overlap = FALSE
    Lossy = TRUE
    Unreadable = {}

SPECIFICATION Spec

INVARIANT CertsPrecedeChc

\* With its bounded inputs used up the AF idles waiting for requests.
CHECK_DEADLOCK FALSE
