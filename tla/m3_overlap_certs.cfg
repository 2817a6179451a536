\* A provider that deletes a session while its CHC upload is still out.
CONSTANTS
    as1 = as1
    as2 = as2
    p1 = p1
    p2 = p2
    c1 = c1
    c2 = c2
    Unknown = Unknown
    NoId = NoId
    AS <- MC_OneAS
    FirstAS = as1
    PSIds <- MC_PSIds
    CertIds <- MC_OneCert
    MaxVersion = 2
    MaxServerErrors = 1
    MaxPurges = 1
    Overlap = TRUE
    Lossy = FALSE
    Unreadable = {}

SPECIFICATION Spec

INVARIANT CertsPrecedeChc

\* With its bounded inputs used up the AF idles waiting for requests.
CHECK_DEADLOCK FALSE
