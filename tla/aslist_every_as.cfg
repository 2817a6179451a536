CONSTANTS
    as1 = as1
    as2 = as2
    as3 = as3
    h1 = h1
    h2 = h2
    p1 = p1
    p2 = p2
    NULL = NULL
    AS <- MC_AS
    Hosts <- MC_Hosts
    PSIds <- MC_PSIds

SPECIFICATION Spec

\* The AF stops after msaf_application_server_remove_all.
CHECK_DEADLOCK FALSE

INVARIANT EverySessionOnEveryAS
