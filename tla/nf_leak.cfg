CONSTANTS
    r1 = r1
    r2 = r2
    NoMessage = NoMessage
    NULL = NULL
    Garbage = Garbage
    Components <- MC_Components
    Statuses <- MC_Statuses
    MaxComponents = 3
    AllocFails = FALSE

SPECIFICATION Spec

\* One call of nf_server_send_error ends in "done" or "aborted".
CHECK_DEADLOCK FALSE

INVARIANT NoLeakOnReturn
