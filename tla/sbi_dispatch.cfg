\* Two servers with any mix of backends, three streams and one free queue
\* slot, so that a push fails; a server may fail to start.
CONSTANTS
    s1 = s1  s2 = s2  t1 = t1  t2 = t2  t3 = t3
    NULL = NULL
    Servers <- MC_Servers
    Streams <- MC_Streams
    QueueCap = 1
    StartFails = TRUE
SPECIFICATION Spec
INVARIANTS TypeOK
\* The AF exits after msaf_sbi_close, or after msaf_sbi_open failed.
CHECK_DEADLOCK FALSE
