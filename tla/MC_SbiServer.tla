---------------------------- MODULE MC_SbiServer ----------------------------
EXTENDS SbiServer

CONSTANTS s1, s2, t1, t2, t3

MC_Servers == {s1, s2}
MC_Streams == {t1, t2, t3}
=============================================================================
