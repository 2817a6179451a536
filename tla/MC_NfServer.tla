---------------------------- MODULE MC_NfServer ----------------------------
EXTENDS NfServer

CONSTANTS r1, r2

MC_Components == {r1, r2}
MC_Statuses == {400, 500}
=============================================================================
