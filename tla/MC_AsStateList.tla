--------------------------- MODULE MC_AsStateList ---------------------------
EXTENDS AsStateList

CONSTANTS as1, as2, as3, h1, h2, p1, p2

MC_AS == {as1, as2, as3}
MC_Hosts == {h1, h2}
MC_PSIds == {p1, p2}
=============================================================================
