-------------------- MODULE MC_ApplicationServerContext --------------------
(* Instantiation of ApplicationServerContext for TLC: model values for    *)
(* the application servers, provisioning sessions and certificate ids.    *)
EXTENDS ApplicationServerContext

CONSTANTS as1, as2, p1, p2, c1, c2

MC_OneAS == {as1}
MC_TwoAS == {as1, as2}
MC_PSIds == {p1, p2}
MC_OneCert == {c1}
MC_TwoCerts == {c1, c2}
MC_Unreadable == {<<p1, c1>>}
=============================================================================
