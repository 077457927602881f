---------------------------- MODULE MCDSLiteBoot ----------------------------
(***************************************************************************)
(* An instance of DSLiteBoot for TLC.                                      *)
(***************************************************************************)
EXTENDS DSLiteBoot, TLC

CONSTANTS p1, p2, w1, l1, n1, s1, d1

OneAddress == l1 :> w1

\* A user changes the method or the address; DSLite.Enable in any case.
PrecAndAddr == {{"prec"}, {"addr"}}

Ioctl      == <<"mod-dslite-ioctl">>
FirewallM  == <<"mod-fw-amx">>
=============================================================================
