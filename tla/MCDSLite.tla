------------------------------ MODULE MCDSLite ------------------------------
(***************************************************************************)
(* Instances of DSLite small enough for TLC.                               *)
(***************************************************************************)
EXTENDS DSLite, TLC

CONSTANTS p1, p2, w1, w2, bad, l1, l2, n1, s1, s2, d1

OneAddress     == l1 :> w1
OneAddressEach == (l1 :> w1) @@ (l2 :> w2)

\* A user changes one parameter at a time: any, or those a run is about.
\* (DSLite.Enable is written in any case, EndpointName by DHCPv6, too.)
Single        == {{q} : q \in Params}
EnableAndPrec == {{"enable"}, {"prec"}}
OnlyEnable    == {{"enable"}}
WanAndMethod  == {{q} : q \in Params \ {"enable", "name"}}

AllButFirewall == QuirkNames \ {"firewall", "stray"}
OnlyStray      == {"stray"}
NoQuirks       == {}

\* Nothing distinguishes two allocations but who points to them.
PrivSymmetry == Permutations(PrivIds)
=============================================================================
