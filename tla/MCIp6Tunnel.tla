----------------------------- MODULE MCIp6Tunnel -----------------------------
(***************************************************************************)
(* An instance of Ip6Tunnel for TLC: two WAN interfaces, whose net devices *)
(* come and go until the interface indexes are used up.                    *)
(***************************************************************************)
EXTENDS Ip6Tunnel, TLC

CONSTANTS w1, w2, l1, l2, r1, r2, bad

OneAddressEach == (l1 :> w1) @@ (l2 :> w2)
=============================================================================
