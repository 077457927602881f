----------------------------- MODULE MCDnsQuery -----------------------------
(***************************************************************************)
(* An instance of DnsQuery for TLC: two queries and three sockets.         *)
(***************************************************************************)
EXTENDS DnsQuery

CONSTANTS q1, q2, f1, f2, f3
=============================================================================
