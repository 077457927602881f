------------------------- MODULE TunnelCall_proofs --------------------------
(***************************************************************************)
(* What ties DSLite to the tunnel controller module: its operators         *)
(* UpdateTunnel and DeleteTunnel are the calls of TunnelService, which     *)
(* Ip6Tunnel implements.                                                   *)
(***************************************************************************)
EXTENDS DSLite_proofs

\* The arguments of a call, from the private data of an instance.
Arguments(s, i, fn) ==
    [fn |-> fn, local |-> s.heap[s.ptr[i]].local, remote |-> s.heap[s.ptr[i]].remote]

Service == INSTANCE TunnelService
             WITH request <- None, rv <- 0, Requests <- {}, Addresses <- Remotes \ BadAddrs

\* The module is called for an instance with private data and a net device.
Callable(s, i) ==
    s.ptr[i] # None /\ ~Dangling(s, i) /\ s.heap[s.ptr[i]].local # None

\* What a call leaves of the plug-in's own state.
OnlyTunnel(s, t) == t = [s EXCEPT !.tunnel = t.tunnel, !.rv = t.rv]

\* update_dslite_tunnel: every outcome DSLite gives a call is one the module
\* may have, and DSLite leaves none out where the module may fail at all.
THEOREM UpdateAsServed ==
    ASSUME NEW s \in States, NEW i \in Ifs, Callable(s, i)
    PROVE  LET served == Service!Outcomes(s.tunnel, Arguments(s, i, "add_or_modify_tunnel"))
           IN  /\ \A t \in UpdateTunnel(s, i) :
                     OnlyTunnel(s, t) /\ <<t.tunnel, t.rv>> \in served
               /\ {"tunnel", "ifup"} \subseteq Quirks =>
                     \A o \in served :
                        \E t \in UpdateTunnel(s, i) : <<t.tunnel, t.rv>> = o
  <1> DEFINE p == s.heap[s.ptr[i]]
             r == Arguments(s, i, "add_or_modify_tunnel")
             wasUp == s.tunnel # None /\ s.tunnel.up
             none == Return(s, -1)
             changed == Return([s EXCEPT !.tunnel = TunnelOf(p, wasUp)], -1)
             done == Return([s EXCEPT !.tunnel = TunnelOf(p, TRUE)], 0)
             served == Service!Outcomes(s.tunnel, r)
  <1>1. TunnelOf(p, wasUp) = Service!Between(r, wasUp)
        /\ TunnelOf(p, TRUE) = Service!Between(r, TRUE)
    BY DEF TunnelOf, Service!Between, Arguments
  <1>2. Service!IsUp(s.tunnel) = wasUp BY DEF Service!IsUp
  <1>3. r.fn # "delete_tunnel" /\ r.remote = p.remote BY DEF Arguments
  <1>4. /\ none.tunnel = s.tunnel /\ none.rv = -1 /\ OnlyTunnel(s, none)
        /\ changed.tunnel = Service!Between(r, wasUp) /\ changed.rv = -1
        /\ OnlyTunnel(s, changed)
        /\ done.tunnel = Service!Between(r, TRUE) /\ done.rv = 0 /\ OnlyTunnel(s, done)
    <2>1. none.tunnel = s.tunnel /\ none.rv = -1 /\ OnlyTunnel(s, none)
      BY DEF States, Return, OnlyTunnel
    <2>2. /\ changed.tunnel = TunnelOf(p, wasUp) /\ changed.rv = -1
          /\ OnlyTunnel(s, changed)
      BY DEF States, Return, OnlyTunnel
    <2>3. done.tunnel = TunnelOf(p, TRUE) /\ done.rv = 0 /\ OnlyTunnel(s, done)
      BY DEF States, Return, OnlyTunnel
    <2> HIDE DEF none, changed, done, r, p, wasUp
    <2> QED BY <1>1, <2>1, <2>2, <2>3
  <1>5. CASE p.remote \notin Remotes \ BadAddrs
    <2>1. p \in Priv BY DEF States, Callable
    <2>2. p.remote \in BadAddrs \cup {None} BY <1>5, <2>1 DEF Priv
    <2>3. UpdateTunnel(s, i) = {none} BY <2>2 DEF UpdateTunnel, Callable
    <2>4. served = {<<s.tunnel, -1>>} BY <1>3, <1>5 DEF Service!Outcomes, Service!Updates
    <2> HIDE DEF none, served
    <2> QED BY <1>4, <2>3, <2>4 DEF served
  <1>6. CASE p.remote \in Remotes \ BadAddrs
    <2>1. p.remote \notin BadAddrs \cup {None}
      BY <1>6, ConstantsAssumption DEF Remotes
    <2>2. UpdateTunnel(s, i) =
            {done} \cup (IF "tunnel" \in Quirks THEN {none} ELSE {})
                   \cup (IF "ifup" \in Quirks THEN {changed} ELSE {})
      BY <2>1 DEF UpdateTunnel, Callable, Maybe
    <2>3. served = {<<s.tunnel, -1>>, <<Service!Between(r, wasUp), -1>>,
                    <<Service!Between(r, TRUE), 0>>}
      BY <1>2, <1>3, <1>6 DEF Service!Outcomes, Service!Updates
    <2> HIDE DEF none, changed, done, served
    <2> QED BY <1>4, <2>2, <2>3 DEF served
  <1> QED BY <1>5, <1>6

\* delete_dslite_tunnel, whose caller does not look at what the call returns.
THEOREM DeleteAsServed ==
    ASSUME NEW s \in States, NEW i \in Ifs, Callable(s, i)
    PROVE  LET served == Service!Outcomes(s.tunnel, Arguments(s, i, "delete_tunnel"))
           IN  /\ \A t \in DeleteTunnel(s, i) :
                     OnlyTunnel(s, t) /\ \E rv \in {0, -1} : <<t.tunnel, rv>> \in served
               /\ "delete" \in Quirks =>
                     \A o \in served : \E t \in DeleteTunnel(s, i) : t.tunnel = o[1]
  <1> DEFINE gone == [s EXCEPT !.tunnel = None]
  <1>1. Service!Outcomes(s.tunnel, Arguments(s, i, "delete_tunnel")) =
          {<<s.tunnel, -1>>} \cup (IF s.tunnel = None THEN {} ELSE {<<None, 0>>})
    BY DEF Service!Outcomes, Service!Deletions, Arguments
  <1>2. DeleteTunnel(s, i) = {gone} \cup (IF "delete" \in Quirks THEN {s} ELSE {})
    BY DEF DeleteTunnel, Callable, Maybe
  <1>3. gone.tunnel = None /\ OnlyTunnel(s, s) /\ OnlyTunnel(s, gone)
    BY DEF States, OnlyTunnel
  <1> HIDE DEF gone
  <1> QED BY <1>1, <1>2, <1>3
=============================================================================
