----------------------- MODULE DSLiteBootTunnel_proofs -----------------------
(***************************************************************************)
(* No process leaves a tunnel of its own making but by ending: where the   *)
(* kernel and the IP manager do not fail, every EndpointAddress is an IPv6 *)
(* address, the WAN interface stays as it is configured and the timers of  *)
(* freed DNS queries do no harm, under a calm user, a tunnel that exists   *)
(* while no instance is Enabled is the one the process found at its start. *)
(***************************************************************************)
EXTENDS DSLiteBootCalm_proofs

\* The ioctls and the calls of the IP manager succeed, and EndpointAddress is an
\* IPv6 address.  NetModel, the resolver and the firewall may still fail.
KernelWorks ==
    Quirks \cap {"tunnel", "ifup", "delete", "ipset"} = {} /\ BadAddrs = {}

\* Nobody writes WANInterface, which a user may leave empty.
SteadyWan == \A T \in Transactions : "wan" \notin T

\* A tunnel other than the one left, L, is an Enabled instance's, and whoever is
\* Enabled has the net device without which delete_dslite_tunnel does nothing.
Traced(s, L) ==
    /\ \A j \in Ifs : s.conf[j].wan # None
    /\ \A j \in Ifs : Enabled(s, j) =>
         s.ptr[j] \in PrivIds /\ s.heap[s.ptr[j]].local # None
    /\ s.tunnel \in {None, L} \/ \E j \in Ifs : Enabled(s, j)

\* Functions that have nothing to do with the tunnel.
Apart(s, t) ==
    /\ t.tunnel = s.tunnel /\ t.oper = s.oper /\ t.ptr = s.ptr
    /\ \A j \in Ifs : t.conf[j].wan = s.conf[j].wan
    /\ \A q \in PrivIds : s.heap[q].local # None => t.heap[q].local # None

\* They keep where it comes from.
LEMMA ApartTraced ==
    ASSUME NEW L, NEW s, Traced(s, L), NEW t, Apart(s, t) PROVE Traced(t, L)
  BY DEF Traced, Apart, Enabled

-----------------------------------------------------------------------------
(* What has nothing to do with the tunnel.                                 *)

\* Writing a block that keeps its net device.
LEMMA WroteApart ==
    ASSUME NEW s, NEW i, NEW p \in PrivIds, NEW b, NEW t, Wrote(s, t, i, p, b),
           t.tunnel = s.tunnel, s.heap[p].local # None => b.local # None
    PROVE  Apart(s, t)
  BY DEF Wrote, Within, Around, Apart

\* The fields of a block.
LEMMA FieldsApart ==
    ASSUME NEW s \in States, NEW i \in Ifs, NEW p \in PrivIds
    PROVE  /\ \A v \in Remotes \cup {None} : Apart(s, WithRemote(s, p, v))
           /\ \A v \in LocalAddrs : Apart(s, WithLocal(s, p, v))
           /\ \A v \in {"none", "pending", "idle", "dead", "dangling"} :
                Apart(s, WithDns(s, p, v))
           /\ \A v \in {"none", "off", "armed"} : Apart(s, WithTimer(s, p, v))
           /\ \A v \in WANs \cup {None} : Apart(s, WithAddrQ(s, p, v))
           /\ \A v \in LocalAddrs \cup {None} : Apart(s, WithAddrRes(s, p, v))
           /\ \A v \in WANs \cup {None} : Apart(s, WithDhcpQ(s, p, v))
           /\ \A v \in Names \cup {None} : Apart(s, WithDhcpRes(s, p, v))
  <1>1. s.heap[p] \in Priv BY DEF States
  <1>2. ASSUME NEW v PROVE /\ [s.heap[p] EXCEPT !.remote = v].local = s.heap[p].local
                           /\ [s.heap[p] EXCEPT !.local = v].local = v
                           /\ [s.heap[p] EXCEPT !.dns = v].local = s.heap[p].local
                           /\ [s.heap[p] EXCEPT !.timer = v].local = s.heap[p].local
                           /\ [s.heap[p] EXCEPT !.addrQ = v].local = s.heap[p].local
                           /\ [s.heap[p] EXCEPT !.addrRes = v].local = s.heap[p].local
                           /\ [s.heap[p] EXCEPT !.dhcpQ = v].local = s.heap[p].local
                           /\ [s.heap[p] EXCEPT !.dhcpRes = v].local = s.heap[p].local
    BY <1>1 DEF Priv
  <1>3. ASSUME NEW v PROVE /\ WithRemote(s, p, v).tunnel = s.tunnel
                           /\ WithLocal(s, p, v).tunnel = s.tunnel
                           /\ WithDns(s, p, v).tunnel = s.tunnel
                           /\ WithTimer(s, p, v).tunnel = s.tunnel
                           /\ WithAddrQ(s, p, v).tunnel = s.tunnel
                           /\ WithAddrRes(s, p, v).tunnel = s.tunnel
                           /\ WithDhcpQ(s, p, v).tunnel = s.tunnel
                           /\ WithDhcpRes(s, p, v).tunnel = s.tunnel
    BY DEF WithRemote, WithLocal, WithDns, WithTimer, WithAddrQ, WithAddrRes,
           WithDhcpQ, WithDhcpRes, States
  <1>4. \A v \in LocalAddrs : v # None BY ConstantsAssumption
  <1>5. ASSUME NEW t, NEW b, Wrote(s, t, i, p, b), t.tunnel = s.tunnel,
               s.heap[p].local # None => b.local # None
        PROVE  Apart(s, t)
    BY <1>5, WroteApart
  <1>6. ASSUME NEW v \in Remotes \cup {None} PROVE Apart(s, WithRemote(s, p, v))
    <2> DEFINE t == WithRemote(s, p, v)
               b == [s.heap[p] EXCEPT !.remote = v]
    <2>1. Wrote(s, t, i, p, b) BY FieldsWritten
    <2>2. t.tunnel = s.tunnel BY <1>3
    <2>3. s.heap[p].local # None => b.local # None BY <1>2
    <2> HIDE DEF t, b
    <2>4. Apart(s, t) BY <1>5, <2>1, <2>2, <2>3
    <2> QED BY <2>4 DEF t
  <1>7. ASSUME NEW v \in LocalAddrs PROVE Apart(s, WithLocal(s, p, v))
    <2> DEFINE t == WithLocal(s, p, v)
               b == [s.heap[p] EXCEPT !.local = v]
    <2>1. Wrote(s, t, i, p, b) BY FieldsWritten
    <2>2. t.tunnel = s.tunnel BY <1>3
    <2>3. s.heap[p].local # None => b.local # None BY <1>2, <1>4
    <2> HIDE DEF t, b
    <2>4. Apart(s, t) BY <1>5, <2>1, <2>2, <2>3
    <2> QED BY <2>4 DEF t
  <1>8. ASSUME NEW v \in {"none", "pending", "idle", "dead", "dangling"} PROVE Apart(s, WithDns(s, p, v))
    <2> DEFINE t == WithDns(s, p, v)
               b == [s.heap[p] EXCEPT !.dns = v]
    <2>1. Wrote(s, t, i, p, b) BY FieldsWritten
    <2>2. t.tunnel = s.tunnel BY <1>3
    <2>3. s.heap[p].local # None => b.local # None BY <1>2
    <2> HIDE DEF t, b
    <2>4. Apart(s, t) BY <1>5, <2>1, <2>2, <2>3
    <2> QED BY <2>4 DEF t
  <1>9. ASSUME NEW v \in {"none", "off", "armed"} PROVE Apart(s, WithTimer(s, p, v))
    <2> DEFINE t == WithTimer(s, p, v)
               b == [s.heap[p] EXCEPT !.timer = v]
    <2>1. Wrote(s, t, i, p, b) BY FieldsWritten
    <2>2. t.tunnel = s.tunnel BY <1>3
    <2>3. s.heap[p].local # None => b.local # None BY <1>2
    <2> HIDE DEF t, b
    <2>4. Apart(s, t) BY <1>5, <2>1, <2>2, <2>3
    <2> QED BY <2>4 DEF t
  <1>10. ASSUME NEW v \in WANs \cup {None} PROVE Apart(s, WithAddrQ(s, p, v))
    <2> DEFINE t == WithAddrQ(s, p, v)
               b == [s.heap[p] EXCEPT !.addrQ = v]
    <2>1. Wrote(s, t, i, p, b) BY FieldsWritten
    <2>2. t.tunnel = s.tunnel BY <1>3
    <2>3. s.heap[p].local # None => b.local # None BY <1>2
    <2> HIDE DEF t, b
    <2>4. Apart(s, t) BY <1>5, <2>1, <2>2, <2>3
    <2> QED BY <2>4 DEF t
  <1>11. ASSUME NEW v \in LocalAddrs \cup {None} PROVE Apart(s, WithAddrRes(s, p, v))
    <2> DEFINE t == WithAddrRes(s, p, v)
               b == [s.heap[p] EXCEPT !.addrRes = v]
    <2>1. Wrote(s, t, i, p, b) BY FieldsWritten
    <2>2. t.tunnel = s.tunnel BY <1>3
    <2>3. s.heap[p].local # None => b.local # None BY <1>2
    <2> HIDE DEF t, b
    <2>4. Apart(s, t) BY <1>5, <2>1, <2>2, <2>3
    <2> QED BY <2>4 DEF t
  <1>12. ASSUME NEW v \in WANs \cup {None} PROVE Apart(s, WithDhcpQ(s, p, v))
    <2> DEFINE t == WithDhcpQ(s, p, v)
               b == [s.heap[p] EXCEPT !.dhcpQ = v]
    <2>1. Wrote(s, t, i, p, b) BY FieldsWritten
    <2>2. t.tunnel = s.tunnel BY <1>3
    <2>3. s.heap[p].local # None => b.local # None BY <1>2
    <2> HIDE DEF t, b
    <2>4. Apart(s, t) BY <1>5, <2>1, <2>2, <2>3
    <2> QED BY <2>4 DEF t
  <1>13. ASSUME NEW v \in Names \cup {None} PROVE Apart(s, WithDhcpRes(s, p, v))
    <2> DEFINE t == WithDhcpRes(s, p, v)
               b == [s.heap[p] EXCEPT !.dhcpRes = v]
    <2>1. Wrote(s, t, i, p, b) BY FieldsWritten
    <2>2. t.tunnel = s.tunnel BY <1>3
    <2>3. s.heap[p].local # None => b.local # None BY <1>2
    <2> HIDE DEF t, b
    <2>4. Apart(s, t) BY <1>5, <2>1, <2>2, <2>3
    <2> QED BY <2>4 DEF t
  <1> QED BY <1>6, <1>7, <1>8, <1>9, <1>10, <1>11, <1>12, <1>13

\* Queries.
LEMMA QueriesApart ==
    ASSUME NEW s \in States, NEW i \in Ifs, NEW p \in PrivIds, NEW wan \in WANs \cup {None}
    PROVE  /\ \A a \in LocalAddrs \cup {None} : Apart(s, AddrQuery(s, p, wan, a))
           /\ \A n \in Names \cup {None} : Apart(s, DhcpQuery(s, p, wan, n))
  <1>1. s.heap[p] \in Priv BY DEF States
  <1>2. ASSUME NEW a PROVE /\ AddrQuery(s, p, wan, a).tunnel = s.tunnel
                           /\ AddrQuery(s, p, wan, a).oper = s.oper
                           /\ AddrQuery(s, p, wan, a).ptr = s.ptr
                           /\ AddrQuery(s, p, wan, a).conf = s.conf
                           /\ AddrQuery(s, p, wan, a).heap
                                = [s.heap EXCEPT ![p] = [s.heap[p] EXCEPT !.addrQ = wan,
                                                                          !.addrRes = a]]
    BY DEF AddrQuery, States
  <1>3. ASSUME NEW n PROVE /\ DhcpQuery(s, p, wan, n).tunnel = s.tunnel
                           /\ DhcpQuery(s, p, wan, n).oper = s.oper
                           /\ DhcpQuery(s, p, wan, n).ptr = s.ptr
                           /\ DhcpQuery(s, p, wan, n).conf = s.conf
                           /\ DhcpQuery(s, p, wan, n).heap
                                = [s.heap EXCEPT ![p] = [s.heap[p] EXCEPT !.dhcpQ = wan,
                                                                          !.dhcpRes = n]]
    BY DEF DhcpQuery, States
  <1>4. \A a : [s.heap[p] EXCEPT !.addrQ = wan, !.addrRes = a].local = s.heap[p].local
    BY <1>1 DEF Priv
  <1>5. \A n : [s.heap[p] EXCEPT !.dhcpQ = wan, !.dhcpRes = n].local = s.heap[p].local
    BY <1>1 DEF Priv
  <1>6. s.heap \in [PrivIds -> Priv] BY DEF States
  <1>7. ASSUME NEW b, b.local = s.heap[p].local, NEW t,
               t.tunnel = s.tunnel, t.oper = s.oper, t.ptr = s.ptr, t.conf = s.conf,
               t.heap = [s.heap EXCEPT ![p] = b]
        PROVE  Apart(s, t)
    <2>1. \A q \in PrivIds : t.heap[q].local = s.heap[q].local BY <1>6, <1>7
    <2> QED BY <1>7, <2>1 DEF Apart
  <1>8. ASSUME NEW a \in LocalAddrs \cup {None} PROVE Apart(s, AddrQuery(s, p, wan, a))
    <2> DEFINE b == [s.heap[p] EXCEPT !.addrQ = wan, !.addrRes = a]
               t == AddrQuery(s, p, wan, a)
    <2>1. b.local = s.heap[p].local BY <1>4
    <2>2. /\ t.tunnel = s.tunnel /\ t.oper = s.oper /\ t.ptr = s.ptr /\ t.conf = s.conf
          /\ t.heap = [s.heap EXCEPT ![p] = b]
      BY <1>2
    <2> HIDE DEF b, t
    <2>3. Apart(s, t) BY <1>7, <2>1, <2>2
    <2> QED BY <2>3 DEF t
  <1>9. ASSUME NEW n \in Names \cup {None} PROVE Apart(s, DhcpQuery(s, p, wan, n))
    <2> DEFINE b == [s.heap[p] EXCEPT !.dhcpQ = wan, !.dhcpRes = n]
               t == DhcpQuery(s, p, wan, n)
    <2>1. b.local = s.heap[p].local BY <1>5
    <2>2. /\ t.tunnel = s.tunnel /\ t.oper = s.oper /\ t.ptr = s.ptr /\ t.conf = s.conf
          /\ t.heap = [s.heap EXCEPT ![p] = b]
      BY <1>3
    <2> HIDE DEF b, t
    <2>3. Apart(s, t) BY <1>7, <2>1, <2>2
    <2> QED BY <2>3 DEF t
  <1> QED BY <1>8, <1>9

\* A return value, a popped event, EndpointName's access, and a name.
LEMMA OthersApart ==
    ASSUME NEW s \in States
    PROVE  /\ \A n : Apart(s, Return(s, n))
           /\ Apart(s, Popped(s))
           /\ \A i : Apart(s, MarkEndpointName(s, i))
           /\ \A i \in Ifs, name \in Names \cup {None} : Apart(s, NameReported(s, i, name))
  <1>1. \A n : Apart(s, Return(s, n)) BY DEF Apart, Return, States
  <1>2. Apart(s, Popped(s)) BY DEF Apart, Popped, States
  <1>3. ASSUME NEW i PROVE Apart(s, MarkEndpointName(s, i))
    BY DEF Apart, MarkEndpointName, States
  <1>4. ASSUME NEW i \in Ifs, NEW name \in Names \cup {None}
        PROVE  Apart(s, NameReported(s, i, name))
    <2> DEFINE c == [s.conf EXCEPT ![i] = [s.conf[i] EXCEPT !.name = name]]
               t == NameReported(s, i, name)
    <2>1. /\ t.tunnel = s.tunnel /\ t.oper = s.oper /\ t.ptr = s.ptr
          /\ t.heap = s.heap /\ t.conf = c
      BY DEF NameReported, States
    <2>2. s.conf \in [Ifs -> Conf] BY DEF States
    <2>3. \A j \in Ifs : c[j].wan = s.conf[j].wan BY <2>2 DEF Conf
    <2> HIDE DEF c, t
    <2>4. Apart(s, t) BY <2>1, <2>3 DEF Apart
    <2> QED BY <2>4 DEF t
  <1> QED BY <1>1, <1>2, <1>3, <1>4

-----------------------------------------------------------------------------
(* Opening and closing an interface.                                       *)

\* open_firewall, close_firewall.
LEMMA FirewallApart ==
    ASSUME NEW s \in States, NEW wan, NEW t \in OpenFirewall(s, wan) \cup CloseFirewall(s)
    PROVE  t.tunnel = s.tunnel
  <1>1. t = s \/ \E v : t = [s EXCEPT !.firewall = v]
    BY DEF OpenFirewall, CloseFirewall, Maybe
  <1> QED BY <1>1 DEF States

\* toggle_dslite_ip_interfaces, which succeeds.
LEMMA IpApart ==
    ASSUME KernelWorks, NEW s \in States, NEW i \in Ifs, NEW enable \in BOOLEAN,
           NEW t \in ToggleIpInterfaces(s, i, enable)
    PROVE  t.tunnel = s.tunnel /\ t.rv = 0
  <1>1. "ipset" \notin Quirks BY DEF KernelWorks
  <1>2. PICK u \in SetTunneledIf(s, i, enable) :
               t \in IF u.rv # 0 THEN {u} ELSE SetTunnelIf(u, enable)
    BY DEF ToggleIpInterfaces
  <1>3. PICK k : u = Return([s EXCEPT !.ip = k], 0) BY <1>1 DEF SetTunneledIf, Maybe
  <1>4. u.tunnel = s.tunnel /\ u.rv = 0 BY <1>3 DEF Return, States
  <1>5. u \in States BY SetTunneledIfFrame DEF Frame
  <1>6. t \in SetTunnelIf(u, enable) BY <1>2, <1>4
  <1>7. PICK m : t = Return([u EXCEPT !.ip = m], 0) BY <1>1, <1>6 DEF SetTunnelIf, Maybe
  <1>8. t.tunnel = u.tunnel /\ t.rv = 0 BY <1>5, <1>7 DEF Return, States
  <1> QED BY <1>4, <1>8

\* update_interface_status writes the Status of one instance.
LEMMA StatusTraced ==
    ASSUME NEW L, NEW s \in States, NEW i \in Ifs, NEW p, Holds(s, i, p), Traced(s, L),
           NEW t, EnvOnly(s, t), NEW status \in Statuses,
           NEW u, u = UpdateStatus(t, i, status),
           \/ status = "Enabled" /\ s.heap[p].local # None
           \/ status # "Enabled" /\ ~Enabled(s, i) /\ t.tunnel = s.tunnel
           \/ status # "Enabled" /\ t.tunnel = None
    PROVE  Traced(u, L)
  <1>1. /\ t \in States /\ t.ptr = s.ptr /\ t.heap = s.heap /\ t.conf = s.conf
        /\ t.oper = s.oper
    BY DEF EnvOnly, Around
  <1>2. t.ptr[i] = p /\ p # None /\ p \in PrivIds BY <1>1, ConstantsAssumption DEF Holds
  <1> DEFINE o == [status |-> status,
             inUse  |-> IF status = "Enabled" THEN t.heap[t.ptr[i]].remote ELSE None,
             local  |-> IF status = "Enabled" THEN t.heap[t.ptr[i]].local ELSE None,
             origin |-> t.conf[i].prec]
  <1>3. u = [t EXCEPT !.oper = [t.oper EXCEPT ![i] = o]] /\ o.status = status
    BY <1>2 DEF UpdateStatus
  <1> HIDE DEF o
  <1>4. /\ u.tunnel = t.tunnel /\ u.ptr = s.ptr /\ u.heap = s.heap /\ u.conf = s.conf
        /\ u.oper = [s.oper EXCEPT ![i] = o]
    BY <1>1, <1>3 DEF States
  <1>5. s.oper \in [Ifs -> Oper] BY DEF States
  <1>6. /\ Enabled(u, i) <=> status = "Enabled"
        /\ \A j \in Ifs \ {i} : Enabled(u, j) <=> Enabled(s, j)
    BY <1>3, <1>4, <1>5 DEF Enabled
  <1>7. \A j \in Ifs : Enabled(u, j) => u.ptr[j] \in PrivIds /\ u.heap[u.ptr[j]].local # None
    <2>1. Enabled(u, i) => s.heap[p].local # None BY <1>6
    <2> QED BY <1>1, <1>2, <1>4, <1>6, <2>1 DEF Traced
  <1>8. u.tunnel \in {None, L} \/ \E j \in Ifs : Enabled(u, j)
    <2>1. CASE status = "Enabled" BY <1>6, <2>1
    <2>2. CASE ~Enabled(s, i) /\ t.tunnel = s.tunnel
      BY <1>4, <1>6, <2>2 DEF Traced
    <2>3. CASE t.tunnel = None BY <1>4, <2>3
    <2> QED BY <2>1, <2>2, <2>3
  <1> QED BY <1>4, <1>7, <1>8 DEF Traced

\* disable_interface takes down what was set up.
LEMMA DisableTraced ==
    ASSUME KernelWorks, NEW L, NEW s \in States, NEW i \in Ifs, NEW p, Holds(s, i, p),
           Traced(s, L), NEW status \in Statuses \ {"Enabled"}, NEW u \in Disable(s, i, status)
    PROVE  Traced(u, L)
  <1>1. CASE ~Enabled(s, i)
    <2>1. u = UpdateStatus(s, i, status) BY <1>1 DEF Disable, Enabled
    <2>2. EnvOnly(s, s) BY DEF EnvOnly, Around
    <2> QED BY <1>1, <2>1, <2>2, StatusTraced
  <1>2. CASE Enabled(s, i)
    <2>1. PICK v \in DeleteTunnel(s, i) : \E w \in CloseFirewall(v) :
            \E t \in ToggleIpInterfaces(w, i, FALSE) : u = UpdateStatus(t, i, status)
      BY <1>2 DEF Disable, Enabled
    <2>2. PICK w \in CloseFirewall(v) :
            \E t \in ToggleIpInterfaces(w, i, FALSE) : u = UpdateStatus(t, i, status)
      BY <2>1
    <2>3. PICK t \in ToggleIpInterfaces(w, i, FALSE) : u = UpdateStatus(t, i, status)
      BY <2>2
    <2>4. s.ptr[i] = p /\ p # None /\ ~Dangling(s, i) /\ s.heap[p].local # None
      BY <1>2, ConstantsAssumption DEF Holds, Dangling, Traced
    <2>5. v = [s EXCEPT !.tunnel = None] BY <2>4 DEF DeleteTunnel, Maybe, KernelWorks
    <2>6. v.tunnel = None BY <2>5 DEF States
    <2>7. EnvOnly(s, v) BY DeleteTunnelOnly
    <2>8. v \in States BY <2>7 DEF EnvOnly, Around
    <2>9. EnvOnly(v, w) /\ w.tunnel = None
      <3>1. None \in AnyWAN \cup {None} OBVIOUS
      <3> QED BY <2>6, <2>8, <3>1, FirewallOnly, FirewallApart
    <2>10. w \in States BY <2>9 DEF EnvOnly, Around
    <2>11. EnvOnly(w, t) /\ t.tunnel = None BY <2>9, <2>10, ToggleIpInterfacesOnly, IpApart
    <2>12. EnvOnly(s, t) BY <2>7, <2>9, <2>11, OnlyTrans
    <2> QED BY <2>3, <2>11, <2>12, StatusTraced
  <1> QED BY <1>1, <1>2

\* What callers do with an error.
LEMMA DisableOnErrorTraced ==
    ASSUME KernelWorks, NEW L, NEW s \in States, NEW i \in Ifs, NEW p, Holds(s, i, p),
           Traced(s, L), NEW u \in DisableOnError(s, i)
    PROVE  Traced(u, L)
  <1>1. "Error" \in Statuses \ {"Enabled"} BY DEF Statuses
  <1> QED BY <1>1, DisableTraced DEF DisableOnError

\* setup_dslite_interface, called with the remote address: the instance becomes
\* Enabled, or was not and nothing is set up.
LEMMA SetupTraced ==
    ASSUME KernelWorks, NEW L, NEW s \in States, NEW i \in Ifs, NEW p, Holds(s, i, p),
           Traced(s, L), s.heap[p].remote # None, NEW u \in Setup(s, i)
    PROVE  Traced(u, L)
  <1>1. "Error" \in Statuses /\ "Enabled" \in Statuses BY DEF Statuses
  <1>2. s.ptr[i] = p /\ p # None /\ ~Dangling(s, i) /\ s.conf[i].wan # None
    BY ConstantsAssumption DEF Holds, Dangling, Traced
  <1>3. PICK t \in UpdateTunnel(s, i) :
               u \in IF t.fault # None THEN {t}
                     ELSE IF t.rv # 0 THEN {UpdateStatus(t, i, "Error")}
                     ELSE UNION {ConcludeSetup(w, i) :
                       w \in UNION {ToggleIpInterfaces(v, i, TRUE) :
                               v \in OpenFirewall(t, t.conf[i].wan)}}
    BY <1>2 DEF Setup
  <1>4. EnvOnly(s, t) BY UpdateTunnelOnly
  <1>5. t \in States /\ t.fault = None /\ t.conf = s.conf BY <1>4 DEF EnvOnly, Around, Holds
  <1>6. CASE s.heap[p].local = None
    <2>1. t = Return(s, -1) BY <1>2, <1>6 DEF UpdateTunnel
    <2>2. t.rv # 0 /\ t.tunnel = s.tunnel BY <2>1 DEF Return, States
    <2>3. u = UpdateStatus(t, i, "Error") BY <1>3, <1>5, <2>2
    <2>4. ~Enabled(s, i) BY <1>2, <1>6 DEF Traced
    <2> QED BY <1>1, <1>4, <2>2, <2>3, <2>4, StatusTraced
  <1>7. CASE s.heap[p].local # None
    <2>1. PICK k : t = Return([s EXCEPT !.tunnel = k], 0)
      BY <1>2, <1>7 DEF UpdateTunnel, Maybe, KernelWorks
    <2>2. t.rv = 0 BY <2>1 DEF Return, States
    <2>3. PICK v \in OpenFirewall(t, t.conf[i].wan) :
                 \E w \in ToggleIpInterfaces(v, i, TRUE) : u \in ConcludeSetup(w, i)
      BY <1>3, <1>5, <2>2
    <2>4. PICK w \in ToggleIpInterfaces(v, i, TRUE) : u \in ConcludeSetup(w, i) BY <2>3
    <2>5. t.conf[i].wan \in AnyWAN \cup {None} BY <1>5 DEF States, Conf
    <2>6. EnvOnly(t, v) BY <1>5, <2>5, FirewallOnly
    <2>7. v \in States BY <2>6 DEF EnvOnly, Around
    <2>8. EnvOnly(v, w) /\ w.rv = 0 BY <2>7, ToggleIpInterfacesOnly, IpApart
    <2>9. EnvOnly(s, w) BY <1>4, <2>6, <2>8, OnlyTrans
    <2>10. u = UpdateStatus(w, i, "Enabled") BY <2>4, <2>8 DEF ConcludeSetup
    <2> QED BY <1>1, <1>7, <2>9, <2>10, StatusTraced
  <1> QED BY <1>6, <1>7

-----------------------------------------------------------------------------
(* Resolving the name of the tunnel concentrator.                          *)

\* remote_endpoint_addr_query_cb.
LEMMA QueryAnsweredTraced ==
    ASSUME KernelWorks, NEW L, NEW s \in States, NEW i \in Ifs, NEW p, Holds(s, i, p),
           Traced(s, L), NEW address \in DnsAddrs \cup {None},
           NEW u \in QueryAnswered(s, p, address)
    PROVE  Traced(u, L)
  <1> DEFINE stored == WithRemote(s, p, address)
  <1>1. s.heap[p].owner = i /\ i # None /\ p \in PrivIds
    BY ConstantsAssumption DEF Holds
  <1>2. s.heap[p] \in Priv BY <1>1 DEF States
  <1>3. ASSUME NEW t \in States, Traced(t, L), NEW v \in {"none", "off", "armed"},
               u = WithTimer(t, p, v)
        PROVE  Traced(u, L)
    <2>1. Apart(t, u) BY <1>1, <1>3, FieldsApart
    <2> QED BY <1>3, <2>1, ApartTraced
  <1>4. CASE address # None
    <2>1. PICK t \in Setup(stored, i) : u = WithTimer(t, p, "none")
      BY <1>1, <1>4 DEF QueryAnswered, WithRemote, WithTimer
    <2>2. address \in Remotes \cup {None} BY DEF Remotes
    <2>3. Wrote(s, stored, i, p, [s.heap[p] EXCEPT !.remote = address]) /\ Apart(s, stored)
      BY <1>1, <2>2, FieldsWritten, FieldsApart
    <2> HIDE DEF stored
    <2>4. Within(s, stored, i, p) /\ stored.heap[p].remote = address
      BY <1>2, <2>3 DEF Wrote, Priv
    <2>5. stored \in States /\ Holds(stored, i, p) BY <2>4, HoldsKept
    <2>6. Traced(stored, L) BY <2>3, ApartTraced
    <2>7. Traced(t, L) BY <1>4, <2>1, <2>4, <2>5, <2>6, SetupTraced
    <2>8. t \in States BY <2>1, <2>5, SetupOnly DEF StatusOnly, Around
    <2> QED BY <1>3, <2>1, <2>7, <2>8
  <1>5. CASE address = None
    <2>1. PICK t \in Disable(s, i, "Error") :
            u = WithTimer(t, p, IF t.heap[p].timer = "off" THEN "armed" ELSE t.heap[p].timer)
      BY <1>1, <1>5 DEF QueryAnswered, WithRemote, WithTimer
    <2>2. "Error" \in Statuses \ {"Enabled"} BY DEF Statuses
    <2>3. Traced(t, L) BY <2>2, DisableTraced
    <2>4. t \in States BY <2>2, DisableOnly DEF StatusOnly, Around
    <2>5. t.heap[p] \in Priv BY <1>1, <2>4 DEF States
    <2>6. (IF t.heap[p].timer = "off" THEN "armed" ELSE t.heap[p].timer)
            \in {"none", "off", "armed"}
      BY <2>5 DEF Priv
    <2> QED BY <1>3, <2>1, <2>3, <2>4, <2>6
  <1> QED BY <1>4, <1>5

\* dslite_close_dns_query.
LEMMA CloseDnsQueryTraced ==
    ASSUME KernelWorks, NEW L, NEW s \in States, NEW i \in Ifs, NEW p, Holds(s, i, p),
           Tidy(s, p), Traced(s, L), NEW u \in CloseDnsQuery(s, p)
    PROVE  Traced(u, L)
  <1>1. p \in PrivIds BY DEF Holds
  <1>2. s.heap[p].dns \in {"none", "pending", "idle", "dead"}
    BY <1>1 DEF States, Priv, Tidy
  <1>3. PICK t : /\ t = s \/ t \in QueryAnswered(s, p, None)
                 /\ u = s \/ u = WithDns(t, p, "dangling")
    BY <1>2 DEF CloseDnsQuery, WithDns
  <1>4. CASE t = s
    <2>1. Apart(t, WithDns(t, p, "dangling")) BY <1>1, <1>4, FieldsApart
    <2> QED BY <1>3, <1>4, <2>1, ApartTraced
  <1>5. CASE t \in QueryAnswered(s, p, None)
    <2>1. Traced(t, L) BY <1>5, QueryAnsweredTraced
    <2>2. t \in States BY <1>5, QueryAnsweredWithin DEF Within, Around
    <2>3. Apart(t, WithDns(t, p, "dangling")) BY <1>1, <2>2, FieldsApart
    <2> QED BY <1>3, <2>1, <2>3, ApartTraced
  <1> QED BY <1>3, <1>4, <1>5

\* The same where its timers may still run.
LEMMA CloseWithTimersTraced ==
    ASSUME KernelWorks, NoStray,
           NEW L, NEW s \in States, NEW i \in Ifs, NEW p, Holds(s, i, p),
           Tidy(s, p), Traced(s, L), NEW u \in CloseWithTimers(s, p)
    PROVE  Traced(u, L)
  <1>1. p \in PrivIds BY DEF Holds
  <1>2. u \in CloseDnsQuery(s, p) \/ u = WithDns(s, p, "dangling")
    BY DEF CloseWithTimers, Maybe, NoStray, WithDns
  <1>3. CASE u \in CloseDnsQuery(s, p) BY <1>3, CloseDnsQueryTraced
  <1>4. CASE u = WithDns(s, p, "dangling")
    <2>1. Apart(s, u) BY <1>1, <1>4, FieldsApart
    <2> QED BY <2>1, ApartTraced
  <1> QED BY <1>2, <1>3, <1>4

\* dslite_open_dns_query and the assignment of what it returns to dns_query.
LEMMA OpenDnsQueryTraced ==
    ASSUME KernelWorks, NEW L, NEW s \in States, NEW i \in Ifs, NEW p, Holds(s, i, p),
           Traced(s, L), NEW u \in OpenDnsQuery(s, p)
    PROVE  Traced(u, L)
  <1>1. p \in PrivIds BY DEF Holds
  <1>2. ASSUME NEW t \in States, Traced(t, L), NEW v \in {"none", "pending", "idle"}, NEW n,
               u = Return(WithDns(t, p, v), n)
        PROVE  Traced(u, L)
    <2> DEFINE w == WithDns(t, p, v)
    <2>1. Apart(t, w) /\ w \in States
      BY <1>1, <1>2, FieldsApart, FieldsWritten DEF Wrote, Within, Around
    <2>2. u = Return(w, n) BY <1>2
    <2> HIDE DEF w
    <2>3. Apart(w, u) BY <2>1, <2>2, OthersApart
    <2> QED BY <1>2, <2>1, <2>3, ApartTraced
  <1>3. \/ u = Return(WithDns(s, p, "pending"), 0)
        \/ u = Return(WithDns(s, p, "none"), -1)
        \/ \E a \in DnsAddrs \cup {None} : \E t \in QueryAnswered(s, p, a) :
             u = Return(WithDns(t, p, "idle"), 0)
    BY DEF OpenDnsQuery, Maybe, WithDns
  <1>4. CASE u = Return(WithDns(s, p, "pending"), 0) BY <1>2, <1>4
  <1>5. CASE u = Return(WithDns(s, p, "none"), -1) BY <1>2, <1>5
  <1>6. ASSUME NEW a \in DnsAddrs \cup {None}, NEW t \in QueryAnswered(s, p, a),
               u = Return(WithDns(t, p, "idle"), 0)
        PROVE  Traced(u, L)
    <2>1. Traced(t, L) BY QueryAnsweredTraced
    <2>2. t \in States BY QueryAnsweredWithin DEF Within, Around
    <2> QED BY <1>2, <1>6, <2>1, <2>2
  <1> QED BY <1>3, <1>4, <1>5, <1>6

\* resolve_endpoint_name ...
LEMMA ResolveTraced ==
    ASSUME KernelWorks, NoStray,
           NEW L, NEW s \in States, NEW i \in Ifs, NEW p, Holds(s, i, p),
           Tidy(s, p), Traced(s, L), NEW name, NEW u \in ResolveEndpointName(s, i, name)
    PROVE  Traced(u, L)
  <1> DEFINE stopped == WithTimer(s, p, "off")
             armed   == WithTimer(s, p, "armed")
  <1>1. p \in PrivIds /\ s.ptr[i] = p /\ p # None /\ ~Dangling(s, i)
    BY ConstantsAssumption DEF Holds, Dangling
  <1>2. s.heap[p] \in Priv BY <1>1 DEF States
  <1>3. \/ u = Return(s, -1)
        \/ u = Return(armed, -1)
        \/ \E t \in CloseWithTimers(stopped, p) : u \in OpenDnsQuery(t, p)
    BY <1>1 DEF ResolveEndpointName, WithTimer
  <1>4. /\ Wrote(s, armed, i, p, [s.heap[p] EXCEPT !.timer = "armed"]) /\ Apart(s, armed)
        /\ Wrote(s, stopped, i, p, [s.heap[p] EXCEPT !.timer = "off"]) /\ Apart(s, stopped)
    BY <1>1, FieldsWritten, FieldsApart
  <1> HIDE DEF stopped, armed
  <1>5. /\ Within(s, stopped, i, p) /\ stopped.heap[p].dns = s.heap[p].dns
        /\ armed \in States
    BY <1>2, <1>4 DEF Wrote, Priv, Within, Around
  <1>6. Traced(armed, L) /\ Traced(stopped, L) BY <1>4, ApartTraced
  <1>7. CASE u = Return(s, -1)
    <2>1. Apart(s, u) BY <1>7, OthersApart
    <2> QED BY <2>1, ApartTraced
  <1>8. CASE u = Return(armed, -1)
    <2>1. Apart(armed, u) BY <1>5, <1>8, OthersApart
    <2> QED BY <1>6, <2>1, ApartTraced
  <1>9. CASE \E t \in CloseWithTimers(stopped, p) : u \in OpenDnsQuery(t, p)
    <2>1. PICK t \in CloseWithTimers(stopped, p) : u \in OpenDnsQuery(t, p) BY <1>9
    <2>2. stopped \in States /\ Holds(stopped, i, p) /\ Tidy(stopped, p)
      BY <1>5, HoldsKept DEF Tidy
    <2>3. Traced(t, L) BY <1>6, <2>1, <2>2, CloseWithTimersTraced
    <2>4. Within(stopped, t, i, p) BY <2>1, <2>2, CloseWithTimersWithin
    <2>5. t \in States /\ Holds(t, i, p) BY <2>2, <2>4, HoldsKept
    <2> QED BY <2>1, <2>3, <2>5, OpenDnsQueryTraced
  <1> QED BY <1>3, <1>7, <1>8, <1>9

\* ... and disabling the instance when it returns an error.
LEMMA ResolveOrDisableTraced ==
    ASSUME KernelWorks, NoStray,
           NEW L, NEW s \in States, NEW i \in Ifs, NEW p, Holds(s, i, p),
           Tidy(s, p), Traced(s, L), NEW name,
           NEW t \in ResolveEndpointName(s, i, name), NEW u \in DisableOnError(t, i)
    PROVE  Traced(u, L)
  <1>1. Traced(t, L) BY ResolveTraced
  <1>2. Within(s, t, i, p) BY ResolveWithin
  <1>3. t \in States /\ Holds(t, i, p) BY <1>2, HoldsKept
  <1> QED BY <1>1, <1>3, DisableOnErrorTraced

-----------------------------------------------------------------------------
(* NetModel queries.                                                       *)

\* nm_local_addr_cb.
LEMMA AddrReportedTraced ==
    ASSUME KernelWorks, NEW L, NEW s \in States, NEW i \in Ifs, NEW p, Holds(s, i, p),
           Traced(s, L), NEW a \in LocalAddrs \cup {None}, NEW u \in AddrReported(s, p, a)
    PROVE  Traced(u, L)
  <1> DEFINE stored == WithLocal(s, p, a)
  <1>1. s.heap[p].owner = i /\ i # None /\ p \in PrivIds
    BY ConstantsAssumption DEF Holds
  <1>2. s.heap[p] \in Priv BY <1>1 DEF States
  <1>3. CASE a = None
    <2>1. "Error" \in Statuses \ {"Enabled"} BY DEF Statuses
    <2>2. u \in Disable(s, i, "Error") BY <1>1, <1>3 DEF AddrReported
    <2> QED BY <2>1, <2>2, DisableTraced
  <1>4. CASE a # None
    <2>1. u = stored \/ (u \in Setup(stored, i) /\ s.heap[p].remote # None)
      BY <1>1, <1>4 DEF AddrReported, WithLocal
    <2>2. Wrote(s, stored, i, p, [s.heap[p] EXCEPT !.local = a]) /\ Apart(s, stored)
      BY <1>1, <1>4, FieldsWritten, FieldsApart
    <2> HIDE DEF stored
    <2>3. Within(s, stored, i, p) /\ stored.heap[p].remote = s.heap[p].remote
      BY <1>2, <2>2 DEF Wrote, Priv
    <2>4. stored \in States /\ Holds(stored, i, p) BY <2>3, HoldsKept
    <2>5. Traced(stored, L) BY <2>2, ApartTraced
    <2> QED BY <2>1, <2>3, <2>4, <2>5, SetupTraced
  <1> QED BY <1>3, <1>4

\* nm_open_local_addr_query.
LEMMA OpenAddrQueryTraced ==
    ASSUME KernelWorks, NEW L, NEW s \in States, NEW i \in Ifs, NEW p, Holds(s, i, p),
           Traced(s, L), NEW u \in OpenAddrQuery(s, i)
    PROVE  Traced(u, L)
  <1> DEFINE wan == s.conf[i].wan
             closed == AddrQuery(s, p, None, None)
             r == s.ptr[i]
             shut == AddrQuery(s, r, None, None)
  <1>1. p \in PrivIds /\ s.ptr[i] = p /\ p # None /\ ~Dangling(s, i)
    BY ConstantsAssumption DEF Holds, Dangling
  <1>2. Apart(s, closed) /\ Steady(s, closed, i, p) BY <1>1, QueriesApart, QueriesWritten
  <1>3. closed \in States /\ Holds(closed, i, p) BY <1>2, HoldsKept DEF Steady
  <1>4. Traced(closed, L)
    <2> HIDE DEF closed
    <2> QED BY <1>2, ApartTraced
  <1>5. wan \in AnyWAN \cup {None} BY DEF States, Conf
  <1>6. \/ u = Return(s, -1)
        \/ u = Faulted(s, "freed") /\ Dangling(s, i)
        \/ u = Return(shut, -1)
        \/ /\ wan # None /\ wan \notin BadWANs
           /\ \E a \in AddrResults(wan) : \E t \in AddrReported(shut, r, a) :
                u = Return(AddrQuery(t, r, wan, a), 0)
    BY DEF OpenAddrQuery, Maybe, AddrQuery
  <1>7. r = p /\ shut = closed BY <1>1
  <1>8. wan # None /\ wan \notin BadWANs => wan \in WANs BY <1>5 DEF AnyWAN
  <1> HIDE DEF closed, wan, r, shut
  <1>9. CASE u = Return(s, -1)
    <2>1. Apart(s, u) BY <1>9, OthersApart
    <2> QED BY <2>1, ApartTraced
  <1>10. CASE u = Return(closed, -1)
    <2>1. Apart(closed, u) BY <1>3, <1>10, OthersApart
    <2> QED BY <1>4, <2>1, ApartTraced
  <1>11. ASSUME wan \in WANs, NEW a \in AddrResults(wan), NEW t \in AddrReported(closed, p, a),
                u = Return(AddrQuery(t, p, wan, a), 0)
         PROVE  Traced(u, L)
    <2>1. a \in LocalAddrs \cup {None} BY DEF AddrResults
    <2>2. Traced(t, L) BY <1>3, <1>4, <2>1, AddrReportedTraced
    <2>3. t \in States BY <1>3, <2>1, AddrReportedSteady DEF Steady, Within, Around
    <2> DEFINE w == AddrQuery(t, p, wan, a)
    <2>4. Apart(t, w) BY <1>1, <1>11, <2>1, <2>3, QueriesApart
    <2>5. w \in States
      BY <1>1, <1>11, <2>1, <2>3, QueriesWritten DEF Steady, Within, Around
    <2>6. u = Return(w, 0) BY <1>11
    <2> HIDE DEF w
    <2>7. Apart(w, u) BY <2>5, <2>6, OthersApart
    <2> QED BY <2>2, <2>4, <2>7, ApartTraced
  <1> QED BY <1>1, <1>6, <1>7, <1>8, <1>9, <1>10, <1>11

\* nm_dhcp_cb.
LEMMA DhcpReportedTraced ==
    ASSUME KernelWorks, NoStray,
           NEW L, NEW s \in States, NEW i \in Ifs, NEW p, Holds(s, i, p),
           Tidy(s, p), Traced(s, L), NEW name \in Names \cup {None},
           NEW u \in DhcpReported(s, p, name)
    PROVE  Traced(u, L)
  <1>1. s.heap[p].owner = i /\ i # None BY ConstantsAssumption DEF Holds
  <1>2. \/ u = s \/ u = NameReported(s, i, name)
        \/ \E t \in ResolveEndpointName(s, i, name) : u \in DisableOnError(t, i)
    BY <1>1 DEF DhcpReported, NameReported
  <1>3. CASE u = s BY <1>3
  <1>4. CASE u = NameReported(s, i, name)
    <2>1. Apart(s, u) BY <1>4, OthersApart
    <2> QED BY <2>1, ApartTraced
  <1>5. CASE \E t \in ResolveEndpointName(s, i, name) : u \in DisableOnError(t, i)
    BY <1>5, ResolveOrDisableTraced
  <1> QED BY <1>2, <1>3, <1>4, <1>5

\* nm_open_dhcpv6_query.
LEMMA OpenDhcpQueryTraced ==
    ASSUME KernelWorks, NoStray,
           NEW L, NEW s \in States, NEW i \in Ifs, NEW p, Holds(s, i, p),
           Tidy(s, p), Traced(s, L), NEW u \in OpenDhcpQuery(s, i)
    PROVE  Traced(u, L)
  <1> DEFINE wan == s.conf[i].wan
             closed == DhcpQuery(s, p, None, None)
             r == s.ptr[i]
             shut == DhcpQuery(s, r, None, None)
  <1>1. p \in PrivIds /\ s.ptr[i] = p /\ p # None /\ ~Dangling(s, i)
    BY ConstantsAssumption DEF Holds, Dangling
  <1>2. /\ Apart(s, closed) /\ Within(s, closed, i, p)
        /\ closed.heap[p].dns = s.heap[p].dns
    BY <1>1, QueriesApart, QueriesWritten
  <1>3. closed \in States /\ Holds(closed, i, p) /\ Tidy(closed, p)
    BY <1>2, HoldsKept DEF Tidy
  <1>4. Traced(closed, L)
    <2> HIDE DEF closed
    <2> QED BY <1>2, ApartTraced
  <1>5. wan \in AnyWAN \cup {None} BY DEF States, Conf
  <1>6. \/ u = Return(s, -1)
        \/ u = Faulted(s, "freed") /\ Dangling(s, i)
        \/ u = Return(shut, -1)
        \/ /\ wan # None /\ wan \notin BadWANs
           /\ \E n \in Names \cup {None} : \E t \in DhcpReported(shut, r, n) :
                u = Return(DhcpQuery(t, r, wan, n), 0)
    BY OpenDhcpQueryCases
  <1>7. r = p /\ shut = closed BY <1>1
  <1>8. wan # None /\ wan \notin BadWANs => wan \in WANs BY <1>5 DEF AnyWAN
  <1> HIDE DEF closed, wan, r, shut
  <1>9. CASE u = Return(s, -1)
    <2>1. Apart(s, u) BY <1>9, OthersApart
    <2> QED BY <2>1, ApartTraced
  <1>10. CASE u = Return(closed, -1)
    <2>1. Apart(closed, u) BY <1>3, <1>10, OthersApart
    <2> QED BY <1>4, <2>1, ApartTraced
  <1>11. ASSUME wan \in WANs, NEW n \in Names \cup {None}, NEW t \in DhcpReported(closed, p, n),
                u = Return(DhcpQuery(t, p, wan, n), 0)
         PROVE  Traced(u, L)
    <2>1. Traced(t, L) BY <1>3, <1>4, DhcpReportedTraced
    <2>2. t \in States BY <1>3, DhcpReportedWithin DEF Within, Around
    <2> DEFINE w == DhcpQuery(t, p, wan, n)
    <2>3. Apart(t, w) BY <1>1, <1>11, <2>2, QueriesApart
    <2>4. w \in States BY <1>1, <1>11, <2>2, QueriesWritten DEF Within, Around
    <2>5. u = Return(w, 0) BY <1>11
    <2> HIDE DEF w
    <2>6. Apart(w, u) BY <2>4, <2>5, OthersApart
    <2> QED BY <2>1, <2>3, <2>6, ApartTraced
  <1> QED BY <1>1, <1>6, <1>7, <1>8, <1>9, <1>10, <1>11

-----------------------------------------------------------------------------
(* Collecting the parameters of the tunnel.                                *)

\* get_remote_endp_addr: Ready comes with a remote address.
LEMMA GetRemoteTraced ==
    ASSUME KernelWorks, NoStray,
           NEW L, NEW s \in States, NEW i \in Ifs, NEW p, Holds(s, i, p),
           Tidy(s, p), IsStatic(s, i) => Clean(s, p), Traced(s, L),
           NEW u \in GetRemoteEndpAddr(s, i)
    PROVE  Traced(u, L) /\ (u.rv = 0 => u.heap[p].remote # None)
  <1>1. p \in PrivIds /\ s.ptr[i] = p /\ p # None /\ ~Dangling(s, i)
    BY ConstantsAssumption DEF Holds, Dangling
  <1>2. ASSUME NEW t \in States, Traced(t, L), u = WaitingIfStarted(t)
        PROVE  Traced(u, L) /\ u.rv # 0
    <2>1. PICK n \in {-1, 1} : u = Return(t, n)
      BY <1>2 DEF WaitingIfStarted, Waiting, Error
    <2>2. Apart(t, u) BY <1>2, <2>1, OthersApart
    <2>3. u.rv = n BY <1>2, <2>1 DEF Return, States
    <2> QED BY <1>2, <2>2, <2>3, ApartTraced
  <1>3. CASE Method(s.conf[i]) = "STATIC_IPV6"
    <2> DEFINE addr == s.conf[i].addr
               taken == WithRemote(s, p, addr)
    <2>1. Clean(s, p) /\ u \in StaticRemoteAddr(s, i)
      BY <1>3 DEF GetRemoteEndpAddr, IsStatic
    <2>2. u = IF addr = None THEN Return(s, Error) ELSE Return(taken, Ready)
      BY <1>1, <2>1 DEF StaticRemoteAddr, Clean, WithRemote
    <2>3. addr \in Remotes \cup {None} BY DEF States, Conf, Remotes
    <2>4. Apart(s, taken) /\ Wrote(s, taken, i, p, [s.heap[p] EXCEPT !.remote = addr])
      BY <1>1, <2>3, FieldsApart, FieldsWritten
    <2>5. s.heap[p] \in Priv BY <1>1 DEF States
    <2> HIDE DEF taken, addr
    <2>6. taken \in States /\ taken.heap[p].remote = addr
      BY <2>4, <2>5 DEF Wrote, Within, Around, Priv
    <2>7. Traced(taken, L) BY <2>4, ApartTraced
    <2>8. CASE addr = None
      <3>1. u = Return(s, -1) BY <2>2, <2>8 DEF Error
      <3>2. Apart(s, u) BY <3>1, OthersApart
      <3>3. u.rv # 0 BY <3>1 DEF Return, States
      <3> QED BY <3>2, <3>3, ApartTraced
    <2>9. CASE addr # None
      <3>1. u = Return(taken, 0) BY <2>2, <2>9 DEF Ready
      <3>2. Apart(taken, u) BY <2>6, <3>1, OthersApart
      <3>3. u.heap = taken.heap BY <2>6, <3>1 DEF Return, States
      <3> QED BY <2>6, <2>7, <2>9, <3>2, <3>3, ApartTraced
    <2> QED BY <2>8, <2>9
  <1>4. CASE Method(s.conf[i]) = "STATIC_FQDN"
    <2>1. PICK t \in ResolveEndpointName(s, i, s.conf[i].name) : u = WaitingIfStarted(t)
      BY <1>4 DEF GetRemoteEndpAddr
    <2>2. t \in States BY <2>1, ResolveWithin DEF Within, Around
    <2>3. Traced(t, L) BY <2>1, ResolveTraced
    <2> QED BY <1>2, <2>1, <2>2, <2>3
  <1>5. CASE Method(s.conf[i]) = "DHCPV6"
    <2>1. PICK t \in OpenDhcpQuery(s, i) : u = WaitingIfStarted(t)
      BY <1>5 DEF GetRemoteEndpAddr
    <2>2. t \in States BY <2>1, OpenDhcpQueryWithin DEF Within, Around
    <2>3. Traced(t, L) BY <2>1, OpenDhcpQueryTraced
    <2> QED BY <1>2, <2>1, <2>2, <2>3
  <1> QED BY <1>3, <1>4, <1>5 DEF Method

\* What the callers do with the answer.
LEMMA UseRemoteTraced ==
    ASSUME KernelWorks, NEW L, NEW s \in States, NEW i \in Ifs, NEW p, Holds(s, i, p),
           Traced(s, L), s.rv = 0 => s.heap[p].remote # None, NEW u \in UseRemote(s, i)
    PROVE  Traced(u, L)
  <1>1. "Error" \in Statuses \ {"Enabled"} BY DEF Statuses
  <1>2. s.rv \in {-1, 0, 1} BY DEF States
  <1>3. CASE s.rv = 0
    <2>1. u \in Setup(s, i) BY <1>3 DEF UseRemote, Ready, Error, Waiting
    <2> QED BY <1>3, <2>1, SetupTraced
  <1>4. CASE s.rv = -1
    <2>1. u \in Disable(s, i, "Error") BY <1>4 DEF UseRemote, Ready, Error, Waiting
    <2> QED BY <1>1, <2>1, DisableTraced
  <1>5. CASE s.rv = 1
    <2>1. u = s BY <1>5 DEF UseRemote, Ready, Error, Waiting
    <2> QED BY <2>1
  <1> QED BY <1>2, <1>3, <1>4, <1>5

\* get_remote_endp_addr and what its callers do with its answer.
LEMMA GetAndUseTraced ==
    ASSUME KernelWorks, NoStray,
           NEW L, NEW s \in States, NEW i \in Ifs, NEW p, Holds(s, i, p),
           Tidy(s, p), IsStatic(s, i) => Clean(s, p), Traced(s, L),
           NEW t \in GetRemoteEndpAddr(s, i), NEW u \in UseRemote(t, i)
    PROVE  Traced(u, L)
  <1>1. Traced(t, L) /\ (t.rv = 0 => t.heap[p].remote # None) BY GetRemoteTraced
  <1>2. Within(s, t, i, p) BY GetRemoteWithin
  <1>3. t \in States /\ Holds(t, i, p) BY <1>2, HoldsKept
  <1> QED BY <1>1, <1>3, UseRemoteTraced

\* clear_remote_endpoint_properties.
LEMMA ClearRemoteTraced ==
    ASSUME KernelWorks, NEW L, NEW s \in States, NEW i \in Ifs, NEW p, Holds(s, i, p),
           Tidy(s, p), Traced(s, L), NEW u \in ClearRemote(s, i)
    PROVE  Traced(u, L)
  <1> DEFINE r == WithRemote(s, p, None)
             cleared == DhcpQuery(r, p, None, None)
  <1>1. p \in PrivIds /\ s.ptr[i] = p /\ p # None /\ ~Dangling(s, i)
    BY ConstantsAssumption DEF Holds, Dangling
  <1>2. PICK t \in CloseDnsQuery(cleared, p) : u = WithTimer(WithDns(t, p, "none"), p, "none")
    BY <1>1 DEF ClearRemote, WithRemote, DhcpQuery, WithTimer, WithDns
  <1>3. s.heap[p] \in Priv BY <1>1 DEF States
  <1>4. Wrote(s, r, i, p, [s.heap[p] EXCEPT !.remote = None]) /\ Apart(s, r)
    BY <1>1, FieldsWritten, FieldsApart
  <1> HIDE DEF r
  <1>5. Within(s, r, i, p) /\ r.heap[p].dns = s.heap[p].dns BY <1>3, <1>4 DEF Wrote, Priv
  <1>6. r \in States BY <1>5 DEF Within, Around
  <1>7. /\ Within(r, cleared, i, p) /\ cleared.heap[p].dns = r.heap[p].dns
        /\ Apart(r, cleared)
    BY <1>1, <1>6, QueriesWritten, QueriesApart
  <1> HIDE DEF cleared
  <1>8. Within(s, cleared, i, p) BY <1>1, <1>5, <1>7, WithinTrans
  <1>9. cleared \in States /\ Holds(cleared, i, p) /\ Tidy(cleared, p)
    BY <1>5, <1>7, <1>8, HoldsKept DEF Tidy
  <1>10. Traced(r, L) BY <1>4, ApartTraced
  <1>11. Traced(cleared, L) BY <1>7, <1>10, ApartTraced
  <1>12. Traced(t, L) BY <1>2, <1>9, <1>11, CloseDnsQueryTraced
  <1>13. t \in States BY <1>2, <1>9, CloseDnsQueryWithin DEF Within, Around
  <1> DEFINE d == WithDns(t, p, "none")
  <1>14. Apart(t, d) /\ d \in States
    BY <1>1, <1>13, FieldsApart, FieldsWritten DEF Wrote, Within, Around
  <1>15. u = WithTimer(d, p, "none") BY <1>2
  <1> HIDE DEF d
  <1>16. Traced(d, L) BY <1>12, <1>14, ApartTraced
  <1>17. Apart(d, u) BY <1>1, <1>14, <1>15, FieldsApart
  <1> QED BY <1>16, <1>17, ApartTraced

\* The common end of the two precedence handlers.
LEMMA RestartRemoteTraced ==
    ASSUME KernelWorks, NoStray,
           NEW L, NEW s \in States, NEW i \in Ifs, NEW p, Holds(s, i, p),
           Tidy(s, p), Traced(s, L), NEW u \in RestartRemote(s, i)
    PROVE  Traced(u, L)
  <1>1. PICK v \in ClearRemote(s, i) :
               \E t \in GetRemoteEndpAddr(v, i) : u \in UseRemote(t, i)
    BY DEF RestartRemote
  <1>2. PICK t \in GetRemoteEndpAddr(v, i) : u \in UseRemote(t, i) BY <1>1
  <1>3. Within(s, v, i, p) /\ Clean(v, p) BY ClearRemoteCleans
  <1>4. v \in States /\ Holds(v, i, p) /\ Tidy(v, p) BY <1>3, HoldsKept DEF Clean, Tidy
  <1>5. Traced(v, L) BY ClearRemoteTraced
  <1> QED BY <1>2, <1>3, <1>4, <1>5, GetAndUseTraced

-----------------------------------------------------------------------------
(* Private data that an instance gets, or gives up.                        *)

\* An instance that gets private data was not Enabled.
LEMMA AllocatedTraced ==
    ASSUME NEW L, NEW s \in States, NEW i \in Ifs, NEW p \in PrivIds, Traced(s, L),
           ~Enabled(s, i), \A j \in Ifs \ {i} : s.ptr[j] # p,
           NEW v, v = Allocated(s, i, p)
    PROVE  Traced(v, L)
  <1>1. v.tunnel = s.tunnel BY DEF Allocated, States
  <1>2. /\ v.conf = s.conf /\ v.oper = s.oper
        /\ \A j \in Ifs \ {i} : v.ptr[j] = s.ptr[j]
        /\ \A q \in PrivIds \ {p} : v.heap[q] = s.heap[q]
    BY AllocatedFields
  <1>3. \A j \in Ifs : Enabled(v, j) <=> Enabled(s, j) BY <1>2 DEF Enabled
  <1>4. ASSUME NEW j \in Ifs, Enabled(v, j)
        PROVE  v.ptr[j] \in PrivIds /\ v.heap[v.ptr[j]].local # None
    <2>1. Enabled(s, j) /\ j # i BY <1>3, <1>4
    <2>2. s.ptr[j] \in PrivIds \ {p} /\ s.heap[s.ptr[j]].local # None
      BY <2>1 DEF Traced
    <2> QED BY <1>2, <2>1, <2>2
  <1> QED BY <1>1, <1>2, <1>3, <1>4 DEF Traced

\* enable_interface.
LEMMA EnableInterfaceTraced ==
    ASSUME KernelWorks, NoStray, NEW L, NEW s \in States, NEW i \in Ifs, s.fault = None,
           ~Enabled(s, i), Traced(s, L), NEW u \in EnableInterface(s, i)
    PROVE  Traced(u, L)
  <1>1. PICK v \in AllocatePriv(s, i) :
               \E t \in GetTunnelParameters(v, i) : u \in UseRemote(t, i)
    BY DEF EnableInterface
  <1>2. PICK t \in GetTunnelParameters(v, i) : u \in UseRemote(t, i) BY <1>1
  <1>3. PICK p \in PrivIds : /\ \A j \in Ifs \ {i} : s.ptr[j] # p
                             /\ v = Allocated(s, i, p)
    BY <1>1 DEF AllocatePriv, Allocated
  <1>4. v \in States /\ Holds(v, i, p) /\ Clean(v, p)
    <2>1. /\ v \in States /\ v.fault = s.fault /\ v.ptr[i] = p
          /\ v.heap[p].alive /\ v.heap[p].owner = i /\ Clean(v, p)
      BY <1>3, AllocatedFields
    <2> QED BY <2>1 DEF Holds
  <1>5. Traced(v, L) BY <1>3, AllocatedTraced
  <1>6. PICK w \in OpenAddrQuery(v, i) :
               IF w.rv # 0 THEN t = w ELSE t \in GetRemoteEndpAddr(w, i)
    BY <1>2 DEF GetTunnelParameters
  <1>7. Steady(v, w, i, p) BY <1>4, OpenAddrQuerySteady
  <1>8. w \in States /\ Holds(w, i, p) /\ Clean(w, p) /\ Tidy(w, p)
    BY <1>4, <1>7, HoldsKept DEF Steady, SameRemote, Clean, Tidy
  <1>9. Traced(w, L) BY <1>4, <1>5, OpenAddrQueryTraced
  <1>10. CASE w.rv = 0
    <2>1. t \in GetRemoteEndpAddr(w, i) BY <1>6, <1>10
    <2> QED BY <1>2, <1>8, <1>9, <2>1, GetAndUseTraced
  <1>11. CASE w.rv # 0
    <2>1. u \in UseRemote(w, i) BY <1>2, <1>6, <1>11
    <2> QED BY <1>8, <1>9, <1>11, <2>1, UseRemoteTraced
  <1> QED BY <1>10, <1>11

\* An instance that gives up private data is not Enabled any more.
LEMMA FreedTraced ==
    ASSUME NEW L, NEW s \in States, NEW i \in Ifs, NEW p \in PrivIds, Traced(s, L),
           ~Enabled(s, i), \A j \in Ifs \ {i} : Enabled(s, j) => s.ptr[j] # p,
           NEW u, u = Freed(s, p)
    PROVE  Traced(u, L)
  <1>1. /\ u.tunnel = s.tunnel /\ u.conf = s.conf /\ u.oper = s.oper /\ u.ptr = s.ptr
        /\ u.heap = [s.heap EXCEPT ![p] = BlankPriv]
    BY DEF Freed, States
  <1>2. \A q \in PrivIds \ {p} : u.heap[q] = s.heap[q] BY <1>1 DEF States
  <1>3. \A j \in Ifs : Enabled(u, j) <=> Enabled(s, j) BY <1>1 DEF Enabled
  <1>4. ASSUME NEW j \in Ifs, Enabled(u, j)
        PROVE  u.ptr[j] \in PrivIds /\ u.heap[u.ptr[j]].local # None
    <2>1. Enabled(s, j) /\ s.ptr[j] # p BY <1>3, <1>4
    <2>2. s.ptr[j] \in PrivIds \ {p} /\ s.heap[s.ptr[j]].local # None
      BY <2>1 DEF Traced
    <2> QED BY <1>1, <1>2, <2>2
  <1> QED BY <1>1, <1>3, <1>4 DEF Traced

\* cleanup_private_data.
LEMMA CleanupPrivTraced ==
    ASSUME KernelWorks, NEW L, NEW s \in States, NEW i \in Ifs, NEW p, Holds(s, i, p),
           Tidy(s, p), Traced(s, L), ~Enabled(s, i),
           \A j \in Ifs \ {i} : Enabled(s, j) => s.ptr[j] # p,
           NEW u \in CleanupPriv(s, i)
    PROVE  Traced(u, L)
  <1> DEFINE r == AddrQuery(s, p, None, None)
             closed == DhcpQuery(r, p, None, None)
  <1>1. p \in PrivIds /\ s.ptr[i] = p /\ p # None /\ ~Dangling(s, i)
    BY ConstantsAssumption DEF Holds, Dangling
  <1>2. PICK t \in CloseDnsQuery(closed, p) : u = Freed(t, p)
    BY <1>1 DEF CleanupPriv, AddrQuery, DhcpQuery, Freed
  <1>3. Steady(s, r, i, p) /\ Apart(s, r) BY <1>1, QueriesWritten, QueriesApart
  <1> HIDE DEF r
  <1>4. r \in States /\ Traced(r, L) BY <1>3, ApartTraced DEF Steady, Within, Around
  <1>5. /\ Within(r, closed, i, p) /\ closed.heap[p].dns = r.heap[p].dns
        /\ Apart(r, closed)
    BY <1>1, <1>4, QueriesWritten, QueriesApart
  <1> HIDE DEF closed
  <1>6. Traced(closed, L) BY <1>4, <1>5, ApartTraced
  <1>7. Within(s, closed, i, p) BY <1>1, <1>3, <1>5, WithinTrans DEF Steady
  <1>8. closed \in States /\ Holds(closed, i, p) /\ Tidy(closed, p)
    BY <1>3, <1>5, <1>7, HoldsKept DEF Tidy, Steady, SameRemote
  <1>9. Within(closed, t, i, p) /\ (Enabled(t, i) => Enabled(closed, i))
    BY <1>2, <1>8, CloseDnsQueryWithin
  <1>10. Traced(t, L) BY <1>2, <1>6, <1>8, CloseDnsQueryTraced
  <1>11. closed.oper = s.oper BY <1>3, <1>5 DEF Apart
  <1>12. t \in States /\ ~Enabled(t, i) BY <1>9, <1>11 DEF Within, Around, Enabled
  <1>13. \A j \in Ifs \ {i} : Enabled(t, j) => t.ptr[j] # p
    <2>1. /\ \A j \in Ifs \ {i} : t.oper[j] = closed.oper[j]
          /\ t.ptr = closed.ptr /\ closed.ptr = s.ptr
      BY <1>7, <1>9 DEF Within, Around
    <2> QED BY <1>11, <2>1 DEF Enabled
  <1> QED BY <1>1, <1>2, <1>10, <1>12, <1>13, FreedTraced

\* The two halves of _toggle_dslite and _toggle_interface.
LEMMA ToggleTraced ==
    ASSUME KernelWorks, NoStray,
           NEW L, NEW s, Base(s), NEW i \in Ifs, NEW enable \in BOOLEAN,
           On(s, i) <=> ~enable, Traced(s, L), NEW u \in Toggle(s, i, enable)
    PROVE  Traced(u, L)
  <1>1. s \in States /\ s.fault = None BY DEF Base
  <1>2. CASE enable
    <2>1. u \in EnableInterface(s, i) BY <1>2 DEF Toggle
    <2>2. ~Enabled(s, i) BY <1>2 DEF Base, Owned, Owner
    <2> QED BY <1>1, <2>1, <2>2, EnableInterfaceTraced
  <1>3. CASE ~enable
    <2> DEFINE p == s.ptr[i]
    <2>1. Holds(s, i, p) BY <1>3, OnHolds
    <2> HIDE DEF p
    <2>2. Tidy(s, p) /\ p \in PrivIds /\ \A j \in Ifs \ {i} : On(s, j) => s.ptr[j] # p
      BY <2>1, HoldsOn
    <2>3. PICK t \in Disable(s, i, "Disabled") : u \in CleanupPriv(t, i)
      BY <1>3 DEF Toggle
    <2>4. "Disabled" \in Statuses \ {"Enabled"} BY DEF Statuses
    <2>5. Steady(s, t, i, p) /\ ~Enabled(t, i)
      BY <1>1, <2>1, <2>3, <2>4, DisableSteady, DisableOnly
    <2>6. t \in States /\ Holds(t, i, p) /\ Tidy(t, p)
      BY <2>1, <2>2, <2>5, HoldsKept DEF Steady, SameRemote, Tidy
    <2>7. Traced(t, L) BY <1>1, <2>1, <2>3, <2>4, DisableTraced
    <2>8. ASSUME NEW j \in Ifs \ {i}, Enabled(t, j) PROVE t.ptr[j] # p
      <3>1. Enabled(s, j) /\ t.ptr = s.ptr
        BY <2>5, <2>8 DEF Steady, Within, Around, Enabled
      <3>2. On(s, j) BY <3>1 DEF Base, Owned, Owner
      <3> QED BY <2>2, <3>1, <3>2
    <2> QED BY <2>3, <2>5, <2>6, <2>7, <2>8, CleanupPrivTraced
  <1> QED BY <1>2, <1>3

-----------------------------------------------------------------------------
(* The handlers of the data model's events.                                *)

\* No event of WANInterface is queued.
NoWan(s) == \A j \in Ifs : ~Awaits(s, j, "wan")

\* The state in which the handler of a parameter runs: whom it is for has private
\* data if it listens, or if its Enable is what has changed.
LEMMA HandlerReady ==
    ASSUME NEW s, Calm(s), s.queue # <<>>, s.todo = {}, NEW h, h = Head(s.queue),
           h.kind = "setting", NEW t, t = Popped(s), NEW x \in Params, h.changed = {x}
    PROVE  /\ Base(t) /\ h.obj \in Ifs /\ Awaits(s, h.obj, x)
           /\ h.enable \in BOOLEAN
           /\ x = "enable" /\ t.dslEnable => (On(t, h.obj) <=> ~h.enable)
           /\ x # "enable" => (On(t, h.obj) <=> Listening(t, h.obj))
           /\ x = "addr" /\ On(t, h.obj) /\ IsStatic(t, h.obj) => Clean(t, t.ptr[h.obj])
  <1> DEFINE i == h.obj
  <1>1. /\ Base(t) /\ EventCalm(t, h) /\ h \in Event
        /\ t.todo = {} /\ t.present \subseteq Ifs
        /\ t.dslEnable = s.dslEnable /\ t.conf = s.conf /\ t.ptr = s.ptr
        /\ Plain(t)
        /\ \A j \in Ifs :
             /\ On(t, j) <=> On(s, j)
             /\ ~Tells(h, j, "enable") => LifetimeAt(t, j)
    BY PopKeeps
  <1>2. i \in Ifs /\ h.enable \in BOOLEAN /\ (x = "enable" => h.enable = t.conf[i].enable)
    BY <1>1 DEF EventCalm, Event
  <1>3. s \in States /\ QueueCalm(s) /\ LifetimeAt(s, i) /\ StaticAt(s, i)
    BY <1>2 DEF Calm, Base, At
  <1>4. t.heap = s.heap BY <1>3, PoppedFields
  <1>5. Awaits(s, i, x) BY <1>3, PoppedQueue
  <1>6. \A y : y # "name" => ~Awaits(t, i, y) BY <1>1, PlainAwaits
  <1>7. \A y : y # x /\ y # "name" => ~Awaits(s, i, y) BY <1>3, <1>6, PoppedQueue
  <1>8. ASSUME x = "enable", t.dslEnable PROVE On(t, i) <=> ~h.enable
    <2>1. ~DslAwaits(s)
      <3>1. ~DslAwaits(t) BY <1>1, PlainAwaits
      <3> QED BY <1>3, <3>1, PoppedQueue
    <2>2. s.todo = {} /\ s.dslEnable /\ Awaits(s, i, "enable") BY <1>1, <1>5, <1>8
    <2>3. On(s, i) <=> ~s.conf[i].enable
      BY <1>3, <2>1, <2>2 DEF LifetimeAt, DslSeen, EnSeen
    <2> QED BY <1>1, <1>2, <1>8, <2>3
  <1>9. ASSUME x # "enable" PROVE On(t, i) <=> Listening(t, i)
    <2>1. ~Tells(h, i, "enable") BY <1>9 DEF Tells
    <2>2. LifetimeAt(t, i) BY <1>1, <1>2, <2>1
    <2> QED BY <1>1, <2>2, PlainLifetime DEF Listening
  <1>10. ASSUME x = "addr", On(t, i), IsStatic(t, i) PROVE Clean(t, t.ptr[i])
    <2>1. ~Awaits(s, i, "prec") /\ ~Awaits(s, i, "type") BY <1>7, <1>10
    <2>2. On(s, i) /\ IsStatic(s, i) BY <1>1, <1>2, <1>10 DEF IsStatic
    <2>3. Clean(s, s.ptr[i]) BY <1>3, <2>1, <2>2 DEF StaticAt
    <2> QED BY <1>1, <1>4, <2>3 DEF Clean
  <1> QED BY <1>1, <1>2, <1>5, <1>8, <1>9, <1>10

\* Each handler but that of WANInterface.
LEMMA SettingTraced ==
    ASSUME KernelWorks, NoStray, NEW L, NEW s, Calm(s), NoWan(s), Traced(s, L),
           s.queue # <<>>, s.todo = {}, NEW h, h = Head(s.queue), h.kind = "setting",
           NEW t, t = Popped(s), NEW u \in SettingChanged(t, h)
    PROVE  Traced(u, L)
  <1> DEFINE i == h.obj
  <1>1. s \in States /\ QueueCalm(s) BY DEF Calm, Base
  <1>2. PICK x \in Params : h.changed = {x}
    BY <1>1, PoppedQueue DEF EventCalm
  <1>3. /\ Base(t) /\ i \in Ifs /\ Awaits(s, i, x)
        /\ h.enable \in BOOLEAN
        /\ x = "enable" /\ t.dslEnable => (On(t, i) <=> ~h.enable)
        /\ x # "enable" => (On(t, i) <=> Listening(t, i))
        /\ x = "addr" /\ On(t, i) /\ IsStatic(t, i) => Clean(t, t.ptr[i])
    BY <1>2, HandlerReady
  <1>4. /\ x = "enable" => u \in ToggleInterface(t, i, h.enable)
        /\ x = "addr" => u \in EndpointAddressChanged(t, i)
        /\ x = "prec" => u \in AssignmentPrecedenceChanged(t, i)
        /\ x = "name" => u \in EndpointNameChanged(t, i, h.name)
        /\ x = "type" => u \in AddressTypePrecedenceChanged(t, i)
    BY <1>2, OneHandler
  <1> HIDE DEF i
  <1>5. x # "wan" BY <1>3 DEF NoWan
  <1>6. Apart(s, t) BY <1>1, OthersApart
  <1>7. Traced(t, L) BY <1>6, ApartTraced
  <1>8. t \in States BY <1>3 DEF Base
  <1> DEFINE p == t.ptr[i]
  <1>9. On(t, i) => Holds(t, i, p) /\ Tidy(t, p) BY <1>3, OnHolds, HoldsOn
  <1> HIDE DEF p
  <1>10. CASE x = "enable"
    <2>1. CASE t.dslEnable
      <3>1. u \in Toggle(t, i, h.enable) BY <1>4, <1>10, <2>1 DEF ToggleInterface
      <3> QED BY <1>3, <1>7, <1>10, <2>1, <3>1, ToggleTraced
    <2>2. CASE ~t.dslEnable
      <3>1. u = t BY <1>4, <1>10, <2>2 DEF ToggleInterface
      <3> QED BY <1>7, <3>1
    <2> QED BY <2>1, <2>2
  <1>11. CASE x = "prec"
    <2> DEFINE m == MarkEndpointName(t, i)
    <2>1. /\ m \in States /\ m.fault = t.fault /\ m.ptr = t.ptr /\ m.heap = t.heap
          /\ m.conf = t.conf /\ m.dslEnable = t.dslEnable
      BY <1>3, <1>8, MarkFields
    <2>2. Apart(t, m) BY <1>8, OthersApart
    <2>3. u \in IF Listening(m, i) THEN RestartRemote(m, i) ELSE {m}
      BY <1>4, <1>11 DEF AssignmentPrecedenceChanged
    <2> HIDE DEF m
    <2>4. Traced(m, L) BY <1>7, <2>2, ApartTraced
    <2>5. CASE Listening(m, i)
      <3>1. Listening(t, i) BY <2>1, <2>5 DEF Listening
      <3>2. Holds(m, i, p) /\ Tidy(m, p) BY <1>3, <1>9, <1>11, <2>1, <3>1 DEF Holds, Tidy
      <3> QED BY <1>3, <2>1, <2>3, <2>4, <2>5, <3>2, RestartRemoteTraced
    <2>6. CASE ~Listening(m, i) BY <2>3, <2>4, <2>6
    <2> QED BY <2>5, <2>6
  <1>12. CASE x \in {"addr", "name", "type"} /\ ~Listening(t, i)
    <2>1. u = t
      BY <1>4, <1>12 DEF EndpointAddressChanged, EndpointNameChanged,
         AddressTypePrecedenceChanged
    <2> QED BY <1>7, <2>1
  <1>13. CASE x \in {"addr", "name", "type"} /\ Listening(t, i)
    <2>1. On(t, i) /\ Holds(t, i, p) /\ Tidy(t, p) BY <1>3, <1>9, <1>13
    <2>2. CASE x = "addr"
      <3>1. u = t \/ (IsStatic(t, i) /\ \E v \in GetRemoteEndpAddr(t, i) : u \in UseRemote(v, i))
        BY <1>4, <2>2 DEF EndpointAddressChanged, IsStatic
      <3>2. CASE u = t BY <1>7, <3>2
      <3>3. CASE IsStatic(t, i) /\ \E v \in GetRemoteEndpAddr(t, i) : u \in UseRemote(v, i)
        <4>1. Clean(t, p) BY <1>3, <2>1, <2>2, <3>3 DEF p
        <4>2. PICK v \in GetRemoteEndpAddr(t, i) : u \in UseRemote(v, i) BY <3>3
        <4> QED BY <1>3, <1>7, <1>8, <2>1, <4>1, <4>2, GetAndUseTraced
      <3> QED BY <3>1, <3>2, <3>3
    <2>3. CASE x = "name"
      <3>1. u = t \/ \E v \in ResolveEndpointName(t, i, h.name) : u \in DisableOnError(v, i)
        BY <1>4, <2>3 DEF EndpointNameChanged
      <3>2. CASE u = t BY <1>7, <3>2
      <3>3. CASE \E v \in ResolveEndpointName(t, i, h.name) : u \in DisableOnError(v, i)
        <4>1. PICK v \in ResolveEndpointName(t, i, h.name) : u \in DisableOnError(v, i)
          BY <3>3
        <4> QED BY <1>3, <1>7, <1>8, <2>1, <4>1, ResolveOrDisableTraced
      <3> QED BY <3>1, <3>2, <3>3
    <2>4. CASE x = "type"
      <3>1. u = t \/ u \in RestartRemote(t, i)
        BY <1>4, <2>4 DEF AddressTypePrecedenceChanged
      <3>2. CASE u = t BY <1>7, <3>2
      <3>3. CASE u \in RestartRemote(t, i)
        BY <1>3, <1>7, <1>8, <2>1, <3>3, RestartRemoteTraced
      <3> QED BY <3>1, <3>2, <3>3
    <2> QED BY <1>13, <2>2, <2>3, <2>4
  <1> QED BY <1>5, <1>10, <1>11, <1>12, <1>13 DEF Params

-----------------------------------------------------------------------------
(* The actions of the plug-in.                                             *)

\* The kernel's tunnel is a field of the state, before a step and after it.
LEMMA TunnelFields == State.tunnel = tunnel /\ State'.tunnel = tunnel'
  BY DEF State

\* A handler or a callback that ends in a calm state.
LEMMA BecomeTraced ==
    ASSUME IInv', NEW u, Calm(u), NEW L, Traced(u, L), Become(u) PROVE Traced(State', L)
  <1>1. u.fault = None BY DEF Calm, Base
  <1>2. /\ conf' = u.conf /\ oper' = u.oper /\ ptr' = u.ptr /\ heap' = u.heap
        /\ tunnel' = u.tunnel
    BY <1>1 DEF Become
  <1> DEFINE t == State'
  <1>3. /\ t.conf = u.conf /\ t.oper = u.oper /\ t.ptr = u.ptr /\ t.heap = u.heap
        /\ t.tunnel = u.tunnel
    BY <1>2, NextFields, TunnelFields
  <1> HIDE DEF t
  <1>4. Traced(t, L) BY <1>3 DEF Traced, Enabled
  <1> QED BY <1>4 DEF t

\* The handlers of the events of parameters ...
LEMMA HandleSettingTraced ==
    ASSUME KernelWorks, NoStray, CalmInv, IInv', NoWan(State), NEW L, Traced(State, L),
           HandleSetting
    PROVE  Traced(State', L)
  <1> DEFINE s == State
             h == Head(queue)
             t == Popped(s)
  <1>1. s \in States /\ Calm(s) /\ NoWan(s) /\ Traced(s, L) BY Before
  <1>2. /\ s.queue # <<>> /\ s.todo = {} /\ h = Head(s.queue) /\ h.kind = "setting"
    BY StateFields DEF HandleSetting, Running
  <1>3. h.obj # None
    <2>1. EventCalm(s, h) /\ s.present \subseteq Ifs
      BY <1>1, <1>2, PoppedQueue DEF Calm, Base, States
    <2> QED BY <1>2, <2>1, ConstantsAssumption DEF EventCalm
  <1>4. t = [State EXCEPT !.queue = Tail(queue)] BY StateFields DEF Popped
  <1>5. PICK u \in SettingChanged(t, h) : Become(u)
    BY <1>3, <1>4 DEF HandleSetting
  <1> HIDE DEF s, h, t
  <1>6. Calm(u) BY <1>1, <1>2, <1>5, SettingCalm DEF t
  <1>7. Traced(u, L) BY <1>1, <1>2, <1>5, SettingTraced DEF t
  <1> QED BY <1>5, <1>6, <1>7, BecomeTraced

\* ... and _toggle_dslite, when it visits an instance.
LEMMA ToggleDsliteTraced ==
    ASSUME KernelWorks, NoStray, CalmInv, IInv', NEW L, Traced(State, L), ToggleDslite
    PROVE  Traced(State', L)
  <1> DEFINE s == State
  <1>1. Calm(s) /\ Traced(s, L) BY Before
  <1>2. PICK i \in s.todo :
          \E u \in Toggle([s EXCEPT !.todo = s.todo \ {i}], i, s.todoEnable) : Become(u)
    BY StateFields DEF ToggleDslite
  <1> DEFINE t == [s EXCEPT !.todo = s.todo \ {i}]
  <1>3. PICK u \in Toggle(t, i, s.todoEnable) : Become(u) BY <1>2
  <1> HIDE DEF s, t
  <1>4. Calm(u) BY <1>1, <1>2, <1>3, VisitCalm DEF t
  <1>5. /\ s \in States /\ QueueCalm(s) /\ Owned(s) /\ Visiting(s) /\ s.fault = None
        /\ \A j \in Ifs : At(s, j)
    BY <1>1 DEF Calm, Base
  <1>6. /\ t \in States /\ t.fault = s.fault
        /\ t.dslEnable = s.dslEnable /\ t.present = s.present /\ t.conf = s.conf
        /\ t.oper = s.oper /\ t.ptr = s.ptr /\ t.heap = s.heap /\ t.queue = s.queue
        /\ t.todoEnable = s.todoEnable /\ t.todo = s.todo \ {i} /\ t.tunnel = s.tunnel
    BY <1>5 DEF States, t
  <1>7. /\ i \in Ifs /\ s.conf[i].enable
        /\ s.todoEnable = s.dslEnable /\ Plain(s) /\ s.todoEnable \in BOOLEAN
    BY <1>2, <1>5 DEF Visiting, States
  <1>8. QueueCalm(t) /\ SameAwaits(s, t) BY <1>5, <1>6, SameQueue
  <1>9. \A j : On(t, j) <=> On(s, j) BY <1>6 DEF On
  <1>10. Owned(t) BY <1>5, <1>6, <1>9 DEF Owned, BlockOwned, Owner, Tidy, Enabled
  <1>11. Visiting(t) BY <1>5, <1>6, <1>8 DEF Visiting, SameAwaits
  <1>12. Base(t) BY <1>5, <1>6, <1>8, <1>10, <1>11 DEF Base
  <1>13. On(t, i) <=> ~s.todoEnable
    <2>1. LifetimeAt(s, i) BY <1>5, <1>7 DEF At
    <2>2. ~Awaits(s, i, "enable") BY <1>7, PlainAwaits
    <2> QED BY <1>2, <1>7, <1>9, <2>1, <2>2 DEF LifetimeAt, DslSeen, EnSeen
  <1>14. Traced(t, L) BY <1>1, <1>6 DEF Traced, Enabled
  <1>15. Traced(u, L) BY <1>3, <1>7, <1>12, <1>13, <1>14, ToggleTraced
  <1> QED BY <1>3, <1>4, <1>15, BecomeTraced

\* The callbacks find the private data they are for.
LEMMA TimerFiresTraced ==
    ASSUME KernelWorks, NoStray, CalmInv, IInv', NEW L, Traced(State, L),
           NEW p \in PrivIds, TimerFires(p)
    PROVE  Traced(State', L)
  <1> DEFINE s == State
             i == s.heap[p].owner
             t == WithTimer(s, p, "off")
  <1>1. Calm(s) /\ s.heap[p].timer = "armed" /\ Traced(s, L)
    BY Before, StateFields DEF TimerFires
  <1>2. PICK u \in IF i = None THEN {Faulted(t, "freed")}
                   ELSE ResolveEndpointName(t, i, t.conf[i].name) : Become(u)
    BY StateFields DEF TimerFires, WithTimer
  <1> HIDE DEF s, i, t
  <1>3. Base(s) /\ s \in States BY <1>1 DEF Calm, Base
  <1>4. i \in Ifs /\ Holds(s, i, p) BY <1>1, <1>3, UsedHolds DEF i
  <1>5. u \in ResolveEndpointName(t, i, t.conf[i].name)
    BY <1>2, <1>4, ConstantsAssumption
  <1>6. Calm(u) BY <1>1, <1>5, TimerCalm DEF i, t
  <1>7. Wrote(s, t, i, p, [s.heap[p] EXCEPT !.timer = "off"]) /\ Apart(s, t)
    BY <1>3, <1>4, FieldsWritten, FieldsApart DEF t
  <1>8. Within(s, t, i, p) /\ t.heap[p].dns = s.heap[p].dns
    BY <1>3, <1>7 DEF Wrote, States, Priv
  <1>9. t \in States /\ Holds(t, i, p) /\ Tidy(t, p)
    BY <1>3, <1>4, <1>8, HoldsKept, HoldsOn DEF Tidy
  <1>10. Traced(t, L) BY <1>1, <1>7, ApartTraced
  <1>11. Traced(u, L) BY <1>4, <1>5, <1>9, <1>10, ResolveTraced
  <1> QED BY <1>2, <1>6, <1>11, BecomeTraced

\* remote_endpoint_addr_query_cb.
LEMMA DnsAnswersTraced ==
    ASSUME KernelWorks, CalmInv, IInv', NEW L, Traced(State, L),
           NEW p \in PrivIds, NEW a \in DnsAddrs \cup {None}, DnsAnswers(p, a)
    PROVE  Traced(State', L)
  <1> DEFINE s == State
             i == s.heap[p].owner
             t == WithDns(s, p, "idle")
  <1>1. Calm(s) /\ s.heap[p].dns = "pending" /\ Traced(s, L)
    BY Before, StateFields DEF DnsAnswers
  <1>2. PICK u \in QueryAnswered(t, p, a) : Become(u) BY DEF DnsAnswers, WithDns
  <1> HIDE DEF s, i, t
  <1>3. Base(s) /\ s \in States BY <1>1 DEF Calm, Base
  <1>4. i \in Ifs /\ Holds(s, i, p) BY <1>1, <1>3, UsedHolds DEF i
  <1>5. Calm(u) BY <1>1, <1>2, AnswerCalm DEF t
  <1>6. Wrote(s, t, i, p, [s.heap[p] EXCEPT !.dns = "idle"]) /\ Apart(s, t)
    BY <1>3, <1>4, FieldsWritten, FieldsApart DEF t
  <1>7. t \in States /\ Holds(t, i, p) BY <1>4, <1>6, HoldsKept DEF Wrote
  <1>8. Traced(t, L) BY <1>1, <1>6, ApartTraced
  <1>9. Traced(u, L) BY <1>2, <1>4, <1>7, <1>8, QueryAnsweredTraced
  <1> QED BY <1>2, <1>5, <1>9, BecomeTraced

\* nm_local_addr_cb.
LEMMA AddrChangesTraced ==
    ASSUME KernelWorks, CalmInv, IInv', NEW L, Traced(State, L),
           NEW p \in PrivIds, NEW a \in LocalAddrs \cup {None}, AddrChanges(p, a)
    PROVE  Traced(State', L)
  <1> DEFINE s == State
             i == s.heap[p].owner
             t == WithAddrRes(s, p, a)
  <1>1. Calm(s) /\ s.heap[p].addrQ # None /\ Traced(s, L)
    BY Before, StateFields DEF AddrChanges
  <1>2. PICK u \in AddrReported(t, p, a) : Become(u) BY DEF AddrChanges, WithAddrRes
  <1> HIDE DEF s, i, t
  <1>3. Base(s) /\ s \in States BY <1>1 DEF Calm, Base
  <1>4. i \in Ifs /\ Holds(s, i, p) BY <1>1, <1>3, UsedHolds DEF i
  <1>5. Calm(u) BY <1>1, <1>2, AddrCalm DEF t
  <1>6. Wrote(s, t, i, p, [s.heap[p] EXCEPT !.addrRes = a]) /\ Apart(s, t)
    BY <1>3, <1>4, FieldsWritten, FieldsApart DEF t
  <1>7. t \in States /\ Holds(t, i, p) BY <1>4, <1>6, HoldsKept DEF Wrote
  <1>8. Traced(t, L) BY <1>1, <1>6, ApartTraced
  <1>9. Traced(u, L) BY <1>2, <1>4, <1>7, <1>8, AddrReportedTraced
  <1> QED BY <1>2, <1>5, <1>9, BecomeTraced

\* nm_dhcp_cb.
LEMMA DhcpChangesTraced ==
    ASSUME KernelWorks, NoStray, CalmInv, IInv', NEW L, Traced(State, L),
           NEW p \in PrivIds, NEW name \in Names \cup {None}, DhcpChanges(p, name)
    PROVE  Traced(State', L)
  <1> DEFINE s == State
             i == s.heap[p].owner
             t == WithDhcpRes(s, p, name)
  <1>1. Calm(s) /\ s.heap[p].dhcpQ # None /\ Traced(s, L)
    BY Before, StateFields DEF DhcpChanges
  <1>2. PICK u \in DhcpReported(t, p, name) : Become(u) BY DEF DhcpChanges, WithDhcpRes
  <1> HIDE DEF s, i, t
  <1>3. Base(s) /\ s \in States BY <1>1 DEF Calm, Base
  <1>4. i \in Ifs /\ Holds(s, i, p) BY <1>1, <1>3, UsedHolds DEF i
  <1>5. Calm(u) BY <1>1, <1>2, DhcpCalm DEF t
  <1>6. Wrote(s, t, i, p, [s.heap[p] EXCEPT !.dhcpRes = name]) /\ Apart(s, t)
    BY <1>3, <1>4, FieldsWritten, FieldsApart DEF t
  <1>7. Within(s, t, i, p) /\ t.heap[p].dns = s.heap[p].dns
    BY <1>3, <1>6 DEF Wrote, States, Priv
  <1>8. t \in States /\ Holds(t, i, p) /\ Tidy(t, p)
    BY <1>3, <1>4, <1>7, HoldsKept, HoldsOn DEF Tidy
  <1>9. Traced(t, L) BY <1>1, <1>6, ApartTraced
  <1>10. Traced(u, L) BY <1>2, <1>4, <1>8, <1>9, DhcpReportedTraced
  <1> QED BY <1>2, <1>5, <1>10, BecomeTraced

-----------------------------------------------------------------------------
(* A step of the process.                                                  *)

\* An action that changes nothing that matters for the tunnel.
LEMMA KeptTraced ==
    ASSUME IInv', NEW L, Traced(State, L), tunnel' = tunnel, oper' = oper, ptr' = ptr,
           \A j \in Ifs : conf'[j].wan = conf[j].wan,
           \A q \in PrivIds : heap'[q].local = heap[q].local
    PROVE  Traced(State', L)
  <1> DEFINE s == State
             t == State'
  <1>1. /\ t.tunnel = s.tunnel /\ t.oper = s.oper /\ t.ptr = s.ptr
        /\ t.conf = conf' /\ s.conf = conf /\ t.heap = heap' /\ s.heap = heap
    BY StateFields, NextFields, TunnelFields
  <1>2. Traced(s, L) OBVIOUS
  <1> HIDE DEF s, t
  <1>3. Apart(s, t) BY <1>1 DEF Apart
  <1>4. Traced(t, L) BY <1>2, <1>3, ApartTraced
  <1> QED BY <1>4 DEF t

\* What is not done by a user ...
LEMMA StepTraced ==
    ASSUME KernelWorks, NoStray, CalmInv, IInv', NoWan(State), NEW L, Traced(State, L),
           Loop \/ Timers \/ Resolver \/ NetModel
    PROVE  Traced(State', L)
  <1>1. CASE HandleAdded
    <2>1. /\ tunnel' = tunnel /\ oper' = oper /\ ptr' = ptr /\ conf' = conf /\ heap' = heap
      BY <1>1 DEF HandleAdded, envVars
    <2> QED BY <2>1, KeptTraced
  <1>2. CASE HandleSetting BY <1>2, HandleSettingTraced
  <1>3. CASE HandleDslite
    <2>1. /\ tunnel' = tunnel /\ oper' = oper /\ ptr' = ptr /\ conf' = conf /\ heap' = heap
      BY <1>3 DEF HandleDslite, dmVars, envVars
    <2> QED BY <2>1, KeptTraced
  <1>4. CASE ToggleDslite BY <1>4, ToggleDsliteTraced
  <1>5. CASE Timers
    <2>1. PICK p \in PrivIds : TimerFires(p) \/ DnsChannelExpires(p) BY <1>5 DEF Timers
    <2>2. CASE TimerFires(p) BY <2>2, TimerFiresTraced
    <2>3. CASE DnsChannelExpires(p)
      <3>1. /\ tunnel' = tunnel /\ oper' = oper /\ ptr' = ptr /\ conf' = conf
            /\ heap' = [heap EXCEPT ![p].dns = "dead"]
        BY <2>3 DEF DnsChannelExpires, dmVars, envVars
      <3>2. heap \in [PrivIds -> Priv] BY DEF CalmInv, IInv, TypeOK
      <3>3. \A q \in PrivIds : heap'[q].local = heap[q].local BY <3>1, <3>2 DEF Priv
      <3> QED BY <3>1, <3>3, KeptTraced
    <2> QED BY <2>1, <2>2, <2>3
  <1>6. CASE Resolver BY <1>6, DnsAnswersTraced DEF Resolver
  <1>7. CASE NetModel BY <1>7, AddrChangesTraced, DhcpChangesTraced DEF NetModel
  <1> QED BY <1>1, <1>2, <1>3, <1>4, <1>5, <1>6, <1>7 DEF Loop

\* ... queues no event of WANInterface ...
LEMMA StepNoWan ==
    ASSUME NoStray, CalmInv, IInv', NoWan(State), Loop \/ Timers \/ Resolver \/ NetModel
    PROVE  NoWan(State')
  <1>1. State \in States /\ QueueCalm(State) BY Before DEF Calm, Base
  <1>2. State'.queue = queue' /\ State.queue = queue BY NextFields, StateFields
  <1>3. CASE HandleAdded \/ HandleDslite
    <2>1. State.queue # <<>> /\ queue' = Tail(State.queue)
      BY <1>2, <1>3 DEF HandleAdded, HandleDslite
    <2> DEFINE t == Popped(State)
    <2>2. /\ t.queue = Tail(State.queue)
          /\ \A j, x : Awaits(t, j, x) => Awaits(State, j, x)
      BY <1>1, <2>1, PoppedQueue, PoppedFields
    <2> HIDE DEF t
    <2>3. SameAwaits(t, State') BY <1>2, <2>1, <2>2, SameQueue
    <2> QED BY <2>2, <2>3 DEF SameAwaits, NoWan
  <1>4. CASE HandleSetting BY <1>4, HandleSettingCalm, PlainAwaits DEF NoWan
  <1>5. CASE ToggleDslite BY <1>5, ToggleDsliteCalm, PlainAwaits DEF NoWan
  <1>6. ASSUME ByOne(State, State') PROVE NoWan(State')
    <2>1. PICK i \in Ifs, p \in PrivIds : Holds(State, i, p) /\ Within(State, State', i, p)
      BY <1>6 DEF ByOne
    <2>2. Base(State) BY Before DEF Calm
    <2>3. i \in State.present BY <2>1, <2>2, HoldsOn
    <2>4. SameAwaits(State, State') BY <1>1, <2>1, <2>3, WithinQueue
    <2> QED BY <2>4 DEF SameAwaits, NoWan
  <1>7. CASE Timers
    <2>1. PICK p \in PrivIds : TimerFires(p) \/ DnsChannelExpires(p) BY <1>7 DEF Timers
    <2>2. CASE TimerFires(p) BY <1>6, <2>2, TimerFiresCalm
    <2>3. CASE DnsChannelExpires(p)
      <3>1. State'.queue = State.queue
        BY <1>2, <2>3 DEF DnsChannelExpires, loopVars
      <3>2. SameAwaits(State, State') BY <3>1, SameQueue
      <3> QED BY <3>2 DEF SameAwaits, NoWan
    <2> QED BY <2>1, <2>2, <2>3
  <1>8. CASE Resolver BY <1>6, <1>8, DnsAnswersCalm DEF Resolver
  <1>9. CASE NetModel BY <1>6, <1>9, AddrChangesCalm, DhcpChangesCalm DEF NetModel
  <1> QED BY <1>3, <1>4, <1>5, <1>7, <1>8, <1>9 DEF Loop

\* ... and what a calm user writes neither, and it comes with no tunnel.
LEMMA UsersTraced ==
    ASSUME CalmUser, SteadyWan, CalmInv, IInv', NEW L, Traced(State, L), Users
    PROVE  Traced(State', L) /\ NoWan(State')
  <1>1. State'.queue = queue' BY NextFields
  <1>2. CASE WriteDslite
    <2>1. queue' = <<DsliteEvent(~dslEnable)>>
      BY <1>2, CalmWrites DEF WriteDslite
    <2>2. NoWan(State') BY <1>1, <2>1, OneEvent DEF DsliteEvent, Tells, NoWan
    <2>3. /\ tunnel' = tunnel /\ oper' = oper /\ ptr' = ptr /\ conf' = conf /\ heap' = heap
      BY <1>2 DEF WriteDslite, envVars
    <2> QED BY <2>2, <2>3, KeptTraced
  <1>3. ASSUME NEW i \in Ifs, NEW T \in Transactions, WriteSetting(i, T)
        PROVE  Traced(State', L) /\ NoWan(State')
    <2>1. PICK x \in Params : T = {x} BY <1>3 DEF CalmUser
    <2>2. x # "wan" BY <2>1 DEF SteadyWan
    <2>3. PICK c \in Rewritten(conf[i], T) :
                 /\ conf' = [conf EXCEPT ![i] = c]
                 /\ queue' = Append(queue, SettingEvent(i, T, c))
      BY <1>3 DEF WriteSetting
    <2> DEFINE e == SettingEvent(i, T, c)
    <2>4. e.kind = "setting" /\ e.obj = i /\ e.changed = {x} BY <2>1 DEF SettingEvent
    <2>5. queue' = Append(queue, e) BY <2>3
    <2> HIDE DEF e
    <2>6. State'.queue = <<e>> BY <1>1, <1>3, <2>5, CalmWrites DEF WriteSetting
    <2>7. NoWan(State') BY <2>2, <2>4, <2>6, OneEvent DEF Tells, NoWan
    <2>8. conf \in [Ifs -> Conf] BY DEF CalmInv, IInv, TypeOK
    <2>9. c.wan = conf[i].wan BY <2>1, <2>2, <2>3, <2>8, RewrittenOne
    <2>10. \A j \in Ifs : conf'[j].wan = conf[j].wan BY <2>3, <2>8, <2>9
    <2>11. /\ tunnel' = tunnel /\ oper' = oper /\ ptr' = ptr /\ heap' = heap
      BY <1>3 DEF WriteSetting, envVars
    <2> QED BY <2>7, <2>10, <2>11, KeptTraced
  <1>4. ASSUME NEW i \in Ifs, AddInstance(i) PROVE Traced(State', L) /\ NoWan(State')
    <2> DEFINE s == State
               v == State'
               c == [DefaultConf EXCEPT !.enable = FALSE]
    <2>1. /\ queue' = <<AddedEvent(i)>> /\ i \notin present
          /\ ptr' = [ptr EXCEPT ![i] = None]
          /\ oper' = [oper EXCEPT ![i] = DefaultOper]
          /\ heap' = heap /\ tunnel' = tunnel
      BY <1>4, CalmWrites DEF AddInstance, envVars
    <2>2. conf' = [conf EXCEPT ![i] = c] BY <1>4 DEF AddInstance, CalmUser
    <2>3. NoWan(v) BY <1>1, <2>1, OneEvent DEF AddedEvent, Tells, NoWan
    <2>4. c.wan # None BY ConstantsAssumption DEF DefaultConf
    <2>5. /\ conf \in [Ifs -> Conf] /\ oper \in [Ifs -> Oper]
          /\ ptr \in [Ifs -> PrivIds \cup {None}]
      BY DEF CalmInv, IInv, TypeOK
    <2>6. ~Enabled(s, i)
      BY <2>1, Before, StateFields DEF Calm, Base, Owned, Owner
    <2>7. /\ v.tunnel = s.tunnel /\ v.heap = s.heap
          /\ v.conf[i] = c /\ v.oper[i] = DefaultOper
          /\ \A j \in Ifs \ {i} : /\ v.conf[j] = s.conf[j] /\ v.oper[j] = s.oper[j]
                                  /\ v.ptr[j] = s.ptr[j]
      BY <2>1, <2>2, <2>5, StateFields, NextFields, TunnelFields
    <2>8. Traced(s, L) OBVIOUS
    <2> HIDE DEF s, v, c
    <2>9. ~Enabled(v, i) BY <2>7 DEF Enabled, DefaultOper
    <2>10. \A j \in Ifs \ {i} : Enabled(v, j) <=> Enabled(s, j) BY <2>7 DEF Enabled
    <2>11. \A j \in Ifs : v.conf[j].wan # None BY <2>4, <2>7, <2>8 DEF Traced
    <2>12. \A j \in Ifs : Enabled(v, j) =>
             v.ptr[j] \in PrivIds /\ v.heap[v.ptr[j]].local # None
      BY <2>7, <2>8, <2>9, <2>10 DEF Traced
    <2>13. v.tunnel \in {None, L} \/ \E j \in Ifs : Enabled(v, j)
      BY <2>6, <2>7, <2>8, <2>10 DEF Traced
    <2>14. Traced(v, L) BY <2>11, <2>12, <2>13 DEF Traced
    <2> QED BY <2>3, <2>14 DEF v
  <1>5. ASSUME NEW i \in Ifs, DeleteInstance(i) PROVE FALSE
    BY <1>5 DEF DeleteInstance, CalmUser
  <1> QED BY <1>2, <1>3, <1>4, <1>5 DEF Users

-----------------------------------------------------------------------------
(* From the start of a process to its end.                                 *)

\* The tunnel of a process that runs.
TracedInv == phase = "running" => Traced(State, left) /\ NoWan(State)

\* No WAN interface that is saved is empty.
WanSaved == \A i \in Ifs : disk.conf[i].wan # None

\* The inductive invariant.
TunnelInv == CalmBootInv /\ TracedInv /\ WanSaved

\* That of the next state is about the next state.
LEMMA TracedPrimed ==
    /\ Traced(State, left)' <=> Traced(State', left')
    /\ NoWan(State)' <=> NoWan(State')
  BY DEF Traced, Enabled, NoWan, Awaits

\* What a process starts with: the tunnel that it finds.
LEMMA LoadTraced ==
    ASSUME IInv', Blank, WanSaved, Load, left' = tunnel,
           disk.present \in SUBSET Ifs, disk.enable \in BOOLEAN
    PROVE  Traced(State', left') /\ NoWan(State')
  <1> DEFINE v == State'
  <1>1. /\ queue' \in Boot(disk.present, disk.enable) /\ oper' = oper /\ tunnel' = tunnel
        /\ conf' = disk.conf
    BY DEF Load, envVars
  <1>2. /\ v.queue = queue' /\ v.oper = oper /\ v.tunnel = left' /\ v.conf = disk.conf
    BY <1>1, NextFields, TunnelFields
  <1>3. \A i \in Ifs : oper[i].status # "Enabled" BY DEF Blank, DefaultOper
  <1>4. \A k \in 1..Len(queue') : queue'[k].kind # "setting"
    <2>1. StartEvents(queue', disk.present, disk.enable) BY <1>1, BootQueue
    <2> QED BY <2>1 DEF StartEvents
  <1> HIDE DEF v
  <1>5. NoWan(v) BY <1>2, <1>4 DEF NoWan, Awaits
  <1>6. Traced(v, left') BY <1>2, <1>3 DEF Traced, Enabled, WanSaved
  <1> QED BY <1>5, <1>6 DEF v

\* What is saved of a process has its WAN interfaces.
LEMMA PersistentWan ==
    ASSUME CalmInv, NEW L, Traced(State, L)
    PROVE  \A i \in Ifs : Persistent.conf[i].wan # None
  <1>1. \A i \in Ifs : conf[i].wan # None BY StateFields DEF Traced
  <1>2. \A i \in Ifs : conf[i] \in Conf BY DEF CalmInv, IInv, TypeOK
  <1>3. \A i \in Ifs : [conf[i] EXCEPT !.name = None].wan = conf[i].wan BY <1>2 DEF Conf
  <1>4. \A i \in Ifs : Stored(i, conf[i]).wan = conf[i].wan BY <1>3 DEF Stored
  <1> QED BY <1>1, <1>4 DEF Persistent

\* It holds when the plug-in was never started ...
LEMMA TunnelInit == BootInit => TunnelInv
  <1> SUFFICES ASSUME BootInit PROVE TunnelInv OBVIOUS
  <1>1. phase = "stopped" BY DEF BootInit
  <1>2. \A i \in Ifs : [DefaultConf EXCEPT !.enable = i \in Provisioned].wan = DefaultWAN
    BY DEF DefaultConf
  <1>3. WanSaved BY <1>2, ConstantsAssumption DEF BootInit, WanSaved
  <1> QED BY <1>1, <1>3, CalmBootInit DEF TunnelInv, TracedInv

\* ... and every step keeps it.
LEMMA TunnelStep ==
    ASSUME CalmUser, KernelWorks, NoStray, SteadyWan
    PROVE  TunnelInv /\ [BootNext]_allVars => TunnelInv'
  <1> SUFFICES ASSUME TunnelInv, [BootNext]_allVars PROVE TunnelInv' OBVIOUS
  <1>1. CalmBootInv /\ CalmBootInv' BY CalmBootStep DEF TunnelInv
  <1>2. /\ IInv' /\ disk.present \in SUBSET Ifs /\ disk.enable \in BOOLEAN
        /\ phase # "running" => Blank
        /\ phase = "running" => CalmInv /\ Traced(State, left) /\ NoWan(State)
        /\ WanSaved
    BY <1>1 DEF CalmBootInv, BootInv, BootTypeOK, TunnelInv, TracedInv
  <1>3. SUFFICES TracedInv' /\ WanSaved' BY <1>1 DEF TunnelInv
  <1>4. CASE Start
    <2>1. PICK o \in InitOutcomes :
                 /\ phase' = IF o.rv = 0 THEN "running" ELSE "failed"
                 /\ IF o.rv = 0 THEN Load ELSE UNCHANGED vars
      BY <1>4 DEF Start
    <2>2. Blank /\ disk' = disk /\ left' = tunnel BY <1>2, <1>4 DEF Start
    <2>3. WanSaved' BY <1>2, <2>2 DEF WanSaved
    <2>4. CASE o.rv = 0
      <3>1. Traced(State', left') /\ NoWan(State')
        BY <1>2, <2>1, <2>2, <2>4, LoadTraced
      <3> QED BY <2>3, <3>1, TracedPrimed DEF TracedInv
    <2>5. CASE o.rv # 0
      <3>1. phase' # "running" BY <2>1, <2>5
      <3> QED BY <2>3, <3>1 DEF TracedInv
    <2> QED BY <2>4, <2>5
  <1>5. CASE Run(Loop) \/ Run(Timers) \/ Run(Resolver) \/ Run(NetModel) \/ Run(Users)
    <2>1. /\ phase = "running" /\ disk' = disk /\ left' = left
          /\ Loop \/ Timers \/ Resolver \/ NetModel \/ Users
      BY <1>5 DEF Run
    <2>2. Traced(State', left) /\ NoWan(State')
      BY <1>2, <2>1, StepTraced, StepNoWan, UsersTraced
    <2>3. WanSaved' BY <1>2, <2>1 DEF WanSaved
    <2> QED BY <2>1, <2>2, <2>3, TracedPrimed DEF TracedInv
  <1>6. CASE Save
    <2>1. phase = "running" /\ disk' = Persistent /\ left' = left /\ UNCHANGED vars
      BY <1>6 DEF Save
    <2>2. WanSaved' BY <1>2, <2>1, PersistentWan DEF WanSaved
    <2>3. State' = State BY <2>1 DEF State, vars, dmVars, envVars, loopVars
    <2>4. Traced(State', left') /\ NoWan(State') BY <1>2, <2>1, <2>3
    <2> QED BY <2>2, <2>4, TracedPrimed DEF TracedInv
  <1>7. CASE Stop \/ Crash \/ Reboot
    <2>1. phase' # "running" BY <1>7 DEF Stop, Crash, Gone, Reboot, bootVars
    <2>2. disk' = disk \/ (phase = "running" /\ disk' = Persistent)
      BY <1>7 DEF Stop, Crash, Reboot, bootVars
    <2>3. WanSaved' BY <1>2, <2>2, PersistentWan DEF WanSaved
    <2> QED BY <2>1, <2>3 DEF TracedInv
  <1>8. CASE UNCHANGED allVars
    <2>1. UNCHANGED vars /\ phase' = phase /\ disk' = disk /\ left' = left
      BY <1>8 DEF allVars, bootVars
    <2>2. State' = State BY <2>1 DEF State, vars, dmVars, envVars, loopVars
    <2>3. phase' = "running" => Traced(State', left') /\ NoWan(State')
      BY <1>2, <2>1, <2>2
    <2>4. WanSaved' BY <1>2, <2>1 DEF WanSaved
    <2> QED BY <2>3, <2>4, TracedPrimed DEF TracedInv
  <1> QED BY <1>4, <1>5, <1>6, <1>7, <1>8 DEF BootNext

\* Where no ioctl and no call of the IP manager fails, every EndpointAddress is an
\* IPv6 address and WANInterface is not written: whatever the resolver, NetModel and the firewall do, and however
\* often the plug-in crashed or was started in vain, a tunnel that exists while
\* no instance is Enabled is the one this process found when it started.
THEOREM OnlyTheTunnelLeft ==
    ASSUME CalmUser, KernelWorks, NoStray, SteadyWan PROVE BootSpec => []OnlyLeftTunnel
  <1>1. ASSUME TunnelInv PROVE OnlyLeftTunnel
    <2> SUFFICES ASSUME phase = "running", tunnel # None
                 PROVE  tunnel = left \/ \E i \in present : oper[i].status = "Enabled"
      BY DEF OnlyLeftTunnel
    <2>1. CalmInv /\ Traced(State, left)
      BY <1>1 DEF TunnelInv, TracedInv, CalmBootInv
    <2>2. tunnel = left \/ \E j \in Ifs : Enabled(State, j)
      BY <2>1, TunnelFields DEF Traced
    <2>3. ASSUME NEW j \in Ifs, Enabled(State, j)
          PROVE  j \in present /\ oper[j].status = "Enabled"
      BY <2>1, <2>3, Before, StateFields DEF Calm, Base, Owned, Owner, Enabled
    <2> QED BY <2>2, <2>3
  <1>2. TunnelInv /\ [BootNext]_allVars => TunnelInv' BY TunnelStep
  <1>3. TunnelInv => OnlyLeftTunnel BY <1>1
  <1> QED BY <1>2, <1>3, TunnelInit, PTL DEF BootSpec
=============================================================================
