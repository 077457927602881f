--------------------------- MODULE DSLite_proofs ---------------------------
(***************************************************************************)
(* Type correctness of DSLite and the invariant EnabledMeansTunnel of a    *)
(* plug-in with one instance, for every value of the constants.            *)
(***************************************************************************)
EXTENDS DSLite, TLAPS, FiniteSetTheorems, SequenceTheorems

-----------------------------------------------------------------------------
(* The states the operators work on, and what they preserve.               *)

States == [dslEnable  : BOOLEAN,
           present    : SUBSET Ifs,
           conf       : [Ifs -> Conf],
           readOnly   : SUBSET Ifs,
           oper       : [Ifs -> Oper],
           ptr        : [Ifs -> PrivIds \cup {None}],
           heap       : [PrivIds -> Priv],
           tunnel     : Tunnel \cup {None},
           firewall   : AnyWAN \cup {None},
           ip         : IpIfs,
           queue      : Seq(Event),
           todo       : SUBSET Ifs,
           todoEnable : BOOLEAN,
           fault      : {None, "null", "freed"},
           rv         : {-1, 0, 1}]

SoleInterface == \A i, j \in Ifs : i = j

TunnelIs(s, i) ==
    /\ s.ptr[i] # None
    /\ s.tunnel = [remote |-> s.oper[i].inUse, local |-> s.oper[i].local, up |-> TRUE]
    /\ s.ip = [tunneled |-> TRUE, lower |-> i, tunnel |-> TRUE]

\* Private data is needed to write a status: without it Disable would take the
\* tunnel down and leave Status as it is.
Sound(s) == SoleInterface =>
    \A i \in Ifs : s.oper[i].status = "Enabled" => TunnelIs(s, i)

\* A state with a memory error stays one, and is not continued from.
Preserves(s, t) ==
    /\ t \in States
    /\ s.fault # None => t.fault # None
    /\ Sound(s) /\ t.fault = None => Sound(t)

-----------------------------------------------------------------------------
(* Elementary updates.                                                     *)

\* Preservation is reflexive and transitive.
LEMMA PreservesSame ==
    ASSUME NEW s \in States PROVE Preserves(s, s)
  BY DEF Preserves

\* What two functions preserve, calling one after the other preserves.
LEMMA PreservesTrans ==
    ASSUME NEW s \in States, NEW t, NEW u, Preserves(s, t), Preserves(t, u)
    PROVE  Preserves(s, u)
  BY DEF Preserves

\* Return values are not part of what is preserved.
LEMMA ReturnPreserves ==
    ASSUME NEW s \in States, NEW n \in {-1, 0, 1}
    PROVE  Preserves(s, Return(s, n)) /\ Return(s, n).rv = n
  BY DEF States, Preserves, Return, Sound, TunnelIs

\* Nothing is claimed of a state with a memory error.
LEMMA FaultedPreserves ==
    ASSUME NEW s \in States, NEW kind \in {"null", "freed"}
    PROVE  Preserves(s, Faulted(s, kind)) /\ Faulted(s, kind).fault = kind
  BY ConstantsAssumption DEF States, Preserves, Faulted, Sound, TunnelIs

\* The contents of private data are not part of what is preserved either.
LEMMA HeapPreserves ==
    ASSUME NEW s \in States, NEW p \in PrivIds, NEW b \in Priv
    PROVE  Preserves(s, [s EXCEPT !.heap[p] = b])
  <1> DEFINE t == [s EXCEPT !.heap[p] = b]
  <1>1. t \in States BY DEF States
  <1>2. t.oper = s.oper /\ t.ptr = s.ptr /\ t.tunnel = s.tunnel /\ t.ip = s.ip
        /\ t.fault = s.fault
    BY DEF States
  <1> QED BY <1>1, <1>2 DEF Preserves, Sound, TunnelIs

\* Writing a field of a block of private data is writing the block.
LEMMA PrivFields ==
    ASSUME NEW s \in States, NEW p \in PrivIds, NEW v
    PROVE  /\ [s EXCEPT !.heap[p].remote = v]
                = [s EXCEPT !.heap[p] = [s.heap[p] EXCEPT !.remote = v]]
           /\ [s EXCEPT !.heap[p].local = v]
                = [s EXCEPT !.heap[p] = [s.heap[p] EXCEPT !.local = v]]
           /\ [s EXCEPT !.heap[p].dns = v]
                = [s EXCEPT !.heap[p] = [s.heap[p] EXCEPT !.dns = v]]
           /\ [s EXCEPT !.heap[p].timer = v]
                = [s EXCEPT !.heap[p] = [s.heap[p] EXCEPT !.timer = v]]
           /\ [s EXCEPT !.heap[p].addrQ = v]
                = [s EXCEPT !.heap[p] = [s.heap[p] EXCEPT !.addrQ = v]]
           /\ [s EXCEPT !.heap[p].addrRes = v]
                = [s EXCEPT !.heap[p] = [s.heap[p] EXCEPT !.addrRes = v]]
           /\ [s EXCEPT !.heap[p].dhcpQ = v]
                = [s EXCEPT !.heap[p] = [s.heap[p] EXCEPT !.dhcpQ = v]]
           /\ [s EXCEPT !.heap[p].dhcpRes = v]
                = [s EXCEPT !.heap[p] = [s.heap[p] EXCEPT !.dhcpRes = v]]
  BY DEF States

\* Writing it preserves what the operators preserve: the tunnel's addresses ...
LEMMA SetAddrs ==
    ASSUME NEW s \in States, NEW p \in PrivIds
    PROVE  /\ \A v \in Remotes \cup {None} : Preserves(s, [s EXCEPT !.heap[p].remote = v])
           /\ \A v \in LocalAddrs \cup {None} : Preserves(s, [s EXCEPT !.heap[p].local = v])
  <1>1. s.heap[p] \in Priv BY DEF States
  <1>2. \A v \in Remotes \cup {None} : [s.heap[p] EXCEPT !.remote = v] \in Priv
    BY <1>1 DEF Priv
  <1>3. \A v \in LocalAddrs \cup {None} : [s.heap[p] EXCEPT !.local = v] \in Priv
    BY <1>1 DEF Priv
  <1> QED BY <1>2, <1>3, HeapPreserves, PrivFields

\* ... the DNS query and its retry timer ...
LEMMA SetDns ==
    ASSUME NEW s \in States, NEW p \in PrivIds
    PROVE  /\ \A v \in {"none", "pending", "idle", "dead", "dangling"} :
                Preserves(s, [s EXCEPT !.heap[p].dns = v])
           /\ \A v \in {"none", "off", "armed"} : Preserves(s, [s EXCEPT !.heap[p].timer = v])
  <1>1. s.heap[p] \in Priv BY DEF States
  <1>2. \A v \in {"none", "pending", "idle", "dead", "dangling"} :
          [s.heap[p] EXCEPT !.dns = v] \in Priv
    BY <1>1 DEF Priv
  <1>3. \A v \in {"none", "off", "armed"} : [s.heap[p] EXCEPT !.timer = v] \in Priv
    BY <1>1 DEF Priv
  <1> QED BY <1>2, <1>3, HeapPreserves, PrivFields

\* ... the NetModel queries and the last results they reported.
LEMMA SetQueries ==
    ASSUME NEW s \in States, NEW p \in PrivIds
    PROVE  /\ \A v \in WANs \cup {None} : Preserves(s, [s EXCEPT !.heap[p].addrQ = v])
           /\ \A v \in LocalAddrs \cup {None} : Preserves(s, [s EXCEPT !.heap[p].addrRes = v])
           /\ \A v \in WANs \cup {None} : Preserves(s, [s EXCEPT !.heap[p].dhcpQ = v])
           /\ \A v \in Names \cup {None} : Preserves(s, [s EXCEPT !.heap[p].dhcpRes = v])
  <1>1. s.heap[p] \in Priv BY DEF States
  <1>2. \A v \in WANs \cup {None} : [s.heap[p] EXCEPT !.addrQ = v] \in Priv
    BY <1>1 DEF Priv
  <1>3. \A v \in LocalAddrs \cup {None} : [s.heap[p] EXCEPT !.addrRes = v] \in Priv
    BY <1>1 DEF Priv
  <1>4. \A v \in WANs \cup {None} : [s.heap[p] EXCEPT !.dhcpQ = v] \in Priv
    BY <1>1 DEF Priv
  <1>5. \A v \in Names \cup {None} : [s.heap[p] EXCEPT !.dhcpRes = v] \in Priv
    BY <1>1 DEF Priv
  <1> QED BY <1>2, <1>3, <1>4, <1>5, HeapPreserves, PrivFields

-----------------------------------------------------------------------------
(* The tunnel, the firewall service and the IP interfaces.                 *)

\* What these operators leave alone.
Frame(s, t) ==
    /\ t \in States /\ t.oper = s.oper /\ t.ptr = s.ptr /\ t.heap = s.heap
    /\ s.fault # None => t.fault # None

\* The frames of two calls compose.
LEMMA FrameTrans ==
    ASSUME NEW s, NEW t, NEW u, Frame(s, t), Frame(t, u)
    PROVE  Frame(s, u)
  BY DEF Frame

\* Setting a return value changes nothing else.
LEMMA ReturnFrame ==
    ASSUME NEW s \in States, NEW n \in {-1, 0, 1}
    PROVE  /\ Frame(s, Return(s, n))
           /\ Return(s, n).tunnel = s.tunnel /\ Return(s, n).ip = s.ip
           /\ Return(s, n).rv = n
  BY DEF States, Frame, Return

\* The ways update_dslite_tunnel ends.
LEMMA UpdateTunnelCases ==
    ASSUME NEW s, NEW i, NEW t \in UpdateTunnel(s, i)
    PROVE  \/ t = Return(s, -1)
           \/ t = Faulted(s, "freed")
           \/ /\ s.ptr[i] # None
              /\ s.heap[s.ptr[i]].local # None /\ s.heap[s.ptr[i]].remote # None
              /\ \/ t = Return([s EXCEPT !.tunnel = TunnelOf(s.heap[s.ptr[i]], TRUE)], 0)
                 \/ t = Return([s EXCEPT !.tunnel =
                      TunnelOf(s.heap[s.ptr[i]], s.tunnel # None /\ s.tunnel.up)], -1)
  BY DEF UpdateTunnel, Maybe

\* Replacing the kernel's tunnel by one of its type changes nothing else.
LEMMA TunnelTyped ==
    ASSUME NEW s \in States, NEW k \in Tunnel \cup {None}, NEW n \in {-1, 0, 1}
    PROVE  /\ Frame(s, Return([s EXCEPT !.tunnel = k], n))
           /\ Return([s EXCEPT !.tunnel = k], n).tunnel = k
           /\ Return([s EXCEPT !.tunnel = k], n).rv = n
           /\ Frame(s, [s EXCEPT !.tunnel = k])
  BY DEF States, Frame, Return

\* update_dslite_tunnel changes the tunnel only; it returns 0 only with the
\* tunnel up between the two addresses, and does nothing without private data.
LEMMA UpdateTunnelFrame ==
    ASSUME NEW s \in States, NEW i \in Ifs, NEW t \in UpdateTunnel(s, i)
    PROVE  /\ Frame(s, t)
           /\ (t.rv = 0 /\ t.fault = None) =>
                /\ s.ptr[i] # None
                /\ t.tunnel = TunnelOf(s.heap[s.ptr[i]], TRUE)
           /\ s.ptr[i] = None => t = Return(s, -1)
  <1>1. s.ptr[i] = None => t = Return(s, -1) BY DEF UpdateTunnel
  <1>2. CASE t = Return(s, -1)
    <2>1. -1 \in {-1, 0, 1} OBVIOUS
    <2>2. Frame(s, t) /\ t.rv = -1 BY <1>2, <2>1, ReturnFrame
    <2>3. t.rv # 0 BY <2>2
    <2> QED BY <1>1, <2>2, <2>3
  <1>3. CASE t = Faulted(s, "freed")
    <2>1. t.fault = "freed" /\ "freed" # None
      BY <1>3, ConstantsAssumption DEF Faulted, States
    <2>2. Frame(s, t) BY <1>3, <2>1 DEF Faulted, Frame, States
    <2> QED BY <1>1, <2>1, <2>2
  <1>4. ASSUME s.ptr[i] # None, s.heap[s.ptr[i]].local # None,
               s.heap[s.ptr[i]].remote # None, NEW up \in BOOLEAN
        PROVE  TunnelOf(s.heap[s.ptr[i]], up) \in Tunnel
    <2>1. s.heap[s.ptr[i]] \in Priv BY <1>4 DEF States
    <2> QED BY <1>4, <2>1 DEF TunnelOf, Tunnel, Priv
  <1>5. (s.tunnel # None /\ s.tunnel.up) \in BOOLEAN OBVIOUS
  <1>6. CASE /\ s.ptr[i] # None
             /\ s.heap[s.ptr[i]].local # None /\ s.heap[s.ptr[i]].remote # None
             /\ t = Return([s EXCEPT !.tunnel = TunnelOf(s.heap[s.ptr[i]], TRUE)], 0)
    <2> DEFINE k == TunnelOf(s.heap[s.ptr[i]], TRUE)
    <2>1. k \in Tunnel BY <1>4, <1>6
    <2>2. t = Return([s EXCEPT !.tunnel = k], 0) BY <1>6
    <2>3. 0 \in {-1, 0, 1} OBVIOUS
    <2>4. Frame(s, t) /\ t.tunnel = k BY <2>1, <2>2, <2>3, TunnelTyped
    <2> QED BY <1>6, <2>4
  <1>7. CASE /\ s.ptr[i] # None
             /\ s.heap[s.ptr[i]].local # None /\ s.heap[s.ptr[i]].remote # None
             /\ t = Return([s EXCEPT !.tunnel =
                     TunnelOf(s.heap[s.ptr[i]], s.tunnel # None /\ s.tunnel.up)], -1)
    <2> DEFINE k == TunnelOf(s.heap[s.ptr[i]], s.tunnel # None /\ s.tunnel.up)
    <2>1. k \in Tunnel BY <1>4, <1>5, <1>7
    <2>2. t = Return([s EXCEPT !.tunnel = k], -1) BY <1>7
    <2>3. -1 \in {-1, 0, 1} OBVIOUS
    <2> HIDE DEF k
    <2>4. Frame(s, t) /\ t.rv = -1 BY <2>2, <2>1, <2>3, TunnelTyped
    <2>5. t.rv # 0 BY <2>4
    <2> QED BY <1>1, <2>4, <2>5
  <1> QED BY <1>1, <1>2, <1>3, <1>6, <1>7, UpdateTunnelCases

\* delete_dslite_tunnel changes the tunnel only.
LEMMA DeleteTunnelFrame ==
    ASSUME NEW s \in States, NEW i \in Ifs, NEW t \in DeleteTunnel(s, i)
    PROVE  Frame(s, t)
  <1>1. \/ t = s
        \/ t = Faulted(s, "freed")
        \/ t = [s EXCEPT !.tunnel = None]
    BY DEF DeleteTunnel, Maybe
  <1>2. Frame(s, s) BY DEF Frame
  <1>3. Frame(s, Faulted(s, "freed")) BY ConstantsAssumption DEF Frame, Faulted, States
  <1>4. Frame(s, [s EXCEPT !.tunnel = None]) BY DEF Frame, States
  <1> QED BY <1>1, <1>2, <1>3, <1>4

\* open_firewall and close_firewall change the firewall service only.
LEMMA FirewallFrame ==
    ASSUME NEW s \in States, NEW wan \in AnyWAN \cup {None},
           NEW t \in OpenFirewall(s, wan) \cup CloseFirewall(s)
    PROVE  Frame(s, t) /\ t.tunnel = s.tunnel /\ t.rv = s.rv
  <1>1. t = s \/ t = [s EXCEPT !.firewall = wan] \/ t = [s EXCEPT !.firewall = None]
    BY DEF OpenFirewall, CloseFirewall, Maybe
  <1> QED BY <1>1 DEF Frame, States

\* Replacing the state of the IP interfaces changes nothing else.
LEMMA IpTyped ==
    ASSUME NEW s \in States, NEW k \in IpIfs
    PROVE  /\ Frame(s, Return([s EXCEPT !.ip = k], 0))
           /\ Return([s EXCEPT !.ip = k], 0).tunnel = s.tunnel
           /\ Return([s EXCEPT !.ip = k], 0).ip = k
           /\ Return([s EXCEPT !.ip = k], 0).rv = 0
  BY DEF States, Frame, Return

\* toggle_ip_interface on the tunneled interface: when it returns 0 the
\* interface is as it was asked to be.
LEMMA SetTunneledIfFrame ==
    ASSUME NEW s \in States, NEW i \in Ifs, NEW enable \in BOOLEAN,
           NEW t \in SetTunneledIf(s, i, enable)
    PROVE  /\ Frame(s, t) /\ t.tunnel = s.tunnel
           /\ (enable = TRUE /\ t.rv = 0) => t.ip.tunneled = TRUE /\ t.ip.lower = i
  <1> DEFINE new == [tunneled |-> enable, lower |-> IF enable THEN i ELSE None,
                     tunnel |-> s.ip.tunnel]
  <1>1. new \in IpIfs BY DEF IpIfs, States
  <1>2. t = Return([s EXCEPT !.ip = new], 0) \/ t = Return(s, -1) \/ t = Return(s, 1)
    BY DEF SetTunneledIf, Maybe
  <1>3. enable = TRUE => new.tunneled = TRUE /\ new.lower = i OBVIOUS
  <1> HIDE DEF new
  <1>4. CASE t = Return([s EXCEPT !.ip = new], 0)
    <2>1. Frame(s, t) /\ t.tunnel = s.tunnel /\ t.ip = new BY <1>1, <1>4, IpTyped
    <2> QED BY <1>3, <2>1
  <1>5. -1 \in {-1, 0, 1} /\ 1 \in {-1, 0, 1} OBVIOUS
  <1>6. CASE t = Return(s, -1)
    <2>1. Frame(s, t) /\ t.tunnel = s.tunnel /\ t.rv = -1 BY <1>5, <1>6, ReturnFrame
    <2> QED BY <2>1
  <1>7. CASE t = Return(s, 1)
    <2>1. Frame(s, t) /\ t.tunnel = s.tunnel /\ t.rv = 1 BY <1>5, <1>7, ReturnFrame
    <2> QED BY <2>1
  <1> QED BY <1>2, <1>4, <1>6, <1>7

\* toggle_ip_interface on the tunnel interface leaves the tunneled one alone.
LEMMA SetTunnelIfFrame ==
    ASSUME NEW s \in States, NEW enable \in BOOLEAN, NEW t \in SetTunnelIf(s, enable)
    PROVE  /\ Frame(s, t) /\ t.tunnel = s.tunnel
           /\ t.ip.tunneled = s.ip.tunneled /\ t.ip.lower = s.ip.lower
           /\ (enable = TRUE /\ t.rv = 0) => t.ip.tunnel = TRUE
  <1> DEFINE new == [s.ip EXCEPT !.tunnel = enable]
  <1>1. s.ip \in IpIfs BY DEF States
  <1>2. new \in IpIfs BY <1>1 DEF IpIfs
  <1>3. new.tunneled = s.ip.tunneled /\ new.lower = s.ip.lower /\ new.tunnel = enable
    BY <1>1 DEF IpIfs
  <1>4. t = Return([s EXCEPT !.ip = new], 0) \/ t = Return(s, -1) \/ t = Return(s, 1)
    BY DEF SetTunnelIf, Maybe
  <1> HIDE DEF new
  <1>5. CASE t = Return([s EXCEPT !.ip = new], 0)
    <2>1. Frame(s, t) /\ t.tunnel = s.tunnel /\ t.ip = new BY <1>2, <1>5, IpTyped
    <2> QED BY <1>3, <2>1
  <1>6. -1 \in {-1, 0, 1} /\ 1 \in {-1, 0, 1} OBVIOUS
  <1>7. CASE t = Return(s, -1)
    <2>1. Frame(s, t) /\ t.tunnel = s.tunnel /\ t.ip = s.ip /\ t.rv = -1
      BY <1>6, <1>7, ReturnFrame
    <2> QED BY <2>1
  <1>8. CASE t = Return(s, 1)
    <2>1. Frame(s, t) /\ t.tunnel = s.tunnel /\ t.ip = s.ip /\ t.rv = 1
      BY <1>6, <1>8, ReturnFrame
    <2> QED BY <2>1
  <1> QED BY <1>4, <1>5, <1>7, <1>8

IpOn(i) == [tunneled |-> TRUE, lower |-> i, tunnel |-> TRUE]

\* toggle_dslite_ip_interfaces returns 0 only when both are as asked.
LEMMA ToggleIpInterfacesFrame ==
    ASSUME NEW s \in States, NEW i \in Ifs, NEW enable \in BOOLEAN,
           NEW t \in ToggleIpInterfaces(s, i, enable)
    PROVE  /\ Frame(s, t) /\ t.tunnel = s.tunnel
           /\ (enable = TRUE /\ t.rv = 0) => t.ip = IpOn(i)
  <1>1. PICK u \in SetTunneledIf(s, i, enable) :
               t \in IF u.rv # 0 THEN {u} ELSE SetTunnelIf(u, enable)
    BY DEF ToggleIpInterfaces
  <1>2. /\ Frame(s, u) /\ u.tunnel = s.tunnel
        /\ (enable = TRUE /\ u.rv = 0) => u.ip.tunneled = TRUE /\ u.ip.lower = i
    BY SetTunneledIfFrame, ZenonT(30)
  <1>3. u \in States BY <1>2 DEF Frame
  <1>4. CASE u.rv # 0 BY <1>1, <1>2, <1>4
  <1>5. CASE u.rv = 0
    <2>1. t \in SetTunnelIf(u, enable) BY <1>1, <1>5
    <2>2. /\ Frame(u, t) /\ t.tunnel = u.tunnel
          /\ t.ip.tunneled = u.ip.tunneled /\ t.ip.lower = u.ip.lower
          /\ (enable = TRUE /\ t.rv = 0) => t.ip.tunnel = TRUE
      BY <1>3, <2>1, SetTunnelIfFrame
    <2>3. Frame(s, t) /\ t \in States BY <1>2, <2>2 DEF Frame
    <2>4. t.ip \in IpIfs BY <2>3 DEF States
    <2>5. t.ip = [tunneled |-> t.ip.tunneled, lower |-> t.ip.lower, tunnel |-> t.ip.tunnel]
      BY <2>4 DEF IpIfs
    <2>6. ASSUME enable = TRUE, t.rv = 0 PROVE t.ip = IpOn(i)
      BY <1>2, <1>5, <2>2, <2>5, <2>6 DEF IpOn
    <2> QED BY <1>2, <2>2, <2>3, <2>6
  <1> QED BY <1>4, <1>5

-----------------------------------------------------------------------------
(* Opening and closing an interface.                                       *)

\* update_interface_status: with private data it writes the status and, for
\* Enabled, the two addresses in it; without, it writes nothing.
LEMMA UpdateStatusTyped ==
    ASSUME NEW s \in States, NEW i \in Ifs, NEW status \in Statuses
    PROVE  /\ UpdateStatus(s, i, status) \in States
           /\ s.ptr[i] = None => UpdateStatus(s, i, status) = s
           /\ s.ptr[i] # None =>
                LET o == UpdateStatus(s, i, status).oper[i]
                IN  /\ o.status = status
                    /\ status = "Enabled" => o.inUse = s.heap[s.ptr[i]].remote
                                           /\ o.local = s.heap[s.ptr[i]].local
           /\ UpdateStatus(s, i, status).ptr = s.ptr
           /\ UpdateStatus(s, i, status).fault = s.fault
           /\ UpdateStatus(s, i, status).tunnel = s.tunnel
           /\ UpdateStatus(s, i, status).ip = s.ip
  <1> DEFINE o == [status |-> status,
             inUse  |-> IF status = "Enabled" THEN s.heap[s.ptr[i]].remote ELSE None,
             local  |-> IF status = "Enabled" THEN s.heap[s.ptr[i]].local ELSE None,
             origin |-> s.conf[i].prec]
  <1>1. CASE s.ptr[i] = None
    BY <1>1 DEF UpdateStatus
  <1>2. CASE s.ptr[i] # None
    <2>1. o \in Oper
      BY <1>2, ConstantsAssumption DEF States, Oper, Priv, Conf, Statuses
    <2>2. UpdateStatus(s, i, status) = [s EXCEPT !.oper[i] = o]
      BY <1>2 DEF UpdateStatus
    <2>3. /\ o.status = status
          /\ status = "Enabled" => o.inUse = s.heap[s.ptr[i]].remote
                                 /\ o.local = s.heap[s.ptr[i]].local
      OBVIOUS
    <2> HIDE DEF o
    <2>4. /\ [s EXCEPT !.oper[i] = o] \in States
          /\ [s EXCEPT !.oper[i] = o].oper[i] = o
          /\ [s EXCEPT !.oper[i] = o].ptr = s.ptr
          /\ [s EXCEPT !.oper[i] = o].fault = s.fault
          /\ [s EXCEPT !.oper[i] = o].tunnel = s.tunnel
          /\ [s EXCEPT !.oper[i] = o].ip = s.ip
      BY <2>1 DEF States
    <2> QED BY <1>2, <2>2, <2>3, <2>4
  <1> QED BY <1>1, <1>2

\* A status other than Enabled is sound whatever became of the tunnel and the
\* IP interfaces, if there is private data to write it with.
LEMMA DownPreserves ==
    ASSUME NEW s \in States, NEW i \in Ifs, NEW status \in Statuses \ {"Enabled"},
           NEW t, Frame(s, t),
           \/ t = s
           \/ s.ptr[i] # None
           \/ s.oper[i].status = "Enabled"
    PROVE  Preserves(s, UpdateStatus(t, i, status))
  <1> DEFINE u == UpdateStatus(t, i, status)
  <1>1. t \in States BY DEF Frame
  <1>2. /\ u \in States /\ u.fault = t.fault
        /\ t.ptr[i] # None => u.oper[i].status = status
        /\ t.ptr[i] = None => u = t
    BY <1>1, UpdateStatusTyped
  <1> HIDE DEF u
  <1>3. ASSUME Sound(s), SoleInterface, NEW j \in Ifs, u.oper[j].status = "Enabled"
        PROVE  TunnelIs(u, j)
    <2>1. j = i BY <1>3 DEF SoleInterface
    <2>2. t.ptr[i] = None BY <1>2, <1>3, <2>1
    <2>3. s.ptr[i] = None BY <2>2 DEF Frame
    <2>4. s.oper[i].status # "Enabled" BY <1>3, <2>3 DEF Sound, TunnelIs
    <2> QED BY <1>2, <1>3, <2>1, <2>2, <2>3, <2>4 DEF Frame
  <1>4. s.fault # None => u.fault # None BY <1>2 DEF Frame
  <1>5. Sound(s) => Sound(u) BY <1>3 DEF Sound
  <1> QED BY <1>2, <1>4, <1>5 DEF u, Preserves

\* What the state must be for the status Enabled to be sound.
LEMMA UpPreserves ==
    ASSUME NEW s \in States, NEW i \in Ifs, NEW t, Frame(s, t), s.ptr[i] # None,
           t.tunnel = TunnelOf(s.heap[s.ptr[i]], TRUE), t.ip = IpOn(i)
    PROVE  Preserves(s, UpdateStatus(t, i, "Enabled"))
  <1> DEFINE u == UpdateStatus(t, i, "Enabled")
  <1>1. t \in States /\ t.ptr = s.ptr /\ t.heap = s.heap BY DEF Frame
  <1>2. "Enabled" \in Statuses BY DEF Statuses
  <1>3. /\ u \in States /\ u.fault = t.fault /\ u.ptr = t.ptr
        /\ u.tunnel = t.tunnel /\ u.ip = t.ip
    BY <1>1, <1>2, UpdateStatusTyped
  <1>4. t.ptr[i] # None BY <1>1
  <1>5. /\ u.oper[i].inUse = t.heap[t.ptr[i]].remote
        /\ u.oper[i].local = t.heap[t.ptr[i]].local
    BY <1>1, <1>2, <1>4, UpdateStatusTyped
  <1> HIDE DEF u
  <1>6. TunnelIs(u, i) BY <1>1, <1>3, <1>4, <1>5 DEF TunnelIs, TunnelOf, IpOn
  <1>7. Sound(u) BY <1>6 DEF Sound, SoleInterface
  <1>8. s.fault # None => u.fault # None BY <1>3 DEF Frame
  <1> QED BY <1>3, <1>7, <1>8 DEF u, Preserves

\* setup_dslite_interface after the tunnel: s is the state before it.
LEMMA ConcludeSetupPreserves ==
    ASSUME NEW s \in States, NEW i \in Ifs, NEW t, Frame(s, t), s.ptr[i] # None,
           t.rv = 0 => /\ t.tunnel = TunnelOf(s.heap[s.ptr[i]], TRUE)
                       /\ t.ip = IpOn(i),
           NEW u \in ConcludeSetup(t, i)
    PROVE  Preserves(s, u)
  <1>1. t \in States BY DEF Frame
  <1>2. "Error" \in Statuses \ {"Enabled"} BY DEF Statuses
  <1>3. CASE u = UpdateStatus(t, i, "Enabled") /\ t.rv = 0 BY <1>3, UpPreserves
  <1>4. CASE u = UpdateStatus(t, i, "Error") BY <1>2, <1>4, DownPreserves
  <1>5. CASE \E v \in UNION {DeleteTunnel(w, i) : w \in CloseFirewall(t)} :
               u = UpdateStatus(v, i, "Error")
    <2>1. PICK w \in CloseFirewall(t) :
                 \E v \in DeleteTunnel(w, i) : u = UpdateStatus(v, i, "Error")
      BY <1>5
    <2>2. PICK v \in DeleteTunnel(w, i) : u = UpdateStatus(v, i, "Error") BY <2>1
    <2>3. Frame(t, w) BY <1>1, FirewallFrame
    <2>4. w \in States BY <2>3 DEF Frame
    <2>5. Frame(w, v) BY <2>4, DeleteTunnelFrame
    <2>6. Frame(s, v) BY <2>3, <2>5, FrameTrans
    <2> QED BY <1>2, <2>2, <2>6, DownPreserves
  <1> QED BY <1>3, <1>4, <1>5 DEF ConcludeSetup

\* setup_dslite_interface.
LEMMA SetupPreserves ==
    ASSUME NEW s \in States, NEW i \in Ifs, NEW u \in Setup(s, i)
    PROVE  Preserves(s, u)
  <1>1. "Error" \in Statuses \ {"Enabled"} /\ Frame(s, s) BY DEF Statuses, Frame
  <1>2. CASE u = UpdateStatus(s, i, "Error") BY <1>1, <1>2, DownPreserves
  <1>3. ASSUME NEW t \in UpdateTunnel(s, i),
               u \in IF t.fault # None THEN {t}
                     ELSE IF t.rv # 0 THEN {UpdateStatus(t, i, "Error")}
                     ELSE UNION {ConcludeSetup(w, i) :
                       w \in UNION {ToggleIpInterfaces(v, i, TRUE) :
                               v \in OpenFirewall(t, t.conf[i].wan)}}
        PROVE  Preserves(s, u)
    <2>1. /\ Frame(s, t)
          /\ (t.rv = 0 /\ t.fault = None) =>
                s.ptr[i] # None /\ t.tunnel = TunnelOf(s.heap[s.ptr[i]], TRUE)
          /\ s.ptr[i] = None => t = Return(s, -1)
      BY <1>3, UpdateTunnelFrame
    <2>2. t \in States BY <2>1 DEF Frame
    <2>3. CASE t.fault # None
      BY <1>3, <2>2, <2>3 DEF Preserves
    <2>4. CASE t.fault = None /\ t.rv # 0
      <3>1. u = UpdateStatus(t, i, "Error") BY <1>3, <2>4
      <3>2. CASE s.ptr[i] # None BY <1>1, <2>1, <3>1, <3>2, DownPreserves
      <3>3. CASE s.ptr[i] = None
        <4>1. t = Return(s, -1) /\ -1 \in {-1, 0, 1} BY <2>1, <3>3
        <4>2. Preserves(s, t) /\ t.ptr = s.ptr BY <2>1, <4>1, ReturnPreserves DEF Frame
        <4>3. u = t BY <3>1, <3>3, <4>2 DEF UpdateStatus
        <4> QED BY <4>2, <4>3
      <3> QED BY <3>2, <3>3
    <2>5. CASE t.fault = None /\ t.rv = 0
      <3>1. PICK v \in OpenFirewall(t, t.conf[i].wan) :
                   \E w \in ToggleIpInterfaces(v, i, TRUE) : u \in ConcludeSetup(w, i)
        BY <1>3, <2>5
      <3>2. PICK w \in ToggleIpInterfaces(v, i, TRUE) : u \in ConcludeSetup(w, i) BY <3>1
      <3>3. t.conf[i].wan \in AnyWAN \cup {None} BY <2>2 DEF States, Conf
      <3>4. Frame(t, v) /\ v.tunnel = t.tunnel BY <2>2, <3>3, FirewallFrame
      <3>5. v \in States BY <3>4 DEF Frame
      <3>6. /\ Frame(v, w) /\ w.tunnel = v.tunnel
            /\ w.rv = 0 => w.ip = IpOn(i)
        BY <3>5, ToggleIpInterfacesFrame
      <3>7. Frame(s, w) BY <2>1, <3>4, <3>6, FrameTrans
      <3>8. s.ptr[i] # None /\ w.tunnel = TunnelOf(s.heap[s.ptr[i]], TRUE)
        BY <2>1, <2>5, <3>4, <3>6
      <3> QED BY <3>2, <3>6, <3>7, <3>8, ConcludeSetupPreserves
    <2> QED BY <2>3, <2>4, <2>5
  <1> QED BY <1>2, <1>3 DEF Setup

\* disable_interface.
LEMMA DisablePreserves ==
    ASSUME NEW s \in States, NEW i \in Ifs, NEW status \in Statuses \ {"Enabled"},
           NEW u \in Disable(s, i, status)
    PROVE  Preserves(s, u)
  <1>1. CASE u = UpdateStatus(s, i, status)
    <2>1. Frame(s, s) BY DEF Frame
    <2> QED BY <1>1, <2>1, DownPreserves
  <1>2. CASE /\ s.oper[i].status = "Enabled"
             /\ \E v \in DeleteTunnel(s, i) : \E w \in CloseFirewall(v) :
                \E t \in ToggleIpInterfaces(w, i, FALSE) : u = UpdateStatus(t, i, status)
    <2>1. PICK v \in DeleteTunnel(s, i) : \E w \in CloseFirewall(v) :
                \E t \in ToggleIpInterfaces(w, i, FALSE) : u = UpdateStatus(t, i, status)
      BY <1>2
    <2>2. PICK w \in CloseFirewall(v) :
                \E t \in ToggleIpInterfaces(w, i, FALSE) : u = UpdateStatus(t, i, status)
      BY <2>1
    <2>3. PICK t \in ToggleIpInterfaces(w, i, FALSE) : u = UpdateStatus(t, i, status)
      BY <2>2
    <2>4. Frame(s, v) BY DeleteTunnelFrame
    <2>5. v \in States BY <2>4 DEF Frame
    <2>6. Frame(v, w) BY <2>5, FirewallFrame
    <2>7. w \in States BY <2>6 DEF Frame
    <2>8. Frame(w, t) BY <2>7, ToggleIpInterfacesFrame
    <2>9. Frame(s, t) BY <2>4, <2>6, <2>8, FrameTrans
    <2> QED BY <1>2, <2>3, <2>9, DownPreserves
  <1> QED BY <1>1, <1>2 DEF Disable

\* What callers do with an error: they disable the interface.
LEMMA DisableOnErrorPreserves ==
    ASSUME NEW s \in States, NEW i \in Ifs, NEW u \in DisableOnError(s, i)
    PROVE  Preserves(s, u)
  <1>1. "Error" \in Statuses \ {"Enabled"} BY DEF Statuses
  <1> QED BY <1>1, DisablePreserves, PreservesSame DEF DisableOnError

-----------------------------------------------------------------------------
(* Resolving the name of the tunnel concentrator.                          *)

\* The owner of a block of private data, where it still has one.
LEMMA OwnerTyped ==
    ASSUME NEW s \in States, NEW p \in PrivIds, s.heap[p].owner # None
    PROVE  s.heap[p].owner \in Ifs
  BY DEF States, Priv

\* remote_endpoint_addr_query_cb, for an address and for a failure.
LEMMA QueryAnsweredPreserves ==
    ASSUME NEW s \in States, NEW p \in PrivIds, NEW address \in DnsAddrs \cup {None},
           NEW u \in QueryAnswered(s, p, address)
    PROVE  Preserves(s, u)
  <1> DEFINE i == s.heap[p].owner
             stored == [s EXCEPT !.heap[p].remote = address]
  <1>1. CASE i = None
    BY <1>1, FaultedPreserves DEF QueryAnswered
  <1>2. CASE i # None /\ address # None
    <2>1. i \in Ifs BY <1>2, OwnerTyped
    <2>2. Preserves(s, stored) BY SetAddrs DEF Remotes
    <2>3. stored \in States BY <2>2 DEF Preserves
    <2>4. PICK t \in Setup(stored, i) : u = [t EXCEPT !.heap[p].timer = "none"]
      BY <1>2 DEF QueryAnswered
    <2> HIDE DEF i, stored
    <2>5. Preserves(stored, t) BY <2>1, <2>3, SetupPreserves
    <2>6. t \in States BY <2>5 DEF Preserves
    <2>7. Preserves(t, u) BY <2>4, <2>6, SetDns
    <2>8. Preserves(s, t) BY <2>2, <2>5, PreservesTrans
    <2> QED BY <2>7, <2>8, PreservesTrans
  <1>3. CASE i # None /\ address = None
    <2>1. i \in Ifs BY <1>3, OwnerTyped
    <2>2. PICK t \in Disable(s, i, "Error") :
            u = [t EXCEPT !.heap[p].timer =
                   IF t.heap[p].timer = "off" THEN "armed" ELSE t.heap[p].timer]
      BY <1>3 DEF QueryAnswered
    <2> HIDE DEF i
    <2>3. "Error" \in Statuses \ {"Enabled"} BY DEF Statuses
    <2>4. Preserves(s, t) BY <2>1, <2>2, <2>3, DisablePreserves
    <2>5. t \in States BY <2>4 DEF Preserves
    <2>6. (IF t.heap[p].timer = "off" THEN "armed" ELSE t.heap[p].timer)
            \in {"none", "off", "armed"}
      BY <2>5 DEF States, Priv
    <2>7. Preserves(t, u) BY <2>2, <2>5, <2>6, SetDns
    <2> QED BY <2>4, <2>7, PreservesTrans
  <1> QED BY <1>1, <1>2, <1>3

\* dslite_close_dns_query, which may call the callback of its lookup.
LEMMA CloseDnsQueryPreserves ==
    ASSUME NEW s \in States, NEW p \in PrivIds, NEW u \in CloseDnsQuery(s, p)
    PROVE  Preserves(s, u)
  <1>1. s.heap[p].dns \in {"none", "pending", "idle", "dead", "dangling"}
    BY DEF States, Priv
  <1>2. CASE s.heap[p].dns = "none"
    BY <1>2, PreservesSame DEF CloseDnsQuery
  <1>3. CASE s.heap[p].dns = "dangling"
    BY <1>3, FaultedPreserves DEF CloseDnsQuery
  <1>4. CASE s.heap[p].dns = "pending"
    <2>1. PICK t \in QueryAnswered(s, p, None) : u = [t EXCEPT !.heap[p].dns = "dangling"]
      BY <1>4 DEF CloseDnsQuery
    <2>2. Preserves(s, t) BY QueryAnsweredPreserves
    <2>3. t \in States BY <2>2 DEF Preserves
    <2>4. Preserves(t, u) BY <2>1, <2>3, SetDns
    <2> QED BY <2>2, <2>4, PreservesTrans
  <1>5. CASE s.heap[p].dns \in {"idle", "dead"}
    <2>1. u = [s EXCEPT !.heap[p].dns = "dangling"] BY <1>5 DEF CloseDnsQuery
    <2> QED BY <2>1, SetDns
  <1> QED BY <1>1, <1>2, <1>3, <1>4, <1>5

\* ... and where the timers of the query may still run.
LEMMA CloseWithTimersPreserves ==
    ASSUME NEW s \in States, NEW p \in PrivIds, NEW u \in CloseWithTimers(s, p)
    PROVE  Preserves(s, u)
  <1>1. \/ u \in CloseDnsQuery(s, p)
        \/ u = [s EXCEPT !.heap[p].dns = "dangling"]
        \/ u = Faulted(s, "freed")
    BY DEF CloseWithTimers, Maybe
  <1>2. CASE u \in CloseDnsQuery(s, p) BY <1>2, CloseDnsQueryPreserves
  <1>3. CASE u = [s EXCEPT !.heap[p].dns = "dangling"] BY <1>3, SetDns
  <1>4. CASE u = Faulted(s, "freed") BY <1>4, FaultedPreserves
  <1> QED BY <1>1, <1>2, <1>3, <1>4

\* What OpenDnsQuery and the operators below return is one of Ready, Waiting
\* and Error, as every return value of a state in States is.
LEMMA WithReturn ==
    ASSUME NEW s \in States, NEW t, Preserves(s, t), NEW n \in {-1, 0, 1}
    PROVE  Preserves(s, Return(t, n))
  <1>1. t \in States BY DEF Preserves
  <1> QED BY <1>1, ReturnPreserves, PreservesTrans

\* dslite_open_dns_query, which may call it as well.
LEMMA OpenDnsQueryPreserves ==
    ASSUME NEW s \in States, NEW p \in PrivIds, NEW u \in OpenDnsQuery(s, p)
    PROVE  Preserves(s, u)
  <1>1. -1 \in {-1, 0, 1} /\ 0 \in {-1, 0, 1} OBVIOUS
  <1>2. \/ u = Return([s EXCEPT !.heap[p].dns = "pending"], 0)
        \/ u = Return([s EXCEPT !.heap[p].dns = "none"], -1)
        \/ \E a \in DnsAddrs \cup {None} : \E t \in QueryAnswered(s, p, a) :
             u = Return([t EXCEPT !.heap[p].dns = "idle"], 0)
    BY DEF OpenDnsQuery, Maybe
  <1>3. CASE u = Return([s EXCEPT !.heap[p].dns = "pending"], 0)
    BY <1>1, <1>3, SetDns, WithReturn
  <1>4. CASE u = Return([s EXCEPT !.heap[p].dns = "none"], -1)
    BY <1>1, <1>4, SetDns, WithReturn
  <1>5. ASSUME NEW a \in DnsAddrs \cup {None}, NEW t \in QueryAnswered(s, p, a),
               u = Return([t EXCEPT !.heap[p].dns = "idle"], 0)
        PROVE  Preserves(s, u)
    <2>1. Preserves(s, t) BY QueryAnsweredPreserves
    <2>2. t \in States BY <2>1 DEF Preserves
    <2>3. Preserves(t, [t EXCEPT !.heap[p].dns = "idle"]) BY <2>2, SetDns
    <2>4. Preserves(s, [t EXCEPT !.heap[p].dns = "idle"]) BY <2>1, <2>3, PreservesTrans
    <2> QED BY <1>1, <1>5, <2>4, WithReturn
  <1> QED BY <1>2, <1>3, <1>4, <1>5

\* resolve_endpoint_name.
LEMMA ResolvePreserves ==
    ASSUME NEW s \in States, NEW i \in Ifs, NEW name,
           NEW u \in ResolveEndpointName(s, i, name)
    PROVE  Preserves(s, u)
  <1> DEFINE p == s.ptr[i]
             stopped == [s EXCEPT !.heap[p].timer = "off"]
  <1>1. -1 \in {-1, 0, 1} OBVIOUS
  <1>2. CASE u = Return(s, -1) BY <1>1, <1>2, ReturnPreserves
  <1>3. CASE u = Faulted(s, "freed") BY <1>3, FaultedPreserves
  <1>4. CASE p # None /\ u = Return([s EXCEPT !.heap[p].timer = "armed"], -1)
    <2>1. p \in PrivIds BY <1>4 DEF States
    <2> HIDE DEF p
    <2>2. Preserves(s, [s EXCEPT !.heap[p].timer = "armed"]) BY <2>1, SetDns
    <2> QED BY <1>1, <1>4, <2>2, WithReturn
  <1>5. CASE p # None /\ \E t \in CloseWithTimers(stopped, p) : u \in OpenDnsQuery(t, p)
    <2>1. p \in PrivIds BY <1>5 DEF States
    <2> HIDE DEF p
    <2>2. Preserves(s, stopped) BY <2>1, SetDns
    <2>3. PICK t \in CloseWithTimers(stopped, p) : u \in OpenDnsQuery(t, p) BY <1>5
    <2>4. stopped \in States BY <2>2 DEF Preserves
    <2> HIDE DEF stopped
    <2>5. Preserves(stopped, t) BY <2>1, <2>4, CloseWithTimersPreserves
    <2>6. t \in States BY <2>5 DEF Preserves
    <2>7. Preserves(t, u) BY <2>1, <2>3, <2>6, OpenDnsQueryPreserves
    <2>8. Preserves(s, t) BY <2>2, <2>5, PreservesTrans
    <2> QED BY <2>7, <2>8, PreservesTrans
  <1> QED BY <1>2, <1>3, <1>4, <1>5 DEF ResolveEndpointName

-----------------------------------------------------------------------------
(* NetModel queries.                                                       *)

\* nm_local_addr_cb.
LEMMA AddrReportedPreserves ==
    ASSUME NEW s \in States, NEW p \in PrivIds, NEW a \in LocalAddrs \cup {None},
           NEW u \in AddrReported(s, p, a)
    PROVE  Preserves(s, u)
  <1> DEFINE i == s.heap[p].owner
             stored == [s EXCEPT !.heap[p].local = a]
  <1>1. CASE i = None BY <1>1, FaultedPreserves DEF AddrReported
  <1>2. CASE i # None
    <2>1. i \in Ifs BY <1>2, OwnerTyped
    <2>2. Preserves(s, stored) BY SetAddrs
    <2>3. stored \in States BY <2>2 DEF Preserves
    <2>4. "Error" \in Statuses \ {"Enabled"} BY DEF Statuses
    <2>5. u \in Disable(s, i, "Error") \/ u = stored \/ u \in Setup(stored, i)
      BY <1>2 DEF AddrReported
    <2> HIDE DEF i, stored
    <2>6. CASE u \in Disable(s, i, "Error") BY <2>1, <2>4, <2>6, DisablePreserves
    <2>7. CASE u = stored BY <2>2, <2>7
    <2>8. CASE u \in Setup(stored, i)
      <3>1. Preserves(stored, u) BY <2>1, <2>3, <2>8, SetupPreserves
      <3> QED BY <2>2, <3>1, PreservesTrans
    <2> QED BY <2>5, <2>6, <2>7, <2>8
  <1> QED BY <1>1, <1>2

\* A name reported by DHCP is written to the data model, and queued.
LEMMA NameWritten ==
    ASSUME NEW s \in States, NEW i \in Ifs, NEW name \in Names \cup {None}
    PROVE  LET written == [s EXCEPT !.conf[i].name = name]
           IN  Preserves(s, [written EXCEPT !.queue =
                    Append(@, SettingEvent(i, {"name"}, written.conf[i]))])
  <1> DEFINE c == [s.conf[i] EXCEPT !.name = name]
             e == SettingEvent(i, {"name"}, c)
             q == Append(s.queue, e)
             w == [s EXCEPT !.conf[i] = c]
             t == [w EXCEPT !.queue = q]
             written == [s EXCEPT !.conf[i].name = name]
  <1>1. s.conf[i] \in Conf /\ s.queue \in Seq(Event) BY DEF States
  <1>2. c \in Conf BY <1>1 DEF Conf
  <1>3. c.enable \in BOOLEAN /\ c.name \in Names \cup {None} BY <1>2 DEF Conf
  <1>4. written = w BY DEF States
  <1> HIDE DEF c
  <1>5. e \in Event BY <1>3 DEF Event, SettingEvent, Params
  <1> HIDE DEF e
  <1>6. q \in Seq(Event) BY <1>1, <1>5
  <1>7. w \in States /\ w.conf[i] = c /\ w.queue = s.queue BY <1>2 DEF States
  <1>8. w.oper = s.oper /\ w.ptr = s.ptr /\ w.tunnel = s.tunnel /\ w.ip = s.ip
        /\ w.fault = s.fault
    BY DEF States
  <1>9. [written EXCEPT !.queue = Append(@, SettingEvent(i, {"name"}, written.conf[i]))] = t
    BY <1>4, <1>7 DEF e
  <1> HIDE DEF q, w, written
  <1>10. /\ t \in States
         /\ t.oper = w.oper /\ t.ptr = w.ptr /\ t.tunnel = w.tunnel /\ t.ip = w.ip
         /\ t.fault = w.fault
    BY <1>6, <1>7 DEF States
  <1>11. Preserves(s, t) BY <1>8, <1>10 DEF Preserves, Sound, TunnelIs
  <1> QED BY <1>9, <1>11 DEF written

\* nm_dhcp_cb.
LEMMA DhcpReportedPreserves ==
    ASSUME NEW s \in States, NEW p \in PrivIds, NEW name \in Names \cup {None},
           NEW u \in DhcpReported(s, p, name)
    PROVE  Preserves(s, u)
  <1> DEFINE i == s.heap[p].owner
  <1>1. CASE u = s BY <1>1, PreservesSame
  <1>2. CASE u = Faulted(s, "freed") BY <1>2, FaultedPreserves
  <1>3. CASE i # None /\ \E t \in ResolveEndpointName(s, i, name) : u \in DisableOnError(t, i)
    <2>1. i \in Ifs BY <1>3, OwnerTyped
    <2>2. PICK t \in ResolveEndpointName(s, i, name) : u \in DisableOnError(t, i) BY <1>3
    <2> HIDE DEF i
    <2>3. Preserves(s, t) BY <2>1, ResolvePreserves
    <2>4. t \in States BY <2>3 DEF Preserves
    <2>5. Preserves(t, u) BY <2>1, <2>2, <2>4, DisableOnErrorPreserves
    <2> QED BY <2>3, <2>5, PreservesTrans
  <1>4. CASE /\ i # None
             /\ LET written == [s EXCEPT !.conf[i].name = name]
                IN  u = [written EXCEPT !.queue =
                           Append(@, SettingEvent(i, {"name"}, written.conf[i]))]
    <2>1. i \in Ifs BY <1>4, OwnerTyped
    <2> QED BY <1>4, <2>1, NameWritten
  <1> QED BY <1>1, <1>2, <1>3, <1>4 DEF DhcpReported

\* Closing a query forgets its interface and its result.
LEMMA QueryForgotten ==
    ASSUME NEW s \in States, NEW p \in PrivIds
    PROVE  /\ Preserves(s, [s EXCEPT !.heap[p].addrQ = None, !.heap[p].addrRes = None])
           /\ Preserves(s, [s EXCEPT !.heap[p].dhcpQ = None, !.heap[p].dhcpRes = None])
  <1>1. s.heap[p] \in Priv BY DEF States
  <1>2. [s EXCEPT !.heap[p].addrQ = None, !.heap[p].addrRes = None]
          = [s EXCEPT !.heap[p] = [s.heap[p] EXCEPT !.addrQ = None, !.addrRes = None]]
    BY DEF States
  <1>3. [s.heap[p] EXCEPT !.addrQ = None, !.addrRes = None] \in Priv BY <1>1 DEF Priv
  <1>4. [s EXCEPT !.heap[p].dhcpQ = None, !.heap[p].dhcpRes = None]
          = [s EXCEPT !.heap[p] = [s.heap[p] EXCEPT !.dhcpQ = None, !.dhcpRes = None]]
    BY DEF States
  <1>5. [s.heap[p] EXCEPT !.dhcpQ = None, !.dhcpRes = None] \in Priv BY <1>1 DEF Priv
  <1> QED BY <1>2, <1>3, <1>4, <1>5, HeapPreserves

\* nm_open_local_addr_query, with the result it reports before it returns.
LEMMA OpenAddrQueryPreserves ==
    ASSUME NEW s \in States, NEW i \in Ifs, NEW u \in OpenAddrQuery(s, i)
    PROVE  Preserves(s, u)
  <1> DEFINE p == s.ptr[i]
             wan == s.conf[i].wan
             closed == [s EXCEPT !.heap[p].addrQ = None, !.heap[p].addrRes = None]
  <1>1. -1 \in {-1, 0, 1} /\ 0 \in {-1, 0, 1} OBVIOUS
  <1>2. CASE u = Return(s, -1) BY <1>1, <1>2, ReturnPreserves
  <1>3. CASE u = Faulted(s, "freed") BY <1>3, FaultedPreserves
  <1>4. CASE p # None /\ u = Return(closed, -1)
    <2>1. p \in PrivIds BY <1>4 DEF States
    <2> HIDE DEF p
    <2>2. Preserves(s, closed) BY <2>1, QueryForgotten
    <2> QED BY <1>1, <1>4, <2>2, WithReturn
  <1>5. CASE /\ p # None /\ wan \in WANs
             /\ \E a \in AddrResults(wan) : \E t \in AddrReported(closed, p, a) :
                  u = Return([t EXCEPT !.heap[p].addrQ = wan, !.heap[p].addrRes = a], 0)
    <2>1. p \in PrivIds BY <1>5 DEF States
    <2> HIDE DEF p
    <2>2. Preserves(s, closed) BY <2>1, QueryForgotten
    <2>3. closed \in States BY <2>2 DEF Preserves
    <2>4. PICK a \in AddrResults(wan) : \E t \in AddrReported(closed, p, a) :
                  u = Return([t EXCEPT !.heap[p].addrQ = wan, !.heap[p].addrRes = a], 0)
      BY <1>5
    <2>5. PICK t \in AddrReported(closed, p, a) :
                  u = Return([t EXCEPT !.heap[p].addrQ = wan, !.heap[p].addrRes = a], 0)
      BY <2>4
    <2> HIDE DEF wan, closed
    <2>6. a \in LocalAddrs \cup {None} BY DEF AddrResults
    <2>7. Preserves(closed, t) BY <2>1, <2>3, <2>6, AddrReportedPreserves
    <2>8. t \in States BY <2>7 DEF Preserves
    <2>9. Preserves(t, [t EXCEPT !.heap[p].addrQ = wan]) BY <1>5, <2>1, <2>8, SetQueries
    <2> DEFINE o == [t EXCEPT !.heap[p].addrQ = wan]
    <2>10. [t EXCEPT !.heap[p].addrQ = wan, !.heap[p].addrRes = a]
             = [o EXCEPT !.heap[p].addrRes = a]
      BY <2>1, <2>8 DEF States
    <2>11. o \in States BY <2>9 DEF Preserves
    <2> HIDE DEF o
    <2>12. Preserves(o, [o EXCEPT !.heap[p].addrRes = a]) BY <2>1, <2>6, <2>11, SetQueries
    <2>13. Preserves(t, [o EXCEPT !.heap[p].addrRes = a])
      BY <2>8, <2>9, <2>12, PreservesTrans DEF o
    <2>14. Preserves(s, t) BY <2>2, <2>7, PreservesTrans
    <2>15. Preserves(s, [o EXCEPT !.heap[p].addrRes = a]) BY <2>13, <2>14, PreservesTrans
    <2> QED BY <1>1, <2>5, <2>10, <2>15, WithReturn
  <1>6. s.conf[i].wan \in AnyWAN \cup {None} BY DEF States, Conf
  <1>7. \/ u = Return(s, -1)
        \/ u = Faulted(s, "freed")
        \/ p # None /\ u = Return(closed, -1)
        \/ /\ p # None /\ wan # None /\ wan \notin BadWANs
           /\ \E a \in AddrResults(wan) : \E t \in AddrReported(closed, p, a) :
                u = Return([t EXCEPT !.heap[p].addrQ = wan, !.heap[p].addrRes = a], 0)
    BY DEF OpenAddrQuery, Maybe
  <1>8. wan # None /\ wan \notin BadWANs => wan \in WANs BY <1>6 DEF AnyWAN
  <1> HIDE DEF p, wan, closed
  <1> QED BY <1>2, <1>3, <1>4, <1>5, <1>7, <1>8

\* A state whose priv p has the DHCPv6 query on wan, which reports n.
DhcpQuery(s, p, wan, n) == [s EXCEPT !.heap[p].dhcpQ = wan, !.heap[p].dhcpRes = n]

\* The four ways nm_open_dhcpv6_query ends.
LEMMA OpenDhcpQueryCases ==
    ASSUME NEW s, NEW i, NEW u \in OpenDhcpQuery(s, i)
    PROVE  LET p      == s.ptr[i]
               wan    == s.conf[i].wan
               closed == DhcpQuery(s, p, None, None)
           IN  \/ u = Return(s, -1)
               \/ u = Faulted(s, "freed") /\ Dangling(s, i)
               \/ p # None /\ u = Return(closed, -1)
               \/ /\ p # None /\ wan # None /\ wan \notin BadWANs
                  /\ \E n \in Names \cup {None} : \E t \in DhcpReported(closed, p, n) :
                       u = Return(DhcpQuery(t, p, wan, n), 0)
  <1> DEFINE p      == s.ptr[i]
             wan    == s.conf[i].wan
             closed == DhcpQuery(s, p, None, None)
             all    == UNION {{Return(DhcpQuery(t, p, wan, n), 0) : t \in DhcpReported(closed, p, n)} :
                                n \in Names \cup {None}}
             lost   == Maybe("query", {Return(closed, -1)})
  <1>1. u \in IF p = None THEN {Return(s, -1)}
               ELSE IF Dangling(s, i) THEN {Faulted(s, "freed")}
               ELSE IF wan = None THEN {Return(s, -1)}
               ELSE IF wan \in BadWANs THEN {Return(closed, -1)}
               ELSE all \cup lost
    BY DEF OpenDhcpQuery, DhcpQuery
  <1>2. u \in all => \E n \in Names \cup {None} : \E t \in DhcpReported(closed, p, n) :
                        u = Return(DhcpQuery(t, p, wan, n), 0)
    OBVIOUS
  <1>3. u \in lost => u = Return(closed, -1) BY DEF Maybe
  <1> HIDE DEF all, lost, closed, wan, p
  <1>4. \/ u = Return(s, -1)
        \/ u = Faulted(s, "freed") /\ Dangling(s, i)
        \/ p # None /\ u = Return(closed, -1)
        \/ p # None /\ wan # None /\ wan \notin BadWANs /\ u \in all
    BY <1>1, <1>3
  <1> QED BY <1>2, <1>4 DEF closed, wan, p

\* nm_open_dhcpv6_query, likewise.
LEMMA OpenDhcpQueryPreserves ==
    ASSUME NEW s \in States, NEW i \in Ifs, NEW u \in OpenDhcpQuery(s, i)
    PROVE  Preserves(s, u)
  <1> DEFINE p == s.ptr[i]
             wan == s.conf[i].wan
             closed == DhcpQuery(s, p, None, None)
  <1>1. -1 \in {-1, 0, 1} /\ 0 \in {-1, 0, 1} OBVIOUS
  <1>2. CASE u = Return(s, -1) BY <1>1, <1>2, ReturnPreserves
  <1>3. CASE u = Faulted(s, "freed") BY <1>3, FaultedPreserves
  <1>4. CASE p # None /\ u = Return(closed, -1)
    <2>1. p \in PrivIds BY <1>4 DEF States
    <2> HIDE DEF p
    <2>2. Preserves(s, closed) BY <2>1, QueryForgotten DEF DhcpQuery
    <2> QED BY <1>1, <1>4, <2>2, WithReturn
  <1>5. CASE /\ p # None /\ wan \in WANs
             /\ \E n \in Names \cup {None} : \E t \in DhcpReported(closed, p, n) :
                  u = Return(DhcpQuery(t, p, wan, n), 0)
    <2>1. p \in PrivIds BY <1>5 DEF States
    <2> HIDE DEF p
    <2>2. Preserves(s, closed) BY <2>1, QueryForgotten DEF DhcpQuery
    <2>3. closed \in States BY <2>2 DEF Preserves
    <2>4. PICK n \in Names \cup {None} : \E t \in DhcpReported(closed, p, n) :
                  u = Return(DhcpQuery(t, p, wan, n), 0)
      BY <1>5
    <2>5. PICK t \in DhcpReported(closed, p, n) :
                  u = Return(DhcpQuery(t, p, wan, n), 0)
      BY <2>4
    <2> HIDE DEF wan, closed
    <2>6. Preserves(closed, t) BY <2>1, <2>3, DhcpReportedPreserves
    <2>7. t \in States BY <2>6 DEF Preserves
    <2>8. Preserves(t, [t EXCEPT !.heap[p].dhcpQ = wan]) BY <1>5, <2>1, <2>7, SetQueries
    <2> DEFINE o == [t EXCEPT !.heap[p].dhcpQ = wan]
    <2>9. DhcpQuery(t, p, wan, n)
             = [o EXCEPT !.heap[p].dhcpRes = n]
      BY <2>1, <2>7 DEF States, DhcpQuery
    <2>10. o \in States BY <2>8 DEF Preserves
    <2> HIDE DEF o
    <2>11. Preserves(o, [o EXCEPT !.heap[p].dhcpRes = n]) BY <2>1, <2>10, SetQueries
    <2>12. Preserves(t, [o EXCEPT !.heap[p].dhcpRes = n])
      BY <2>7, <2>8, <2>11, PreservesTrans DEF o
    <2>13. Preserves(s, t) BY <2>2, <2>6, PreservesTrans
    <2>14. Preserves(s, [o EXCEPT !.heap[p].dhcpRes = n]) BY <2>12, <2>13, PreservesTrans
    <2> QED BY <1>1, <2>5, <2>9, <2>14, WithReturn
  <1>6. s.conf[i].wan \in AnyWAN \cup {None} BY DEF States, Conf
  <1>7. \/ u = Return(s, -1)
        \/ u = Faulted(s, "freed")
        \/ p # None /\ u = Return(closed, -1)
        \/ /\ p # None /\ wan # None /\ wan \notin BadWANs
           /\ \E n \in Names \cup {None} : \E t \in DhcpReported(closed, p, n) :
                u = Return(DhcpQuery(t, p, wan, n), 0)
    BY OpenDhcpQueryCases
  <1>8. wan # None /\ wan \notin BadWANs => wan \in WANs BY <1>6 DEF AnyWAN
  <1> HIDE DEF p, wan, closed
  <1> QED BY <1>2, <1>3, <1>4, <1>5, <1>7, <1>8

-----------------------------------------------------------------------------
(* Collecting the parameters of the tunnel.                                *)

\* The STATIC_IPV6 case of get_remote_endp_addr.
LEMMA StaticRemoteAddrPreserves ==
    ASSUME NEW s \in States, NEW i \in Ifs, NEW u \in StaticRemoteAddr(s, i)
    PROVE  Preserves(s, u)
  <1> DEFINE p == s.ptr[i]
             addr == s.conf[i].addr
  <1>1. Error \in {-1, 0, 1} /\ Ready \in {-1, 0, 1} BY DEF Error, Ready
  <1>2. CASE u \in {Faulted(s, "null"), Faulted(s, "freed")} BY <1>2, FaultedPreserves
  <1>3. ASSUME p # None,
               NEW t \in IF s.heap[p].dns \in {"pending", "idle"}
                           THEN CloseWithTimers(s, p) ELSE {s},
               u = IF addr = None THEN Return(t, Error)
                   ELSE Return([t EXCEPT !.heap[p].remote = addr], Ready)
        PROVE  Preserves(s, u)
    <2>1. p \in PrivIds BY <1>3 DEF States
    <2>2. addr \in Remotes \cup {None} BY DEF States, Conf, Remotes
    <2> HIDE DEF p, addr
    <2>3. Preserves(s, t) BY <1>3, <2>1, CloseWithTimersPreserves, PreservesSame
    <2>4. t \in States BY <2>3 DEF Preserves
    <2>5. CASE addr = None BY <1>1, <1>3, <2>3, <2>5, WithReturn
    <2>6. CASE addr # None
      <3>1. Preserves(t, [t EXCEPT !.heap[p].remote = addr]) BY <2>1, <2>2, <2>4, SetAddrs
      <3>2. Preserves(s, [t EXCEPT !.heap[p].remote = addr]) BY <2>3, <3>1, PreservesTrans
      <3> QED BY <1>1, <1>3, <2>6, <3>2, WithReturn
    <2> QED BY <2>5, <2>6
  <1> QED BY <1>2, <1>3 DEF StaticRemoteAddr

\* The other cases return Waiting or Error.
LEMMA WaitingPreserves ==
    ASSUME NEW s \in States, NEW t, Preserves(s, t)
    PROVE  Preserves(s, WaitingIfStarted(t))
  <1>1. Waiting \in {-1, 0, 1} /\ Error \in {-1, 0, 1} BY DEF Waiting, Error
  <1> QED BY <1>1, WithReturn DEF WaitingIfStarted

\* get_remote_endp_addr.
LEMMA GetRemotePreserves ==
    ASSUME NEW s \in States, NEW i \in Ifs, NEW u \in GetRemoteEndpAddr(s, i)
    PROVE  Preserves(s, u)
  <1>1. CASE Method(s.conf[i]) = "STATIC_IPV6"
    BY <1>1, StaticRemoteAddrPreserves DEF GetRemoteEndpAddr
  <1>2. CASE Method(s.conf[i]) = "STATIC_FQDN"
    <2>1. PICK t \in ResolveEndpointName(s, i, s.conf[i].name) : u = WaitingIfStarted(t)
      BY <1>2 DEF GetRemoteEndpAddr
    <2>2. Preserves(s, t) BY ResolvePreserves
    <2> QED BY <2>1, <2>2, WaitingPreserves
  <1>3. CASE Method(s.conf[i]) = "DHCPV6"
    <2>1. PICK t \in OpenDhcpQuery(s, i) : u = WaitingIfStarted(t)
      BY <1>3 DEF GetRemoteEndpAddr
    <2>2. Preserves(s, t) BY OpenDhcpQueryPreserves
    <2> QED BY <2>1, <2>2, WaitingPreserves
  <1> QED BY <1>1, <1>2, <1>3 DEF Method

\* What its callers do: set up, wait, or disable.
LEMMA UseRemotePreserves ==
    ASSUME NEW s \in States, NEW i \in Ifs, NEW u \in UseRemote(s, i)
    PROVE  Preserves(s, u)
  <1>1. "Error" \in Statuses \ {"Enabled"} BY DEF Statuses
  <1>2. s.rv \in {-1, 0, 1} BY DEF States
  <1>3. CASE s.rv = 0
    <2>1. s.rv = Ready /\ s.rv # Error /\ s.rv # Waiting
      BY <1>3 DEF Ready, Error, Waiting
    <2>2. u \in Setup(s, i) BY <2>1 DEF UseRemote
    <2> QED BY <2>2, SetupPreserves
  <1>4. CASE s.rv = -1
    <2>1. s.rv # Ready /\ s.rv = Error /\ s.rv # Waiting
      BY <1>4 DEF Ready, Error, Waiting
    <2>2. u \in Disable(s, i, "Error") BY <2>1 DEF UseRemote
    <2> QED BY <1>1, <2>2, DisablePreserves
  <1>5. CASE s.rv = 1
    <2>1. s.rv # Ready /\ s.rv # Error /\ s.rv = Waiting
      BY <1>5 DEF Ready, Error, Waiting
    <2>2. u = s BY <2>1 DEF UseRemote
    <2> QED BY <2>2, PreservesSame
  <1> QED BY <1>2, <1>3, <1>4, <1>5

\* get_remote_endp_addr and what every caller does with its answer.
LEMMA GetAndUsePreserves ==
    ASSUME NEW s \in States, NEW i \in Ifs, NEW t \in GetRemoteEndpAddr(s, i),
           NEW u \in UseRemote(t, i)
    PROVE  Preserves(s, u)
  <1>1. Preserves(s, t) BY GetRemotePreserves
  <1>2. t \in States BY <1>1 DEF Preserves
  <1>3. Preserves(t, u) BY <1>2, UseRemotePreserves
  <1> QED BY <1>1, <1>3, PreservesTrans

\* get_tunnel_parameters.
LEMMA GetTunnelParametersPreserves ==
    ASSUME NEW s \in States, NEW i \in Ifs, NEW u \in GetTunnelParameters(s, i)
    PROVE  Preserves(s, u)
  <1>1. PICK t \in OpenAddrQuery(s, i) : u = t \/ u \in GetRemoteEndpAddr(t, i)
    BY DEF GetTunnelParameters
  <1>2. Preserves(s, t) BY OpenAddrQueryPreserves
  <1>3. t \in States BY <1>2 DEF Preserves
  <1>4. CASE u = t BY <1>2, <1>4
  <1>5. CASE u \in GetRemoteEndpAddr(t, i)
    <2>1. Preserves(t, u) BY <1>3, <1>5, GetRemotePreserves
    <2> QED BY <1>2, <2>1, PreservesTrans
  <1> QED BY <1>1, <1>4, <1>5

\* dslite_intf_priv_t_ctor: an instance that had private data still has some.
LEMMA AllocatePrivPreserves ==
    ASSUME NEW s \in States, NEW i \in Ifs, NEW u \in AllocatePriv(s, i)
    PROVE  Preserves(s, u)
  <1> DEFINE b == [BlankPriv EXCEPT !.alive = TRUE, !.owner = i]
  <1>1. b \in Priv BY DEF BlankPriv, Priv
  <1>2. PICK p \in PrivIds : u = [s EXCEPT !.ptr[i] = p, !.heap[p] = b]
    BY DEF AllocatePriv
  <1> HIDE DEF b
  <1>3. /\ u \in States /\ u.ptr = [s.ptr EXCEPT ![i] = p]
        /\ u.oper = s.oper /\ u.tunnel = s.tunnel /\ u.ip = s.ip /\ u.fault = s.fault
    BY <1>1, <1>2 DEF States
  <1>4. p # None BY ConstantsAssumption
  <1>5. s.ptr \in [Ifs -> PrivIds \cup {None}] BY DEF States
  <1>6. \A j \in Ifs : s.ptr[j] # None => u.ptr[j] # None BY <1>3, <1>4, <1>5
  <1> QED BY <1>3, <1>6 DEF Preserves, Sound, TunnelIs

\* enable_interface.
LEMMA EnableInterfacePreserves ==
    ASSUME NEW s \in States, NEW i \in Ifs, NEW u \in EnableInterface(s, i)
    PROVE  Preserves(s, u)
  <1>1. PICK v \in AllocatePriv(s, i) :
               \E t \in GetTunnelParameters(v, i) : u \in UseRemote(t, i)
    BY DEF EnableInterface
  <1>2. PICK t \in GetTunnelParameters(v, i) : u \in UseRemote(t, i) BY <1>1
  <1>3. Preserves(s, v) BY AllocatePrivPreserves
  <1>4. v \in States BY <1>3 DEF Preserves
  <1>5. Preserves(v, t) BY <1>4, GetTunnelParametersPreserves
  <1>6. t \in States BY <1>5 DEF Preserves
  <1>7. Preserves(t, u) BY <1>2, <1>6, UseRemotePreserves
  <1>8. Preserves(s, t) BY <1>3, <1>5, PreservesTrans
  <1> QED BY <1>7, <1>8, PreservesTrans

\* clear_remote_endpoint_properties.
LEMMA ClearRemotePreserves ==
    ASSUME NEW s \in States, NEW i \in Ifs, NEW u \in ClearRemote(s, i)
    PROVE  Preserves(s, u)
  <1> DEFINE p == s.ptr[i]
             r == [s EXCEPT !.heap[p].remote = None]
             cleared == [r EXCEPT !.heap[p].dhcpQ = None, !.heap[p].dhcpRes = None]
  <1>1. CASE u = s BY <1>1, PreservesSame
  <1>2. CASE u = Faulted(s, "freed") BY <1>2, FaultedPreserves
  <1>3. CASE p # None /\ \E t \in CloseDnsQuery(cleared, p) :
               u = [t EXCEPT !.heap[p].dns = "none", !.heap[p].timer = "none"]
    <2>1. p \in PrivIds BY <1>3 DEF States
    <2> HIDE DEF p
    <2>2. Preserves(s, r) BY <2>1, SetAddrs
    <2>3. r \in States BY <2>2 DEF Preserves
    <2> HIDE DEF r
    <2>4. Preserves(r, cleared) BY <2>1, <2>3, QueryForgotten
    <2>5. cleared \in States BY <2>4 DEF Preserves
    <2>6. PICK t \in CloseDnsQuery(cleared, p) :
               u = [t EXCEPT !.heap[p].dns = "none", !.heap[p].timer = "none"]
      BY <1>3
    <2> HIDE DEF cleared
    <2>7. Preserves(cleared, t) BY <2>1, <2>5, CloseDnsQueryPreserves
    <2>8. t \in States BY <2>7 DEF Preserves
    <2> DEFINE d == [t EXCEPT !.heap[p].dns = "none"]
    <2>9. Preserves(t, d) BY <2>1, <2>8, SetDns
    <2>10. d \in States BY <2>9 DEF Preserves
    <2>11. u = [d EXCEPT !.heap[p].timer = "none"] BY <2>6
    <2> HIDE DEF d
    <2>12. Preserves(d, u) BY <2>1, <2>10, <2>11, SetDns
    <2>13. Preserves(s, cleared) BY <2>2, <2>4, PreservesTrans
    <2>14. Preserves(s, t) BY <2>7, <2>13, PreservesTrans
    <2>15. Preserves(s, d) BY <2>9, <2>14, PreservesTrans
    <2> QED BY <2>12, <2>15, PreservesTrans
  <1> QED BY <1>1, <1>2, <1>3 DEF ClearRemote

\* cleanup_private_data, which keeps if_obj->priv.
LEMMA CleanupPrivPreserves ==
    ASSUME NEW s \in States, NEW i \in Ifs, NEW u \in CleanupPriv(s, i)
    PROVE  Preserves(s, u)
  <1> DEFINE p == s.ptr[i]
             r == [s EXCEPT !.heap[p].addrQ = None, !.heap[p].addrRes = None]
             closed == [r EXCEPT !.heap[p].dhcpQ = None, !.heap[p].dhcpRes = None]
  <1>1. CASE u = s BY <1>1, PreservesSame
  <1>2. CASE u = Faulted(s, "freed") BY <1>2, FaultedPreserves
  <1>3. CASE p # None /\ \E t \in CloseDnsQuery(closed, p) :
               u = [t EXCEPT !.heap[p] = BlankPriv]
    <2>1. p \in PrivIds BY <1>3 DEF States
    <2> HIDE DEF p
    <2>2. Preserves(s, r) BY <2>1, QueryForgotten
    <2>3. r \in States BY <2>2 DEF Preserves
    <2> HIDE DEF r
    <2>4. Preserves(r, closed) BY <2>1, <2>3, QueryForgotten
    <2>5. closed \in States BY <2>4 DEF Preserves
    <2>6. PICK t \in CloseDnsQuery(closed, p) : u = [t EXCEPT !.heap[p] = BlankPriv]
      BY <1>3
    <2> HIDE DEF closed
    <2>7. Preserves(closed, t) BY <2>1, <2>5, CloseDnsQueryPreserves
    <2>8. t \in States BY <2>7 DEF Preserves
    <2>9. BlankPriv \in Priv BY DEF BlankPriv, Priv
    <2>10. Preserves(t, u) BY <2>1, <2>6, <2>8, <2>9, HeapPreserves
    <2>11. Preserves(s, closed) BY <2>2, <2>4, PreservesTrans
    <2>12. Preserves(s, t) BY <2>7, <2>11, PreservesTrans
    <2> QED BY <2>10, <2>12, PreservesTrans
  <1> QED BY <1>1, <1>2, <1>3 DEF CleanupPriv

\* Enabling or disabling one instance.
LEMMA TogglePreserves ==
    ASSUME NEW s \in States, NEW i \in Ifs, NEW enable, NEW u \in Toggle(s, i, enable)
    PROVE  Preserves(s, u)
  <1>1. CASE u \in EnableInterface(s, i) BY <1>1, EnableInterfacePreserves
  <1>2. CASE \E t \in Disable(s, i, "Disabled") : u \in CleanupPriv(t, i)
    <2>1. PICK t \in Disable(s, i, "Disabled") : u \in CleanupPriv(t, i) BY <1>2
    <2>2. "Disabled" \in Statuses \ {"Enabled"} BY DEF Statuses
    <2>3. Preserves(s, t) BY <2>1, <2>2, DisablePreserves
    <2>4. t \in States BY <2>3 DEF Preserves
    <2>5. Preserves(t, u) BY <2>1, <2>4, CleanupPrivPreserves
    <2> QED BY <2>3, <2>5, PreservesTrans
  <1> QED BY <1>1, <1>2 DEF Toggle

-----------------------------------------------------------------------------
(* The handlers of the data model's events.                                *)

\* Making EndpointName read-only, or writable.
LEMMA MarkPreserves ==
    ASSUME NEW s \in States, NEW i \in Ifs
    PROVE  Preserves(s, MarkEndpointName(s, i))
  <1> DEFINE r == IF Method(s.conf[i]) = "DHCPV6" THEN s.readOnly \cup {i}
                                                  ELSE s.readOnly \ {i}
  <1>1. r \in SUBSET Ifs BY DEF States
  <1>2. MarkEndpointName(s, i) = [s EXCEPT !.readOnly = r] BY DEF MarkEndpointName
  <1> HIDE DEF r
  <1>3. /\ [s EXCEPT !.readOnly = r] \in States
        /\ [s EXCEPT !.readOnly = r].oper = s.oper /\ [s EXCEPT !.readOnly = r].ptr = s.ptr
        /\ [s EXCEPT !.readOnly = r].tunnel = s.tunnel /\ [s EXCEPT !.readOnly = r].ip = s.ip
        /\ [s EXCEPT !.readOnly = r].fault = s.fault
    BY <1>1 DEF States
  <1> QED BY <1>2, <1>3 DEF Preserves, Sound, TunnelIs

\* The common end of the two precedence handlers.
LEMMA RestartRemotePreserves ==
    ASSUME NEW s \in States, NEW i \in Ifs, NEW u \in RestartRemote(s, i)
    PROVE  Preserves(s, u)
  <1>1. PICK v \in ClearRemote(s, i) :
               \E t \in GetRemoteEndpAddr(v, i) : u \in UseRemote(t, i)
    BY DEF RestartRemote
  <1>2. PICK t \in GetRemoteEndpAddr(v, i) : u \in UseRemote(t, i) BY <1>1
  <1>3. Preserves(s, v) BY ClearRemotePreserves
  <1>4. v \in States BY <1>3 DEF Preserves
  <1>5. Preserves(v, u) BY <1>2, <1>4, GetAndUsePreserves
  <1> QED BY <1>3, <1>5, PreservesTrans

\* Each handler of a parameter of an instance.
LEMMA ToggleInterfacePreserves ==
    ASSUME NEW s \in States, NEW i \in Ifs, NEW enable, NEW u \in ToggleInterface(s, i, enable)
    PROVE  Preserves(s, u)
  BY TogglePreserves, PreservesSame DEF ToggleInterface

\* _endpoint_address_changed.
LEMMA EndpointAddressPreserves ==
    ASSUME NEW s \in States, NEW i \in Ifs, NEW u \in EndpointAddressChanged(s, i)
    PROVE  Preserves(s, u)
  <1>1. u = s \/ \E t \in GetRemoteEndpAddr(s, i) : u \in UseRemote(t, i)
    BY DEF EndpointAddressChanged
  <1> QED BY <1>1, PreservesSame, GetAndUsePreserves

\* _endpoint_assignment_precedence_changed.
LEMMA AssignmentPrecedencePreserves ==
    ASSUME NEW s \in States, NEW i \in Ifs, NEW u \in AssignmentPrecedenceChanged(s, i)
    PROVE  Preserves(s, u)
  <1> DEFINE m == MarkEndpointName(s, i)
  <1>1. u \in RestartRemote(m, i) \/ u = m BY DEF AssignmentPrecedenceChanged
  <1>2. Preserves(s, m) BY MarkPreserves
  <1>3. m \in States BY <1>2 DEF Preserves
  <1> HIDE DEF m
  <1>4. u \in RestartRemote(m, i) => Preserves(m, u) BY <1>3, RestartRemotePreserves
  <1> QED BY <1>1, <1>2, <1>4, PreservesTrans

\* _endpoint_name_changed.
LEMMA EndpointNamePreserves ==
    ASSUME NEW s \in States, NEW i \in Ifs, NEW name, NEW u \in EndpointNameChanged(s, i, name)
    PROVE  Preserves(s, u)
  <1>1. u = s \/ \E t \in ResolveEndpointName(s, i, name) : u \in DisableOnError(t, i)
    BY DEF EndpointNameChanged
  <1>2. ASSUME NEW t \in ResolveEndpointName(s, i, name), u \in DisableOnError(t, i)
        PROVE  Preserves(s, u)
    <2>1. Preserves(s, t) BY ResolvePreserves
    <2>2. t \in States BY <2>1 DEF Preserves
    <2>3. Preserves(t, u) BY <1>2, <2>2, DisableOnErrorPreserves
    <2> QED BY <2>1, <2>3, PreservesTrans
  <1> QED BY <1>1, <1>2, PreservesSame

\* _endpoint_address_type_precedence_changed.
LEMMA AddressTypePreserves ==
    ASSUME NEW s \in States, NEW i \in Ifs, NEW u \in AddressTypePrecedenceChanged(s, i)
    PROVE  Preserves(s, u)
  BY RestartRemotePreserves, PreservesSame DEF AddressTypePrecedenceChanged

\* _wan_interface_changed.
LEMMA WanInterfacePreserves ==
    ASSUME NEW s \in States, NEW i \in Ifs, NEW u \in WanInterfaceChanged(s, i)
    PROVE  Preserves(s, u)
  <1>1. \/ u = s
        \/ \E t \in OpenAddrQuery(s, i) : u \in Disable(t, i, "Error") \/ u \in Setup(t, i)
    BY DEF WanInterfaceChanged
  <1>2. ASSUME NEW t \in OpenAddrQuery(s, i), u \in Disable(t, i, "Error") \/ u \in Setup(t, i)
        PROVE  Preserves(s, u)
    <2>1. Preserves(s, t) BY OpenAddrQueryPreserves
    <2>2. t \in States BY <2>1 DEF Preserves
    <2>3. "Error" \in Statuses \ {"Enabled"} BY DEF Statuses
    <2>4. Preserves(t, u) BY <1>2, <2>2, <2>3, DisablePreserves, SetupPreserves
    <2> QED BY <2>1, <2>4, PreservesTrans
  <1> QED BY <1>1, <1>2, PreservesSame

\* The handlers of one event, one after the other.
LEMMA SettingChangedPreserves ==
    ASSUME NEW s \in States, NEW e, e.obj \in Ifs, NEW u \in SettingChanged(s, e)
    PROVE  Preserves(s, u)
  <1> DEFINE i == e.obj
             a == IF "enable" \in e.changed THEN ToggleInterface(s, i, e.enable) ELSE {s}
             b == IF "addr" \in e.changed
                    THEN UNION {EndpointAddressChanged(t, i) : t \in a} ELSE a
             c == IF "prec" \in e.changed
                    THEN UNION {AssignmentPrecedenceChanged(t, i) : t \in b} ELSE b
             d == IF "name" \in e.changed
                    THEN UNION {EndpointNameChanged(t, i, e.name) : t \in c} ELSE c
             f == IF "type" \in e.changed
                    THEN UNION {AddressTypePrecedenceChanged(t, i) : t \in d} ELSE d
             g == IF "wan" \in e.changed
                    THEN UNION {WanInterfaceChanged(t, i) : t \in f} ELSE f
  <1>1. u \in g BY DEF SettingChanged
  <1>2. \A t \in a : Preserves(s, t) BY ToggleInterfacePreserves, PreservesSame
  <1> HIDE DEF a
  <1>3. ASSUME NEW v \in b PROVE Preserves(s, v)
    <2>1. v \in a \/ \E t \in a : v \in EndpointAddressChanged(t, i) OBVIOUS
    <2>2. ASSUME NEW t \in a, v \in EndpointAddressChanged(t, i) PROVE Preserves(s, v)
      <3>1. Preserves(s, t) /\ t \in States BY <1>2 DEF Preserves
      <3>2. Preserves(t, v) BY <2>2, <3>1, EndpointAddressPreserves
      <3> QED BY <3>1, <3>2, PreservesTrans
    <2> QED BY <1>2, <2>1, <2>2
  <1> HIDE DEF b
  <1>4. ASSUME NEW v \in c PROVE Preserves(s, v)
    <2>1. v \in b \/ \E t \in b : v \in AssignmentPrecedenceChanged(t, i) OBVIOUS
    <2>2. ASSUME NEW t \in b, v \in AssignmentPrecedenceChanged(t, i) PROVE Preserves(s, v)
      <3>1. Preserves(s, t) /\ t \in States BY <1>3 DEF Preserves
      <3>2. Preserves(t, v) BY <2>2, <3>1, AssignmentPrecedencePreserves
      <3> QED BY <3>1, <3>2, PreservesTrans
    <2> QED BY <1>3, <2>1, <2>2
  <1> HIDE DEF c
  <1>5. ASSUME NEW v \in d PROVE Preserves(s, v)
    <2>1. v \in c \/ \E t \in c : v \in EndpointNameChanged(t, i, e.name) OBVIOUS
    <2>2. ASSUME NEW t \in c, v \in EndpointNameChanged(t, i, e.name) PROVE Preserves(s, v)
      <3>1. Preserves(s, t) /\ t \in States BY <1>4 DEF Preserves
      <3>2. Preserves(t, v) BY <2>2, <3>1, EndpointNamePreserves
      <3> QED BY <3>1, <3>2, PreservesTrans
    <2> QED BY <1>4, <2>1, <2>2
  <1> HIDE DEF d
  <1>6. ASSUME NEW v \in f PROVE Preserves(s, v)
    <2>1. v \in d \/ \E t \in d : v \in AddressTypePrecedenceChanged(t, i) OBVIOUS
    <2>2. ASSUME NEW t \in d, v \in AddressTypePrecedenceChanged(t, i) PROVE Preserves(s, v)
      <3>1. Preserves(s, t) /\ t \in States BY <1>5 DEF Preserves
      <3>2. Preserves(t, v) BY <2>2, <3>1, AddressTypePreserves
      <3> QED BY <3>1, <3>2, PreservesTrans
    <2> QED BY <1>5, <2>1, <2>2
  <1> HIDE DEF f
  <1>7. ASSUME NEW v \in g PROVE Preserves(s, v)
    <2>1. v \in f \/ \E t \in f : v \in WanInterfaceChanged(t, i) OBVIOUS
    <2>2. ASSUME NEW t \in f, v \in WanInterfaceChanged(t, i) PROVE Preserves(s, v)
      <3>1. Preserves(s, t) /\ t \in States BY <1>6 DEF Preserves
      <3>2. Preserves(t, v) BY <2>2, <3>1, WanInterfacePreserves
      <3> QED BY <3>1, <3>2, PreservesTrans
    <2> QED BY <1>6, <2>1, <2>2
  <1> QED BY <1>1, <1>7

\* The handlers of an event whose instance was deleted.
LEMMA InstanceGonePreserves ==
    ASSUME NEW s \in States, NEW e, NEW u \in InstanceGone(s, e)
    PROVE  Preserves(s, u)
  BY FaultedPreserves, PreservesSame DEF InstanceGone

-----------------------------------------------------------------------------
(* The inductive invariant.                                                *)

\* EnabledMeansTunnel, strengthened: while Status is Enabled there is also
\* private data, without which Disable would take the tunnel down and leave
\* Status as it is.
TunnelLinked ==
    \A i \in Ifs : oper[i].status = "Enabled" =>
        /\ ptr[i] # None
        /\ tunnel = [remote |-> oper[i].inUse, local |-> oper[i].local, up |-> TRUE]
        /\ ip = [tunneled |-> TRUE, lower |-> i, tunnel |-> TRUE]

IInv == TypeOK /\ (SoleInterface => TunnelLinked)

\* The invariant says of the variables what Sound says of a state.
LEMMA StateSound ==
    ASSUME IInv PROVE State \in States /\ Sound(State)
  <1>1. State \in States BY DEF IInv, TypeOK, State, States
  <1>2. /\ State.oper = oper /\ State.ptr = ptr /\ State.tunnel = tunnel /\ State.ip = ip
    BY DEF State
  <1> QED BY <1>1, <1>2 DEF IInv, Sound, TunnelLinked, TunnelIs

\* A handler or a callback that preserves soundness keeps the invariant.
LEMMA BecomeInv ==
    ASSUME IInv, NEW t, Preserves(State, t), Become(t)
    PROVE  IInv'
  <1>1. t \in States BY DEF Preserves
  <1>2. CASE t.fault # None
    <2>1. fault' \in {None, "null", "freed"} BY <1>1, <1>2 DEF States, Become
    <2>2. UNCHANGED <<dmVars, ptr, heap, envVars, queue, todo, todoEnable>>
      BY <1>2 DEF Become
    <2>3. TypeOK' BY <2>1, <2>2 DEF IInv, TypeOK, dmVars, envVars
    <2>4. (SoleInterface => TunnelLinked)' BY <2>2 DEF IInv, TunnelLinked, dmVars, envVars
    <2> QED BY <2>3, <2>4 DEF IInv
  <1>3. CASE t.fault = None
    <2>1. TypeOK' BY <1>1, <1>3 DEF States, Become, TypeOK
    <2>2. Sound(t) BY <1>3, StateSound DEF Preserves
    <2>3. oper' = t.oper /\ ptr' = t.ptr /\ tunnel' = t.tunnel /\ ip' = t.ip
      BY <1>3 DEF Become
    <2>4. (SoleInterface => TunnelLinked)' BY <2>2, <2>3 DEF Sound, TunnelIs, TunnelLinked
    <2> QED BY <2>1, <2>4 DEF IInv
  <1> QED BY <1>2, <1>3

\* What an action does to the state before it calls a handler.
LEMMA QueuePreserves ==
    ASSUME NEW s \in States, NEW q \in Seq(Event), NEW d \in SUBSET Ifs
    PROVE  Preserves(s, [s EXCEPT !.queue = q]) /\ Preserves(s, [s EXCEPT !.todo = d])
  BY DEF States, Preserves, Sound, TunnelIs

-----------------------------------------------------------------------------
(* The actions of the event loop.                                          *)

\* The event handled and the events left are events.
LEMMA HeadTyped ==
    ASSUME TypeOK, queue # <<>>
    PROVE  Head(queue) \in Event /\ Tail(queue) \in Seq(Event)
  BY DEF TypeOK

\* _interface_added keeps the invariant.
LEMMA HandleAddedStep ==
    ASSUME IInv, HandleAdded PROVE IInv'
  <1>1. Head(queue) \in Event /\ Tail(queue) \in Seq(Event)
    BY HeadTyped DEF IInv, HandleAdded
  <1>2. readOnly' \subseteq Ifs
    <2>1. CASE Head(queue).obj = None BY <2>1 DEF HandleAdded, IInv, TypeOK
    <2>2. CASE Head(queue).obj # None
      <3>1. Head(queue).obj \in Ifs BY <1>1, <2>2 DEF Event
      <3>2. State \in States BY StateSound
      <3>3. MarkEndpointName(State, Head(queue).obj) \in States
        BY <3>1, <3>2, MarkPreserves DEF Preserves
      <3> QED BY <2>2, <3>3 DEF HandleAdded, States
    <2> QED BY <2>1, <2>2
  <1>3. TypeOK' BY <1>1, <1>2 DEF HandleAdded, IInv, TypeOK, envVars
  <1>4. (SoleInterface => TunnelLinked)'
    BY DEF HandleAdded, IInv, TunnelLinked, envVars
  <1> QED BY <1>3, <1>4 DEF IInv

\* The handlers of a changed parameter keep it.
LEMMA HandleSettingStep ==
    ASSUME IInv, HandleSetting PROVE IInv'
  <1> DEFINE e == Head(queue)
             s == [State EXCEPT !.queue = Tail(queue)]
  <1>1. e \in Event /\ Tail(queue) \in Seq(Event)
    BY HeadTyped DEF IInv, HandleSetting
  <1>2. PICK t \in IF e.obj = None THEN InstanceGone(s, e) ELSE SettingChanged(s, e) :
               Become(t)
    BY DEF HandleSetting
  <1>3. State \in States BY StateSound
  <1>4. Preserves(State, s) BY <1>1, <1>3, QueuePreserves
  <1>5. s \in States BY <1>4 DEF Preserves
  <1>6. e.obj # None => e.obj \in Ifs BY <1>1 DEF Event
  <1> HIDE DEF e, s
  <1>7. Preserves(s, t) BY <1>2, <1>5, <1>6, InstanceGonePreserves, SettingChangedPreserves
  <1>8. Preserves(State, t) BY <1>3, <1>4, <1>7, PreservesTrans
  <1> QED BY <1>2, <1>8, BecomeInv

\* _toggle_dslite keeps it, when it collects the instances ...
LEMMA HandleDsliteStep ==
    ASSUME IInv, HandleDslite PROVE IInv'
  <1>1. Head(queue) \in Event /\ Tail(queue) \in Seq(Event)
    BY HeadTyped DEF IInv, HandleDslite
  <1>2. Head(queue).enable \in BOOLEAN BY <1>1 DEF Event
  <1>3. TypeOK' BY <1>1, <1>2 DEF HandleDslite, IInv, TypeOK, dmVars, envVars
  <1>4. (SoleInterface => TunnelLinked)'
    BY DEF HandleDslite, IInv, TunnelLinked, dmVars, envVars
  <1> QED BY <1>3, <1>4 DEF IInv

\* ... and when it visits one.
LEMMA ToggleDsliteStep ==
    ASSUME IInv, ToggleDslite PROVE IInv'
  <1>1. PICK i \in todo : \E t \in Toggle([State EXCEPT !.todo = todo \ {i}], i, todoEnable) :
                            Become(t)
    BY DEF ToggleDslite
  <1> DEFINE s == [State EXCEPT !.todo = todo \ {i}]
  <1>2. PICK t \in Toggle(s, i, todoEnable) : Become(t) BY <1>1
  <1>3. i \in Ifs /\ todo \ {i} \in SUBSET Ifs BY DEF IInv, TypeOK
  <1>4. State \in States BY StateSound
  <1>5. <<>> \in Seq(Event) OBVIOUS
  <1>6. Preserves(State, s) BY <1>3, <1>4, <1>5, QueuePreserves
  <1>7. s \in States BY <1>6 DEF Preserves
  <1> HIDE DEF s
  <1>8. Preserves(s, t) BY <1>2, <1>3, <1>7, TogglePreserves
  <1>9. Preserves(State, t) BY <1>4, <1>6, <1>8, PreservesTrans
  <1> QED BY <1>2, <1>9, BecomeInv

-----------------------------------------------------------------------------
(* The callbacks.                                                          *)

\* dns_timer_cb keeps it.
LEMMA TimerFiresStep ==
    ASSUME IInv, NEW p \in PrivIds, TimerFires(p) PROVE IInv'
  <1> DEFINE i == heap[p].owner
             s == [State EXCEPT !.heap[p].timer = "off"]
  <1>1. PICK t \in IF i = None THEN {Faulted(s, "freed")}
                   ELSE ResolveEndpointName(s, i, s.conf[i].name) : Become(t)
    BY DEF TimerFires
  <1>2. State \in States /\ State.heap = heap BY StateSound DEF State
  <1>3. i # None => i \in Ifs BY DEF IInv, TypeOK, Priv
  <1>4. Preserves(State, s) BY <1>2, SetDns
  <1>5. s \in States BY <1>4 DEF Preserves
  <1> HIDE DEF i, s
  <1>6. Preserves(s, t) BY <1>1, <1>3, <1>5, FaultedPreserves, ResolvePreserves
  <1>7. Preserves(State, t) BY <1>2, <1>4, <1>6, PreservesTrans
  <1> QED BY <1>1, <1>7, BecomeInv

\* An answer of the resolver keeps it.
LEMMA DnsAnswersStep ==
    ASSUME IInv, NEW p \in PrivIds, NEW address \in DnsAddrs \cup {None},
           DnsAnswers(p, address)
    PROVE  IInv'
  <1> DEFINE s == [State EXCEPT !.heap[p].dns = "idle"]
  <1>1. PICK t \in QueryAnswered(s, p, address) : Become(t) BY DEF DnsAnswers
  <1>2. State \in States BY StateSound
  <1>3. Preserves(State, s) BY <1>2, SetDns
  <1>4. s \in States BY <1>3 DEF Preserves
  <1> HIDE DEF s
  <1>5. Preserves(s, t) BY <1>4, QueryAnsweredPreserves
  <1>6. Preserves(State, t) BY <1>2, <1>3, <1>5, PreservesTrans
  <1> QED BY <1>1, <1>6, BecomeInv

\* The timer that destroys an answered query's channel keeps it.
LEMMA DnsChannelExpiresStep ==
    ASSUME IInv, NEW p \in PrivIds, DnsChannelExpires(p) PROVE IInv'
  <1>1. heap' \in [PrivIds -> Priv]
    <2>1. heap[p] \in Priv BY DEF IInv, TypeOK
    <2>2. [heap[p] EXCEPT !.dns = "dead"] \in Priv BY <2>1 DEF Priv
    <2>3. heap' = [heap EXCEPT ![p] = [heap[p] EXCEPT !.dns = "dead"]]
      BY DEF DnsChannelExpires
    <2> QED BY <2>2, <2>3 DEF IInv, TypeOK
  <1>2. TypeOK' BY <1>1 DEF DnsChannelExpires, IInv, TypeOK, dmVars, envVars, loopVars
  <1>3. (SoleInterface => TunnelLinked)'
    BY DEF DnsChannelExpires, IInv, TunnelLinked, dmVars, envVars
  <1> QED BY <1>2, <1>3 DEF IInv

\* A report of another WAN address keeps it.
LEMMA AddrChangesStep ==
    ASSUME IInv, NEW p \in PrivIds, NEW a \in LocalAddrs \cup {None}, AddrChanges(p, a)
    PROVE  IInv'
  <1> DEFINE s == [State EXCEPT !.heap[p].addrRes = a]
  <1>1. PICK t \in AddrReported(s, p, a) : Become(t) BY DEF AddrChanges
  <1>2. State \in States BY StateSound
  <1>3. Preserves(State, s) BY <1>2, SetQueries
  <1>4. s \in States BY <1>3 DEF Preserves
  <1> HIDE DEF s
  <1>5. Preserves(s, t) BY <1>4, AddrReportedPreserves
  <1>6. Preserves(State, t) BY <1>2, <1>3, <1>5, PreservesTrans
  <1> QED BY <1>1, <1>6, BecomeInv

\* A report of another name keeps it.
LEMMA DhcpChangesStep ==
    ASSUME IInv, NEW p \in PrivIds, NEW name \in Names \cup {None}, DhcpChanges(p, name)
    PROVE  IInv'
  <1> DEFINE s == [State EXCEPT !.heap[p].dhcpRes = name]
  <1>1. PICK t \in DhcpReported(s, p, name) : Become(t) BY DEF DhcpChanges
  <1>2. State \in States BY StateSound
  <1>3. Preserves(State, s) BY <1>2, SetQueries
  <1>4. s \in States BY <1>3 DEF Preserves
  <1> HIDE DEF s
  <1>5. Preserves(s, t) BY <1>4, DhcpReportedPreserves
  <1>6. Preserves(State, t) BY <1>2, <1>3, <1>5, PreservesTrans
  <1> QED BY <1>1, <1>6, BecomeInv

-----------------------------------------------------------------------------
(* The users, and restarts.                                                *)

\* The events that writes and additions queue.
LEMMA EventsTyped ==
    /\ \A i \in Ifs : AddedEvent(i) \in Event
    /\ \A b \in BOOLEAN : DsliteEvent(b) \in Event
    /\ \A i \in Ifs, T \in SUBSET Params, c \in Conf : SettingEvent(i, T, c) \in Event
  BY DEF AddedEvent, DsliteEvent, SettingEvent, Event, Conf

\* The values instances and private data start with.
LEMMA DefaultsTyped ==
    /\ DefaultOper \in Oper /\ DefaultOper.status # "Enabled"
    /\ DefaultConf \in Conf
    /\ \A b \in BOOLEAN : [DefaultConf EXCEPT !.enable = b] \in Conf
    /\ BlankPriv \in Priv
  BY ConstantsAssumption
     DEF DefaultOper, Oper, Statuses, DefaultConf, Conf, AnyWAN, BlankPriv, Priv

\* A write of DSLite.Enable keeps the invariant.
LEMMA WriteDsliteStep ==
    ASSUME IInv, WriteDslite PROVE IInv'
  <1>1. (~dslEnable) \in BOOLEAN OBVIOUS
  <1>2. queue \in Seq(Event) BY DEF IInv, TypeOK
  <1>3. DsliteEvent(~dslEnable) \in Event BY <1>1, EventsTyped
  <1>4. queue' \in Seq(Event) BY <1>2, <1>3 DEF WriteDslite
  <1>5. TypeOK' BY <1>4 DEF WriteDslite, IInv, TypeOK, envVars
  <1>6. (SoleInterface => TunnelLinked)' BY DEF WriteDslite, IInv, TunnelLinked, envVars
  <1> QED BY <1>5, <1>6 DEF IInv

\* A transaction writes values of the parameters' types.
LEMMA RewrittenTyped ==
    ASSUME NEW c \in Conf, NEW T \in SUBSET Params, NEW d \in Rewritten(c, T)
    PROVE  d \in Conf
  BY DEF Rewritten, Conf

\* A transaction on an instance keeps the invariant.
LEMMA WriteSettingStep ==
    ASSUME IInv, NEW i \in Ifs, NEW T \in Transactions, WriteSetting(i, T) PROVE IInv'
  <1>1. T \in SUBSET Params BY ConstantsAssumption
  <1>2. conf[i] \in Conf /\ queue \in Seq(Event) BY DEF IInv, TypeOK
  <1>3. PICK c \in Rewritten(conf[i], T) :
               /\ conf' = [conf EXCEPT ![i] = c]
               /\ queue' = Append(queue, SettingEvent(i, T, c))
    BY DEF WriteSetting
  <1>4. c \in Conf BY <1>1, <1>2, <1>3, RewrittenTyped
  <1>5. SettingEvent(i, T, c) \in Event BY <1>1, <1>4, EventsTyped
  <1>6. queue' \in Seq(Event) BY <1>2, <1>3, <1>5
  <1>7. conf' \in [Ifs -> Conf] BY <1>3, <1>4 DEF IInv, TypeOK
  <1>8. TypeOK' BY <1>6, <1>7 DEF WriteSetting, IInv, TypeOK, envVars
  <1>9. (SoleInterface => TunnelLinked)' BY DEF WriteSetting, IInv, TunnelLinked, envVars
  <1> QED BY <1>8, <1>9 DEF IInv

\* Adding an instance keeps it: the new one is Disabled.
LEMMA AddInstanceStep ==
    ASSUME IInv, NEW i \in Ifs, AddInstance(i) PROVE IInv'
  <1>1. AddedEvent(i) \in Event /\ queue \in Seq(Event) BY EventsTyped DEF IInv, TypeOK
  <1>2. queue' \in Seq(Event) BY <1>1 DEF AddInstance
  <1>3. PICK b \in BOOLEAN : conf' = [conf EXCEPT ![i] = [DefaultConf EXCEPT !.enable = b]]
    BY DEF AddInstance
  <1>4. conf' \in [Ifs -> Conf] BY <1>3, DefaultsTyped DEF IInv, TypeOK
  <1>5. present' \subseteq Ifs /\ readOnly' \subseteq Ifs BY DEF AddInstance, IInv, TypeOK
  <1>6. oper' \in [Ifs -> Oper] BY DefaultsTyped DEF AddInstance, IInv, TypeOK
  <1>7. ptr' \in [Ifs -> PrivIds \cup {None}] BY DEF AddInstance, IInv, TypeOK
  <1>8. TypeOK' BY <1>2, <1>4, <1>5, <1>6, <1>7 DEF AddInstance, IInv, TypeOK, envVars
  <1>9. \A j \in Ifs : oper'[j].status = "Enabled" =>
          j # i /\ oper'[j] = oper[j] /\ ptr'[j] = ptr[j]
    BY DefaultsTyped DEF AddInstance, IInv, TypeOK
  <1>10. (SoleInterface => TunnelLinked)'
    BY <1>9 DEF AddInstance, IInv, TunnelLinked, envVars
  <1> QED BY <1>8, <1>10 DEF IInv

\* Deleting an instance keeps it: its Status goes with it.
LEMMA DeleteInstanceStep ==
    ASSUME IInv, NEW i \in Ifs, DeleteInstance(i) PROVE IInv'
  <1>1. queue' \in Seq(Event)
    <2> DEFINE e(k) == IF queue[k].obj = i THEN [queue[k] EXCEPT !.obj = None] ELSE queue[k]
    <2>1. queue \in Seq(Event) BY DEF IInv, TypeOK
    <2>2. \A k \in 1..Len(queue) : queue[k] \in Event BY <2>1
    <2>3. \A k \in 1..Len(queue) : e(k) \in Event BY <2>2 DEF Event
    <2>4. Len(queue) \in Nat BY <2>1
    <2>5. queue' = [k \in 1..Len(queue) |-> e(k)] BY DEF DeleteInstance
    <2> HIDE DEF e
    <2> QED BY <2>3, <2>4, <2>5
  <1>2. heap' \in [PrivIds -> Priv]
    <2>1. \A p \in PrivIds : heap[p] \in Priv BY DEF IInv, TypeOK
    <2>2. \A p \in PrivIds : [heap[p] EXCEPT !.owner = None] \in Priv BY <2>1 DEF Priv
    <2> QED BY <2>1, <2>2 DEF DeleteInstance
  <1>3. conf' \in [Ifs -> Conf] /\ oper' \in [Ifs -> Oper]
    BY DefaultsTyped DEF DeleteInstance, IInv, TypeOK
  <1>4. ptr' \in [Ifs -> PrivIds \cup {None}] BY DEF DeleteInstance, IInv, TypeOK
  <1>5. present' \subseteq Ifs /\ readOnly' \subseteq Ifs BY DEF DeleteInstance, IInv, TypeOK
  <1>6. TypeOK'
    BY <1>1, <1>2, <1>3, <1>4, <1>5 DEF DeleteInstance, IInv, TypeOK, envVars
  <1>7. \A j \in Ifs : oper'[j].status = "Enabled" =>
          j # i /\ oper'[j] = oper[j] /\ ptr'[j] = ptr[j]
    BY DefaultsTyped DEF DeleteInstance, IInv, TypeOK
  <1>8. (SoleInterface => TunnelLinked)'
    BY <1>7 DEF DeleteInstance, IInv, TunnelLinked, envVars
  <1> QED BY <1>6, <1>8 DEF IInv

\* The events of a start: one for each instance, and one for DSLite.Enable.
LEMMA BootTyped ==
    ASSUME NEW S \in SUBSET Ifs, NEW enable \in BOOLEAN, NEW q \in Boot(S, enable)
    PROVE  q \in Seq(Event)
  <1> DEFINE n == Cardinality(S)
  <1>1. n \in Nat BY ConstantsAssumption, FS_Subset, FS_CardinalityType
  <1> HIDE DEF n
  <1>2. PICK order \in [1..n -> S] :
               q = [k \in 1..n |-> AddedEvent(order[k])]
                     \o (IF enable THEN <<DsliteEvent(TRUE)>> ELSE <<>>)
    BY DEF Boot, n
  <1>3. \A k \in 1..n : AddedEvent(order[k]) \in Event BY EventsTyped
  <1>4. [k \in 1..n |-> AddedEvent(order[k])] \in Seq(Event) BY <1>1, <1>3
  <1>5. <<DsliteEvent(TRUE)>> \in Seq(Event)
    <2>1. TRUE \in BOOLEAN OBVIOUS
    <2> DEFINE e == DsliteEvent(TRUE)
    <2>2. e \in Event BY <2>1, EventsTyped
    <2> HIDE DEF e
    <2>3. <<e>> \in Seq(Event) BY <2>2
    <2> QED BY <2>3 DEF e
  <1>6. <<>> \in Seq(Event) OBVIOUS
  <1>7. (IF enable THEN <<DsliteEvent(TRUE)>> ELSE <<>>) \in Seq(Event) BY <1>5, <1>6
  <1> QED BY <1>2, <1>4, <1>7, ConcatProperties

\* A restart keeps the invariant: every instance is Disabled again.
LEMMA RestartStep ==
    ASSUME IInv, Restart PROVE IInv'
  <1>1. queue' \in Seq(Event)
    <2>1. present \in SUBSET Ifs /\ dslEnable \in BOOLEAN BY DEF IInv, TypeOK
    <2> QED BY <2>1, BootTyped DEF Restart
  <1>2. conf' \in [Ifs -> Conf]
    <2>1. \A i \in Ifs : conf[i] \in Conf BY DEF IInv, TypeOK
    <2>2. \A i \in Ifs : [conf[i] EXCEPT !.name = None] \in Conf BY <2>1 DEF Conf
    <2> QED BY <2>1, <2>2 DEF Restart
  <1>3. oper' \in [Ifs -> Oper] /\ heap' \in [PrivIds -> Priv]
    BY DefaultsTyped DEF Restart
  <1>4. TypeOK' BY <1>1, <1>2, <1>3 DEF Restart, IInv, TypeOK, envVars
  <1>5. (SoleInterface => TunnelLinked)' BY DefaultsTyped DEF Restart, TunnelLinked
  <1> QED BY <1>4, <1>5 DEF IInv

-----------------------------------------------------------------------------
(* The theorems.                                                           *)

\* The invariant holds at first ...
LEMMA InitInv == Init => IInv
  <1> SUFFICES ASSUME Init PROVE IInv OBVIOUS
  <1>1. queue \in Seq(Event)
    <2>1. Provisioned \in SUBSET Ifs BY ConstantsAssumption
    <2> QED BY <2>1, BootTyped DEF Init
  <1>2. conf \in [Ifs -> Conf]
    <2>1. \A i \in Ifs : (i \in Provisioned) \in BOOLEAN OBVIOUS
    <2>2. \A i \in Ifs : [DefaultConf EXCEPT !.enable = i \in Provisioned] \in Conf
      BY <2>1, DefaultsTyped
    <2> QED BY <2>2 DEF Init
  <1>3. oper \in [Ifs -> Oper] /\ heap \in [PrivIds -> Priv] BY DefaultsTyped DEF Init
  <1>4. ip \in IpIfs BY DEF Init, IpIfs
  <1>5. TypeOK BY <1>1, <1>2, <1>3, <1>4, ConstantsAssumption DEF Init, TypeOK
  <1>6. SoleInterface => TunnelLinked BY DefaultsTyped DEF Init, TunnelLinked
  <1> QED BY <1>5, <1>6 DEF IInv

\* ... and every step keeps it.
LEMMA NextInv == IInv /\ [Next]_vars => IInv'
  <1> SUFFICES ASSUME IInv, [Next]_vars PROVE IInv' OBVIOUS
  <1>1. CASE Loop
    BY <1>1, HandleAddedStep, HandleSettingStep, HandleDsliteStep, ToggleDsliteStep DEF Loop
  <1>2. CASE Timers BY <1>2, TimerFiresStep, DnsChannelExpiresStep DEF Timers
  <1>3. CASE Resolver BY <1>3, DnsAnswersStep DEF Resolver
  <1>4. CASE NetModel BY <1>4, AddrChangesStep, DhcpChangesStep DEF NetModel
  <1>5. CASE Users
    BY <1>5, WriteDsliteStep, WriteSettingStep, AddInstanceStep, DeleteInstanceStep DEF Users
  <1>6. CASE Restart BY <1>6, RestartStep
  <1>7. CASE UNCHANGED vars
    <2>1. TypeOK' BY <1>7 DEF IInv, TypeOK, vars, dmVars, envVars, loopVars
    <2>2. (SoleInterface => TunnelLinked)'
      BY <1>7 DEF IInv, TunnelLinked, vars, dmVars, envVars
    <2> QED BY <2>1, <2>2 DEF IInv
  <1> QED BY <1>1, <1>2, <1>3, <1>4, <1>5, <1>6, <1>7 DEF Next

\* Every handler and callback of the plug-in, whatever fails around it, leaves
\* data model, private data and environment within their types: for any number
\* of instances, of allocations and of queued events.
THEOREM TypeCorrect == Spec => []TypeOK
  <1>1. IInv => TypeOK BY DEF IInv
  <1> QED BY <1>1, InitInv, NextInv, PTL DEF Spec

\* With one instance, while Status is Enabled the kernel's tunnel is up between
\* the addresses the data model shows and both IP interfaces are enabled:
\* setup_dslite_interface and disable_interface never leave Status behind, for
\* any number of queued events, any transactions and any failures.
THEOREM SoleInterfaceTunnel ==
    ASSUME SoleInterface PROVE Spec => []EnabledMeansTunnel
  <1>1. IInv => EnabledMeansTunnel BY DEF IInv, TunnelLinked, EnabledMeansTunnel
  <1> QED BY <1>1, InitInv, NextInv, PTL DEF Spec
=============================================================================
