------------------------- MODULE DSLiteCalm_proofs -------------------------
(***************************************************************************)
(* DSLite under a calm user, one that waits for the event of a write to be *)
(* handled before the next write, changes one parameter at a time, and     *)
(* neither deletes an instance nor adds one that is enabled.  Such a user   *)
(* is not safe from the timers of a DNS query that is replaced, which use  *)
(* it after it was freed (see DnsQuery).  As long as those do no harm, and  *)
(* the theorems assume so, no other callback and no handler ends in a      *)
(* memory error, private data live exactly as long as the instance is      *)
(* active, and once the events are handled the parameters in use are the   *)
(* ones configured.  For any number of instances, blocks of private data   *)
(* and addresses, whatever fails outside, and with restarts.               *)
(***************************************************************************)
EXTENDS DSLite_proofs, FunctionTheorems

CalmUser ==
    /\ Overlap <= 1
    /\ \A T \in Transactions : \E x \in Params : T = {x}
    /\ Churn \cap {"delete", "addEnabled"} = {}

\* The timers of a query that was freed do not fire, or do no harm.
NoStray == "stray" \notin Quirks

-----------------------------------------------------------------------------
(* What the functions that serve one instance may change.                  *)

Enabled(s, i) == s.oper[i].status = "Enabled"

\* Instance i has the private data p: what every function called for it needs.
Holds(s, i, p) ==
    /\ s.fault = None
    /\ p \in PrivIds /\ s.ptr[i] = p
    /\ s.heap[p].alive /\ s.heap[p].owner = i

\* The firewall service is open where an Enabled instance wants it.
OpenOnWan(s, i) ==
    "firewall" \notin Quirks /\ Enabled(s, i) => s.firewall = s.conf[i].wan

SameButName(c, d) ==
    d.enable = c.enable /\ d.prec = c.prec /\ d.type = c.type
    /\ d.addr = c.addr /\ d.wan = c.wan

IsName(e) == e.kind = "setting" /\ e.changed = {"name"}

\* Events of EndpointName of instance i were added at the end of queue q.
Grew(q, r, i) ==
    /\ Len(q) <= Len(r)
    /\ \A k \in 1..Len(q) : r[k] = q[k]
    /\ \A k \in 1..Len(r) : Len(q) < k => IsName(r[k]) /\ r[k].obj = i

\* What all of them leave alone.
Around(s, t) ==
    /\ t \in States /\ t.fault = s.fault
    /\ t.dslEnable = s.dslEnable /\ t.present = s.present
    /\ t.readOnly = s.readOnly /\ t.ptr = s.ptr
    /\ t.todo = s.todo /\ t.todoEnable = s.todoEnable

\* The functions that only talk to the controller, the firewall and the IP
\* manager ...
EnvOnly(s, t) ==
    /\ Around(s, t)
    /\ t.conf = s.conf /\ t.oper = s.oper /\ t.heap = s.heap /\ t.queue = s.queue

\* ... those that write Status, too ...
StatusOnly(s, t, i) ==
    /\ Around(s, t)
    /\ t.conf = s.conf /\ t.heap = s.heap /\ t.queue = s.queue
    /\ \A j \in Ifs \ {i} : t.oper[j] = s.oper[j]
    /\ OpenOnWan(s, i) => OpenOnWan(t, i)

\* ... and those that work on the private data p of i.
Within(s, t, i, p) ==
    /\ Around(s, t)
    /\ \A j \in Ifs \ {i} : t.oper[j] = s.oper[j] /\ t.conf[j] = s.conf[j]
    /\ SameButName(s.conf[i], t.conf[i])
    /\ \A q \in PrivIds \ {p} : t.heap[q] = s.heap[q]
    /\ t.heap[p].alive = s.heap[p].alive /\ t.heap[p].owner = s.heap[p].owner
    /\ Grew(s.queue, t.queue, i)
    /\ OpenOnWan(s, i) => OpenOnWan(t, i)

\* The functions before the remote address is known leave what it comes from.
SameRemote(s, t, p) ==
    /\ t.heap[p].remote = s.heap[p].remote /\ t.heap[p].dns = s.heap[p].dns
    /\ t.heap[p].timer = s.heap[p].timer /\ t.heap[p].dhcpQ = s.heap[p].dhcpQ

\* Adding events is reflexive and transitive.
LEMMA GrewTrans ==
    ASSUME NEW i
    PROVE  /\ \A q \in Seq(Event) : Grew(q, q, i)
           /\ \A q, r, u \in Seq(Event) : Grew(q, r, i) /\ Grew(r, u, i) => Grew(q, u, i)
  <1>1. \A q \in Seq(Event) : Len(q) \in Nat OBVIOUS
  <1>2. \A q \in Seq(Event) : Grew(q, q, i) BY <1>1 DEF Grew
  <1>3. ASSUME NEW q \in Seq(Event), NEW r \in Seq(Event), NEW u \in Seq(Event),
               Grew(q, r, i), Grew(r, u, i)
        PROVE  Grew(q, u, i)
    <2>1. Len(q) \in Nat /\ Len(r) \in Nat /\ Len(u) \in Nat BY <1>1
    <2>2. Len(q) <= Len(u) BY <1>3, <2>1 DEF Grew
    <2>3. \A k \in 1..Len(q) : u[k] = q[k] BY <1>3, <2>1 DEF Grew
    <2>4. ASSUME NEW k \in 1..Len(u), Len(q) < k PROVE IsName(u[k]) /\ u[k].obj = i
      <3>1. CASE Len(r) < k BY <1>3, <3>1 DEF Grew
      <3>2. CASE k <= Len(r) BY <1>3, <2>1, <2>4, <3>2 DEF Grew
      <3> QED BY <2>1, <3>1, <3>2
    <2> QED BY <2>2, <2>3, <2>4 DEF Grew
  <1> QED BY <1>2, <1>3

\* Calling one function after another stays within the same frame.
LEMMA WithinTrans ==
    ASSUME NEW s \in States, NEW t, NEW u, NEW i \in Ifs, NEW p \in PrivIds,
           Within(s, t, i, p), Within(t, u, i, p)
    PROVE  Within(s, u, i, p)
  <1>1. t \in States /\ u \in States BY DEF Within, Around
  <1>2. s.queue \in Seq(Event) /\ t.queue \in Seq(Event) /\ u.queue \in Seq(Event)
    BY <1>1 DEF States
  <1>3. Grew(s.queue, u.queue, i) BY <1>2, GrewTrans DEF Within
  <1>4. Around(s, u) BY DEF Within, Around
  <1> QED BY <1>3, <1>4 DEF Within, SameButName

\* So do the smaller frames.
LEMMA OnlyTrans ==
    ASSUME NEW s, NEW t, NEW u, NEW i
    PROVE  /\ EnvOnly(s, t) /\ EnvOnly(t, u) => EnvOnly(s, u)
           /\ StatusOnly(s, t, i) /\ StatusOnly(t, u, i) => StatusOnly(s, u, i)
  BY DEF EnvOnly, StatusOnly, Around

\* The frames contain one another.
LEMMA OnlyWithin ==
    ASSUME NEW s \in States, NEW t, NEW i \in Ifs, NEW p \in PrivIds
    PROVE  /\ Within(s, s, i, p)
           /\ StatusOnly(s, t, i) => Within(s, t, i, p) /\ SameRemote(s, t, p)
  <1>1. s.queue \in Seq(Event) BY DEF States
  <1>2. Grew(s.queue, s.queue, i) BY <1>1, GrewTrans
  <1> QED BY <1>2 DEF Within, StatusOnly, Around, SameButName, SameRemote

\* Private data is kept within the frame.
LEMMA HoldsKept ==
    ASSUME NEW s, NEW t, NEW i, NEW p, Holds(s, i, p), Within(s, t, i, p)
    PROVE  t \in States /\ Holds(t, i, p)
  BY DEF Holds, Within, Around

\* Return values are outside every frame.
LEMMA ReturnWithin ==
    ASSUME NEW s \in States, NEW n \in {-1, 0, 1}, NEW i \in Ifs, NEW p \in PrivIds
    PROVE  /\ EnvOnly(s, Return(s, n)) /\ StatusOnly(s, Return(s, n), i)
           /\ Within(s, Return(s, n), i, p) /\ SameRemote(s, Return(s, n), p)
           /\ Return(s, n).firewall = s.firewall /\ Return(s, n).oper = s.oper
           /\ Return(s, n).heap = s.heap
           /\ Return(s, n).rv = n
  <1>1. /\ EnvOnly(s, Return(s, n)) /\ Return(s, n).firewall = s.firewall
        /\ Return(s, n).rv = n /\ Return(s, n).oper = s.oper /\ Return(s, n).heap = s.heap
    BY DEF EnvOnly, Around, Return, States
  <1>2. StatusOnly(s, Return(s, n), i)
    BY <1>1 DEF EnvOnly, StatusOnly, OpenOnWan, Enabled
  <1> QED BY <1>1, <1>2, OnlyWithin

\* Writing the block p, but for who owns it, is within the frame.
LEMMA BlockWritten ==
    ASSUME NEW s \in States, NEW i \in Ifs, NEW p \in PrivIds, NEW b \in Priv,
           b.alive = s.heap[p].alive, b.owner = s.heap[p].owner
    PROVE  LET t == [s EXCEPT !.heap[p] = b]
           IN  /\ Within(s, t, i, p)
               /\ t.heap[p] = b /\ t.oper = s.oper /\ t.conf = s.conf
               /\ t.queue = s.queue /\ t.rv = s.rv /\ t.firewall = s.firewall
  <1> DEFINE t == [s EXCEPT !.heap[p] = b]
  <1>1. /\ Around(s, t)
        /\ t.oper = s.oper /\ t.conf = s.conf /\ t.queue = s.queue
        /\ t.firewall = s.firewall /\ t.rv = s.rv
    BY DEF Around, States
  <1>2. t.heap = [s.heap EXCEPT ![p] = b] /\ s.heap \in [PrivIds -> Priv] BY DEF States
  <1>3. t.heap[p] = b /\ \A q \in PrivIds \ {p} : t.heap[q] = s.heap[q] BY <1>2
  <1>4. Grew(s.queue, t.queue, i)
    <2>1. s.queue \in Seq(Event) BY DEF States
    <2> QED BY <1>1, <2>1, GrewTrans
  <1>5. OpenOnWan(s, i) => OpenOnWan(t, i) BY <1>1 DEF OpenOnWan, Enabled
  <1> HIDE DEF t
  <1>6. Within(s, t, i, p) BY <1>1, <1>3, <1>4, <1>5 DEF Within, SameButName
  <1> QED BY <1>1, <1>3, <1>6 DEF t

\* The fields of a block that the functions write ...
WithRemote(s, p, v)  == [s EXCEPT !.heap[p].remote = v]
WithLocal(s, p, v)   == [s EXCEPT !.heap[p].local = v]
WithDns(s, p, v)     == [s EXCEPT !.heap[p].dns = v]
WithTimer(s, p, v)   == [s EXCEPT !.heap[p].timer = v]
WithAddrQ(s, p, v)   == [s EXCEPT !.heap[p].addrQ = v]
WithAddrRes(s, p, v) == [s EXCEPT !.heap[p].addrRes = v]
WithDhcpQ(s, p, v)   == [s EXCEPT !.heap[p].dhcpQ = v]
WithDhcpRes(s, p, v) == [s EXCEPT !.heap[p].dhcpRes = v]

\* t is s with b for the block p, of instance i.
Wrote(s, t, i, p, b) ==
    /\ Within(s, t, i, p) /\ t.heap[p] = b
    /\ t.oper = s.oper /\ t.conf = s.conf /\ t.queue = s.queue /\ t.rv = s.rv

\* ... are written within the frame.
LEMMA FieldsWritten ==
    ASSUME NEW s \in States, NEW i \in Ifs, NEW p \in PrivIds
    PROVE  /\ \A v \in Remotes \cup {None} :
                Wrote(s, WithRemote(s, p, v), i, p, [s.heap[p] EXCEPT !.remote = v])
           /\ \A v \in LocalAddrs \cup {None} :
                Wrote(s, WithLocal(s, p, v), i, p, [s.heap[p] EXCEPT !.local = v])
           /\ \A v \in {"none", "pending", "idle", "dead", "dangling"} :
                Wrote(s, WithDns(s, p, v), i, p, [s.heap[p] EXCEPT !.dns = v])
           /\ \A v \in {"none", "off", "armed"} :
                Wrote(s, WithTimer(s, p, v), i, p, [s.heap[p] EXCEPT !.timer = v])
           /\ \A v \in WANs \cup {None} :
                Wrote(s, WithAddrQ(s, p, v), i, p, [s.heap[p] EXCEPT !.addrQ = v])
           /\ \A v \in LocalAddrs \cup {None} :
                Wrote(s, WithAddrRes(s, p, v), i, p, [s.heap[p] EXCEPT !.addrRes = v])
           /\ \A v \in WANs \cup {None} :
                Wrote(s, WithDhcpQ(s, p, v), i, p, [s.heap[p] EXCEPT !.dhcpQ = v])
           /\ \A v \in Names \cup {None} :
                Wrote(s, WithDhcpRes(s, p, v), i, p, [s.heap[p] EXCEPT !.dhcpRes = v])
  <1> DEFINE W(b) == [s EXCEPT !.heap[p] = b]
             Fine(b) == Wrote(s, W(b), i, p, b)
  <1>1. s.heap[p] \in Priv BY DEF States
  <1>2. ASSUME NEW b \in Priv, b.alive = s.heap[p].alive, b.owner = s.heap[p].owner
        PROVE  Fine(b)
    BY <1>2, BlockWritten DEF Wrote
  <1> HIDE DEF Fine
  <1>3. ASSUME NEW v \in Remotes \cup {None}
        PROVE  Fine([s.heap[p] EXCEPT !.remote = v])
    <2> DEFINE b == [s.heap[p] EXCEPT !.remote = v]
    <2>1. b \in Priv /\ b.alive = s.heap[p].alive /\ b.owner = s.heap[p].owner BY <1>1 DEF Priv
    <2> HIDE DEF b
    <2>2. Fine(b) BY <1>2, <2>1
    <2> QED BY <2>2 DEF b
  <1>4. ASSUME NEW v \in LocalAddrs \cup {None}
        PROVE  Fine([s.heap[p] EXCEPT !.local = v])
    <2> DEFINE b == [s.heap[p] EXCEPT !.local = v]
    <2>1. b \in Priv /\ b.alive = s.heap[p].alive /\ b.owner = s.heap[p].owner BY <1>1 DEF Priv
    <2> HIDE DEF b
    <2>2. Fine(b) BY <1>2, <2>1
    <2> QED BY <2>2 DEF b
  <1>5. ASSUME NEW v \in {"none", "pending", "idle", "dead", "dangling"}
        PROVE  Fine([s.heap[p] EXCEPT !.dns = v])
    <2> DEFINE b == [s.heap[p] EXCEPT !.dns = v]
    <2>1. b \in Priv /\ b.alive = s.heap[p].alive /\ b.owner = s.heap[p].owner BY <1>1 DEF Priv
    <2> HIDE DEF b
    <2>2. Fine(b) BY <1>2, <2>1
    <2> QED BY <2>2 DEF b
  <1>6. ASSUME NEW v \in {"none", "off", "armed"}
        PROVE  Fine([s.heap[p] EXCEPT !.timer = v])
    <2> DEFINE b == [s.heap[p] EXCEPT !.timer = v]
    <2>1. b \in Priv /\ b.alive = s.heap[p].alive /\ b.owner = s.heap[p].owner BY <1>1 DEF Priv
    <2> HIDE DEF b
    <2>2. Fine(b) BY <1>2, <2>1
    <2> QED BY <2>2 DEF b
  <1>7. ASSUME NEW v \in WANs \cup {None}
        PROVE  Fine([s.heap[p] EXCEPT !.addrQ = v])
    <2> DEFINE b == [s.heap[p] EXCEPT !.addrQ = v]
    <2>1. b \in Priv /\ b.alive = s.heap[p].alive /\ b.owner = s.heap[p].owner BY <1>1 DEF Priv
    <2> HIDE DEF b
    <2>2. Fine(b) BY <1>2, <2>1
    <2> QED BY <2>2 DEF b
  <1>8. ASSUME NEW v \in LocalAddrs \cup {None}
        PROVE  Fine([s.heap[p] EXCEPT !.addrRes = v])
    <2> DEFINE b == [s.heap[p] EXCEPT !.addrRes = v]
    <2>1. b \in Priv /\ b.alive = s.heap[p].alive /\ b.owner = s.heap[p].owner BY <1>1 DEF Priv
    <2> HIDE DEF b
    <2>2. Fine(b) BY <1>2, <2>1
    <2> QED BY <2>2 DEF b
  <1>9. ASSUME NEW v \in WANs \cup {None}
        PROVE  Fine([s.heap[p] EXCEPT !.dhcpQ = v])
    <2> DEFINE b == [s.heap[p] EXCEPT !.dhcpQ = v]
    <2>1. b \in Priv /\ b.alive = s.heap[p].alive /\ b.owner = s.heap[p].owner BY <1>1 DEF Priv
    <2> HIDE DEF b
    <2>2. Fine(b) BY <1>2, <2>1
    <2> QED BY <2>2 DEF b
  <1>10. ASSUME NEW v \in Names \cup {None}
        PROVE  Fine([s.heap[p] EXCEPT !.dhcpRes = v])
    <2> DEFINE b == [s.heap[p] EXCEPT !.dhcpRes = v]
    <2>1. b \in Priv /\ b.alive = s.heap[p].alive /\ b.owner = s.heap[p].owner BY <1>1 DEF Priv
    <2> HIDE DEF b
    <2>2. Fine(b) BY <1>2, <2>1
    <2> QED BY <2>2 DEF b
  <1> QED
    BY <1>3, <1>4, <1>5, <1>6, <1>7, <1>8, <1>9, <1>10, PrivFields
       DEF Fine, WithRemote, WithLocal, WithDns, WithTimer, WithAddrQ, WithAddrRes,
           WithDhcpQ, WithDhcpRes

-----------------------------------------------------------------------------
(* The tunnel, the firewall service and the IP interfaces.                 *)

\* update_dslite_tunnel needs both addresses, and leaves the firewall alone.
LEMMA UpdateTunnelOnly ==
    ASSUME NEW s \in States, NEW i \in Ifs, NEW p, Holds(s, i, p),
           NEW t \in UpdateTunnel(s, i)
    PROVE  /\ EnvOnly(s, t) /\ t.firewall = s.firewall
           /\ t.rv = 0 => s.heap[p].local # None /\ s.heap[p].remote # None
  <1>1. t \in States BY UpdateTunnelFrame DEF Frame
  <1>2. s.ptr[i] = p /\ p # None /\ ~Dangling(s, i)
    BY ConstantsAssumption DEF Holds, Dangling
  <1> DEFINE both == s.heap[p].local # None /\ s.heap[p].remote # None
             with(k, n) == Return([s EXCEPT !.tunnel = k], n)
  <1>3. \/ t = Return(s, -1)
        \/ both /\ t = with(TunnelOf(s.heap[p], TRUE), 0)
        \/ both /\ t = with(TunnelOf(s.heap[p], s.tunnel # None /\ s.tunnel.up), -1)
    BY <1>2 DEF UpdateTunnel, Maybe
  <1>4. CASE t = Return(s, -1)
    <2>1. -1 \in {-1, 0, 1} OBVIOUS
    <2>2. EnvOnly(s, t) /\ t.firewall = s.firewall /\ t.rv = -1
      BY <1>4, <2>1, ReturnWithin DEF Holds
    <2> QED BY <2>2
  <1>5. ASSUME NEW k, NEW n, both, t = with(k, n)
        PROVE  EnvOnly(s, t) /\ t.firewall = s.firewall
    BY <1>1, <1>5 DEF EnvOnly, Around, Return, States
  <1> HIDE DEF with
  <1> QED BY <1>3, <1>4, <1>5

\* delete_dslite_tunnel leaves the firewall alone, too.
LEMMA DeleteTunnelOnly ==
    ASSUME NEW s \in States, NEW i \in Ifs, NEW p, Holds(s, i, p),
           NEW t \in DeleteTunnel(s, i)
    PROVE  EnvOnly(s, t) /\ t.firewall = s.firewall /\ t.rv = s.rv
  <1>1. t \in States BY DeleteTunnelFrame DEF Frame
  <1>2. s.ptr[i] = p /\ p # None /\ ~Dangling(s, i)
    BY ConstantsAssumption DEF Holds, Dangling
  <1>3. t = s \/ t = [s EXCEPT !.tunnel = None] BY <1>2 DEF DeleteTunnel, Maybe
  <1> QED BY <1>1, <1>3 DEF EnvOnly, Around, States

\* open_firewall, where the service cannot fail, opens it; close_firewall and
\* open_firewall change nothing else.
LEMMA FirewallOnly ==
    ASSUME NEW s \in States, NEW wan \in AnyWAN \cup {None}
    PROVE  /\ \A t \in OpenFirewall(s, wan) :
                EnvOnly(s, t) /\ t.rv = s.rv /\ ("firewall" \notin Quirks => t.firewall = wan)
           /\ \A t \in CloseFirewall(s) : EnvOnly(s, t) /\ t.rv = s.rv
  <1>1. ASSUME NEW v \in AnyWAN \cup {None}, NEW t, t = s \/ t = [s EXCEPT !.firewall = v]
        PROVE  EnvOnly(s, t) /\ t.rv = s.rv
    BY <1>1 DEF EnvOnly, Around, States
  <1>2. ASSUME NEW t \in OpenFirewall(s, wan)
        PROVE  EnvOnly(s, t) /\ t.rv = s.rv /\ ("firewall" \notin Quirks => t.firewall = wan)
    <2>1. \/ t = [s EXCEPT !.firewall = wan]
          \/ t = s /\ "firewall" \in Quirks
      BY DEF OpenFirewall, Maybe
    <2>2. [s EXCEPT !.firewall = wan].firewall = wan BY DEF States
    <2> QED BY <1>1, <2>1, <2>2
  <1>3. ASSUME NEW t \in CloseFirewall(s) PROVE EnvOnly(s, t) /\ t.rv = s.rv
    <2>1. t = s \/ t = [s EXCEPT !.firewall = None] BY DEF CloseFirewall, Maybe
    <2> QED BY <1>1, <2>1
  <1> QED BY <1>2, <1>3

\* Neither does setting the IP interfaces touch anything else.
LEMMA SetIpOnly ==
    ASSUME NEW s \in States, NEW i \in Ifs, NEW enable \in BOOLEAN,
           NEW t \in SetTunneledIf(s, i, enable) \cup SetTunnelIf(s, enable)
    PROVE  EnvOnly(s, t) /\ t.firewall = s.firewall
  <1>1. t \in States BY SetTunneledIfFrame, SetTunnelIfFrame DEF Frame
  <1>2. \/ t = Return(s, -1) \/ t = Return(s, 1)
        \/ \E k : t = Return([s EXCEPT !.ip = k], 0)
    BY DEF SetTunneledIf, SetTunnelIf, Maybe
  <1>3. -1 \in {-1, 0, 1} /\ 1 \in {-1, 0, 1} OBVIOUS
  <1>4. ASSUME NEW n \in {-1, 0, 1}, t = Return(s, n)
        PROVE  EnvOnly(s, t) /\ t.firewall = s.firewall
    BY <1>1, <1>4 DEF EnvOnly, Around, Return, States
  <1>5. ASSUME NEW k, t = Return([s EXCEPT !.ip = k], 0)
        PROVE  EnvOnly(s, t) /\ t.firewall = s.firewall
    BY <1>1, <1>5 DEF EnvOnly, Around, Return, States
  <1> QED BY <1>2, <1>3, <1>4, <1>5

\* toggle_dslite_ip_interfaces sets both.
LEMMA ToggleIpInterfacesOnly ==
    ASSUME NEW s \in States, NEW i \in Ifs, NEW enable \in BOOLEAN,
           NEW t \in ToggleIpInterfaces(s, i, enable)
    PROVE  EnvOnly(s, t) /\ t.firewall = s.firewall
  <1>1. PICK u \in SetTunneledIf(s, i, enable) : t = u \/ t \in SetTunnelIf(u, enable)
    BY DEF ToggleIpInterfaces
  <1>2. EnvOnly(s, u) /\ u.firewall = s.firewall BY SetIpOnly
  <1>3. u \in States BY <1>2 DEF EnvOnly, Around
  <1>4. CASE t = u BY <1>2, <1>4
  <1>5. CASE t \in SetTunnelIf(u, enable)
    <2>1. EnvOnly(u, t) /\ t.firewall = u.firewall BY <1>3, <1>5, SetIpOnly
    <2> QED BY <1>2, <2>1, OnlyTrans
  <1> QED BY <1>1, <1>4, <1>5

\* update_interface_status after functions that touch only the environment:
\* an Enabled instance shows the addresses of its private data.
LEMMA StatusWritten ==
    ASSUME NEW s \in States, NEW i \in Ifs, NEW p, Holds(s, i, p), NEW t, EnvOnly(s, t),
           NEW status \in Statuses,
           status = "Enabled" /\ "firewall" \notin Quirks => t.firewall = s.conf[i].wan
    PROVE  LET u == UpdateStatus(t, i, status)
           IN  /\ StatusOnly(s, u, i) /\ u.oper[i].status = status
               /\ status = "Enabled" => u.oper[i].inUse = s.heap[p].remote
  <1> DEFINE o == [status |-> status,
             inUse  |-> IF status = "Enabled" THEN t.heap[t.ptr[i]].remote ELSE None,
             local  |-> IF status = "Enabled" THEN t.heap[t.ptr[i]].local ELSE None,
             origin |-> t.conf[i].prec]
             u == UpdateStatus(t, i, status)
  <1>1. /\ t \in States /\ t.ptr = s.ptr /\ t.heap = s.heap /\ t.conf = s.conf
        /\ t.oper = s.oper
    BY DEF EnvOnly, Around
  <1>2. t.ptr[i] = p /\ p # None BY <1>1, ConstantsAssumption DEF Holds
  <1>3. u = [t EXCEPT !.oper[i] = o] BY <1>2 DEF UpdateStatus
  <1>4. u \in States BY <1>1, UpdateStatusTyped
  <1>5. o.status = status /\ (status = "Enabled" => o.inUse = s.heap[p].remote)
    BY <1>1, <1>2
  <1> HIDE DEF o
  <1>6. /\ u.oper = [t.oper EXCEPT ![i] = o]
        /\ Around(t, u) /\ u.conf = t.conf /\ u.heap = t.heap /\ u.queue = t.queue
        /\ u.firewall = t.firewall
    BY <1>1, <1>3, <1>4 DEF Around, States
  <1> HIDE DEF u
  <1>7. t.oper \in [Ifs -> Oper] BY <1>1 DEF States
  <1>8. u.oper[i] = o /\ \A j \in Ifs \ {i} : u.oper[j] = t.oper[j] BY <1>6, <1>7
  <1>9. OpenOnWan(u, i) BY <1>1, <1>5, <1>6, <1>8 DEF OpenOnWan, Enabled
  <1>10. StatusOnly(s, u, i)
    BY <1>1, <1>6, <1>8, <1>9 DEF StatusOnly, EnvOnly, Around
  <1> QED BY <1>5, <1>8, <1>10 DEF u

\* What setting an instance up leaves: Enabled with the remote address of its
\* private data, or not Enabled.
SetUp(t, i, remote) ==
    Enabled(t, i) => remote # None /\ t.oper[i].inUse = remote

\* setup_dslite_interface.
LEMMA SetupOnly ==
    ASSUME NEW s \in States, NEW i \in Ifs, NEW p, Holds(s, i, p), NEW u \in Setup(s, i)
    PROVE  /\ StatusOnly(s, u, i) /\ SetUp(u, i, s.heap[p].remote)
           /\ OpenOnWan(u, i)
  <1>1. "Error" \in Statuses /\ "Enabled" \in Statuses BY DEF Statuses
  <1>2. ASSUME NEW t, EnvOnly(s, t), u = UpdateStatus(t, i, "Error")
        PROVE  StatusOnly(s, u, i) /\ ~Enabled(u, i)
    BY <1>1, <1>2, StatusWritten DEF Enabled
  <1>3. EnvOnly(s, s) BY DEF EnvOnly, Around
  <1>4. CASE u = UpdateStatus(s, i, "Error")
    BY <1>2, <1>3, <1>4 DEF SetUp, OpenOnWan
  <1>5. ASSUME NEW t \in UpdateTunnel(s, i),
               u \in IF t.fault # None THEN {t}
                     ELSE IF t.rv # 0 THEN {UpdateStatus(t, i, "Error")}
                     ELSE UNION {ConcludeSetup(w, i) :
                       w \in UNION {ToggleIpInterfaces(v, i, TRUE) :
                               v \in OpenFirewall(t, t.conf[i].wan)}}
        PROVE  StatusOnly(s, u, i) /\ SetUp(u, i, s.heap[p].remote) /\ OpenOnWan(u, i)
    <2>1. /\ EnvOnly(s, t)
          /\ t.rv = 0 => s.heap[p].remote # None
      BY UpdateTunnelOnly
    <2>2. t \in States /\ t.fault = None /\ t.conf = s.conf BY <2>1 DEF EnvOnly, Around, Holds
    <2>3. CASE t.rv # 0
      <3>1. u = UpdateStatus(t, i, "Error") BY <1>5, <2>2, <2>3
      <3> QED BY <1>2, <2>1, <3>1 DEF SetUp, OpenOnWan
    <2>4. CASE t.rv = 0
      <3>1. PICK v \in OpenFirewall(t, t.conf[i].wan) :
                   \E w \in ToggleIpInterfaces(v, i, TRUE) : u \in ConcludeSetup(w, i)
        BY <1>5, <2>2, <2>4
      <3>2. PICK w \in ToggleIpInterfaces(v, i, TRUE) : u \in ConcludeSetup(w, i) BY <3>1
      <3>3. t.conf[i].wan \in AnyWAN \cup {None} BY <2>2 DEF States, Conf
      <3>4. EnvOnly(t, v) /\ ("firewall" \notin Quirks => v.firewall = s.conf[i].wan)
        BY <2>2, <3>3, FirewallOnly
      <3>5. v \in States BY <3>4 DEF EnvOnly, Around
      <3>6. EnvOnly(v, w) /\ w.firewall = v.firewall BY <3>5, ToggleIpInterfacesOnly
      <3>7. EnvOnly(s, w) BY <2>1, <3>4, <3>6, OnlyTrans
      <3>8. w \in States /\ Holds(w, i, p) BY <3>7 DEF EnvOnly, Around, Holds
      <3>9. \/ u = UpdateStatus(w, i, "Enabled")
            \/ u = UpdateStatus(w, i, "Error")
            \/ \E x \in CloseFirewall(w) : \E y \in DeleteTunnel(x, i) :
                 u = UpdateStatus(y, i, "Error")
        BY <3>2 DEF ConcludeSetup
      <3>10. CASE u = UpdateStatus(w, i, "Enabled")
        <4>1. StatusOnly(s, u, i) /\ u.oper[i].inUse = s.heap[p].remote
          BY <1>1, <3>4, <3>6, <3>7, <3>10, StatusWritten
        <4>2. u.firewall = w.firewall /\ u.conf = s.conf
          BY <3>8, <3>10, <4>1 DEF StatusOnly, UpdateStatus, States
        <4>3. OpenOnWan(u, i) BY <3>4, <3>6, <4>2 DEF OpenOnWan
        <4> QED BY <2>1, <2>4, <4>1, <4>3 DEF SetUp
      <3>11. CASE u = UpdateStatus(w, i, "Error")
        BY <1>2, <3>7, <3>11 DEF SetUp, OpenOnWan
      <3>12. ASSUME NEW x \in CloseFirewall(w), NEW y \in DeleteTunnel(x, i),
                    u = UpdateStatus(y, i, "Error")
             PROVE  StatusOnly(s, u, i) /\ SetUp(u, i, s.heap[p].remote) /\ OpenOnWan(u, i)
        <4>1. None \in AnyWAN \cup {None} OBVIOUS
        <4>2. EnvOnly(w, x) BY <3>8, <4>1, FirewallOnly
        <4>3. x \in States /\ Holds(x, i, p) BY <3>8, <4>2 DEF EnvOnly, Around, Holds
        <4>4. EnvOnly(x, y) BY <4>3, DeleteTunnelOnly
        <4>5. EnvOnly(s, y) BY <3>7, <4>2, <4>4, OnlyTrans
        <4> QED BY <1>2, <3>12, <4>5 DEF SetUp, OpenOnWan
      <3> QED BY <3>9, <3>10, <3>11, <3>12
    <2> QED BY <2>3, <2>4
  <1> QED BY <1>4, <1>5 DEF Setup

\* disable_interface leaves the instance not Enabled.
LEMMA DisableOnly ==
    ASSUME NEW s \in States, NEW i \in Ifs, NEW p, Holds(s, i, p),
           NEW status \in Statuses \ {"Enabled"}, NEW u \in Disable(s, i, status)
    PROVE  StatusOnly(s, u, i) /\ ~Enabled(u, i)
  <1>1. ASSUME NEW t, EnvOnly(s, t), u = UpdateStatus(t, i, status)
        PROVE  StatusOnly(s, u, i) /\ ~Enabled(u, i)
    BY <1>1, StatusWritten DEF Enabled
  <1>2. CASE u = UpdateStatus(s, i, status)
    <2>1. EnvOnly(s, s) BY DEF EnvOnly, Around
    <2> QED BY <1>1, <1>2, <2>1
  <1>3. ASSUME NEW v \in DeleteTunnel(s, i), NEW w \in CloseFirewall(v),
               NEW t \in ToggleIpInterfaces(w, i, FALSE), u = UpdateStatus(t, i, status)
        PROVE  StatusOnly(s, u, i) /\ ~Enabled(u, i)
    <2>1. EnvOnly(s, v) BY DeleteTunnelOnly
    <2>2. v \in States /\ None \in AnyWAN \cup {None} BY <2>1 DEF EnvOnly, Around
    <2>3. EnvOnly(v, w) BY <2>2, FirewallOnly
    <2>4. w \in States BY <2>3 DEF EnvOnly, Around
    <2>5. EnvOnly(w, t) BY <2>4, ToggleIpInterfacesOnly
    <2>6. EnvOnly(s, t) BY <2>1, <2>3, <2>5, OnlyTrans
    <2> QED BY <1>1, <1>3, <2>6
  <1>4. \/ u = UpdateStatus(s, i, status)
        \/ \E v \in DeleteTunnel(s, i) : \E w \in CloseFirewall(v) :
           \E t \in ToggleIpInterfaces(w, i, FALSE) : u = UpdateStatus(t, i, status)
    BY DEF Disable
  <1> QED BY <1>2, <1>3, <1>4

\* What callers do with an error.
LEMMA DisableOnErrorOnly ==
    ASSUME NEW s \in States, NEW i \in Ifs, NEW p, Holds(s, i, p),
           NEW u \in DisableOnError(s, i)
    PROVE  StatusOnly(s, u, i)
  <1>1. "Error" \in Statuses \ {"Enabled"} BY DEF Statuses
  <1>2. StatusOnly(s, s, i) BY DEF StatusOnly, Around
  <1> QED BY <1>1, <1>2, DisableOnly DEF DisableOnError

-----------------------------------------------------------------------------
(* Resolving the name of the tunnel concentrator.                          *)

\* No query that was freed is pointed to.
Tidy(s, p) == s.heap[p].dns # "dangling"

\* remote_endpoint_addr_query_cb leaves the pointer to the query alone, and a
\* failure leaves nothing Enabled.
LEMMA QueryAnsweredWithin ==
    ASSUME NEW s \in States, NEW i \in Ifs, NEW p, Holds(s, i, p),
           NEW address \in DnsAddrs \cup {None}, NEW u \in QueryAnswered(s, p, address)
    PROVE  /\ Within(s, u, i, p)
           /\ u.heap[p].dns = s.heap[p].dns /\ u.heap[p].dhcpQ = s.heap[p].dhcpQ
           /\ address = None => ~Enabled(u, i)
  <1> DEFINE stored == WithRemote(s, p, address)
  <1>1. s.heap[p].owner = i /\ i # None /\ p \in PrivIds
    BY ConstantsAssumption DEF Holds
  <1>2. s.heap[p] \in Priv BY <1>1 DEF States
  <1>3. CASE address # None
    <2>1. PICK t \in Setup(stored, i) : u = WithTimer(t, p, "none")
      BY <1>1, <1>3 DEF QueryAnswered, WithRemote, WithTimer
    <2>2. Wrote(s, stored, i, p, [s.heap[p] EXCEPT !.remote = address])
      BY <1>1, FieldsWritten DEF Remotes
    <2>3. Within(s, stored, i, p) /\ stored.heap[p].dns = s.heap[p].dns
          /\ stored.heap[p].dhcpQ = s.heap[p].dhcpQ
      BY <1>2, <2>2 DEF Wrote, Priv
    <2> HIDE DEF stored
    <2>4. stored \in States /\ Holds(stored, i, p) BY <2>3, HoldsKept
    <2>5. StatusOnly(stored, t, i) BY <2>1, <2>4, SetupOnly
    <2>6. Within(stored, t, i, p) /\ SameRemote(stored, t, p) BY <1>1, <2>4, <2>5, OnlyWithin
    <2>7. t \in States /\ t.heap[p] \in Priv BY <1>1, <2>5 DEF StatusOnly, Around, States
    <2>8. Within(t, u, i, p) /\ u.heap[p] = [t.heap[p] EXCEPT !.timer = "none"]
      BY <1>1, <2>1, <2>7, FieldsWritten DEF Wrote
    <2>9. u.heap[p].dns = t.heap[p].dns /\ u.heap[p].dhcpQ = t.heap[p].dhcpQ
      BY <2>7, <2>8 DEF Priv
    <2>10. Within(s, t, i, p) BY <1>1, <2>3, <2>6, WithinTrans
    <2>11. Within(s, u, i, p) BY <1>1, <2>8, <2>10, WithinTrans
    <2> QED BY <1>3, <2>3, <2>6, <2>9, <2>11 DEF SameRemote
  <1>4. CASE address = None
    <2>1. PICK t \in Disable(s, i, "Error") :
            u = WithTimer(t, p,
                   IF t.heap[p].timer = "off" THEN "armed" ELSE t.heap[p].timer)
      BY <1>1, <1>4 DEF QueryAnswered, WithRemote, WithTimer
    <2>2. "Error" \in Statuses \ {"Enabled"} BY DEF Statuses
    <2>3. StatusOnly(s, t, i) /\ ~Enabled(t, i) BY <2>2, DisableOnly
    <2>4. Within(s, t, i, p) /\ SameRemote(s, t, p) BY <1>1, <2>3, OnlyWithin
    <2>5. t \in States /\ t.heap[p] \in Priv BY <1>1, <2>3 DEF StatusOnly, Around, States
    <2> DEFINE v == IF t.heap[p].timer = "off" THEN "armed" ELSE t.heap[p].timer
    <2>6. v \in {"none", "off", "armed"} BY <2>5 DEF Priv
    <2>7. u = WithTimer(t, p, v) BY <2>1
    <2> HIDE DEF v
    <2>8. Wrote(t, u, i, p, [t.heap[p] EXCEPT !.timer = v])
      BY <1>1, <2>5, <2>6, <2>7, FieldsWritten
    <2>9. Within(t, u, i, p) /\ u.heap[p].dns = t.heap[p].dns
          /\ u.heap[p].dhcpQ = t.heap[p].dhcpQ /\ u.oper = t.oper
      BY <2>5, <2>8 DEF Wrote, Priv
    <2>10. Within(s, u, i, p) BY <1>1, <2>4, <2>9, WithinTrans
    <2> QED BY <2>3, <2>4, <2>9, <2>10 DEF SameRemote, Enabled
  <1> QED BY <1>3, <1>4

\* dslite_close_dns_query leaves a pointer to the query it frees, if there is
\* one; without one it does nothing.
LEMMA CloseDnsQueryWithin ==
    ASSUME NEW s \in States, NEW i \in Ifs, NEW p, Holds(s, i, p), Tidy(s, p),
           NEW u \in CloseDnsQuery(s, p)
    PROVE  /\ Within(s, u, i, p) /\ u.heap[p].dhcpQ = s.heap[p].dhcpQ
           /\ s.heap[p].dns = "none" => u = s
           /\ Enabled(u, i) => Enabled(s, i)
  <1>1. p \in PrivIds BY DEF Holds
  <1>2. s.heap[p].dns \in {"none", "pending", "idle", "dead"}
    BY <1>1 DEF States, Priv, Tidy
  <1>3. CASE s.heap[p].dns = "none"
    <2>1. u = s BY <1>3 DEF CloseDnsQuery, WithDns
    <2> QED BY <1>1, <2>1, OnlyWithin
  <1>4. CASE s.heap[p].dns = "pending"
    <2>1. PICK t \in QueryAnswered(s, p, None) : u = WithDns(t, p, "dangling")
      BY <1>4 DEF CloseDnsQuery, WithDns
    <2>2. Within(s, t, i, p) /\ t.heap[p].dhcpQ = s.heap[p].dhcpQ /\ ~Enabled(t, i)
      BY QueryAnsweredWithin
    <2>3. t \in States /\ t.heap[p] \in Priv BY <1>1, <2>2 DEF Within, Around, States
    <2>4. Within(t, u, i, p) /\ u.heap[p] = [t.heap[p] EXCEPT !.dns = "dangling"]
          /\ u.oper = t.oper
      BY <1>1, <2>1, <2>3, FieldsWritten DEF Wrote
    <2>5. u.heap[p].dhcpQ = t.heap[p].dhcpQ BY <2>3, <2>4 DEF Priv
    <2>6. Within(s, u, i, p) BY <1>1, <2>2, <2>4, WithinTrans
    <2> QED BY <1>4, <2>2, <2>4, <2>5, <2>6 DEF Enabled
  <1>5. CASE s.heap[p].dns \in {"idle", "dead"}
    <2>1. u = WithDns(s, p, "dangling") BY <1>5 DEF CloseDnsQuery, WithDns
    <2>2. Within(s, u, i, p) /\ u.heap[p] = [s.heap[p] EXCEPT !.dns = "dangling"]
          /\ u.oper = s.oper
      BY <1>1, <2>1, FieldsWritten DEF Wrote
    <2>3. s.heap[p] \in Priv BY <1>1 DEF States
    <2>4. u.heap[p].dhcpQ = s.heap[p].dhcpQ BY <2>2, <2>3 DEF Priv
    <2> QED BY <1>5, <2>2, <2>4 DEF Enabled
  <1> QED BY <1>2, <1>3, <1>4, <1>5

\* The same where its timers may still run.
LEMMA CloseWithTimersWithin ==
    ASSUME NoStray, NEW s \in States, NEW i \in Ifs, NEW p, Holds(s, i, p), Tidy(s, p),
           NEW u \in CloseWithTimers(s, p)
    PROVE  Within(s, u, i, p)
  <1>1. p \in PrivIds BY DEF Holds
  <1>2. u \in CloseDnsQuery(s, p) \/ u = WithDns(s, p, "dangling")
    BY DEF CloseWithTimers, Maybe, NoStray, WithDns
  <1>3. CASE u \in CloseDnsQuery(s, p) BY <1>3, CloseDnsQueryWithin
  <1>4. CASE u = WithDns(s, p, "dangling") BY <1>1, <1>4, FieldsWritten DEF Wrote
  <1> QED BY <1>2, <1>3, <1>4

\* dslite_open_dns_query and the assignment of what it returns to dns_query.
LEMMA OpenDnsQueryWithin ==
    ASSUME NEW s \in States, NEW i \in Ifs, NEW p, Holds(s, i, p),
           NEW u \in OpenDnsQuery(s, p)
    PROVE  Within(s, u, i, p) /\ Tidy(u, p)
  <1>1. p \in PrivIds BY DEF Holds
  <1>2. ASSUME NEW t, Within(s, t, i, p), NEW v \in {"none", "pending", "idle"},
               NEW n \in {-1, 0, 1}, u = Return(WithDns(t, p, v), n)
        PROVE  Within(s, u, i, p) /\ Tidy(u, p)
    <2> DEFINE w == WithDns(t, p, v)
    <2>1. t \in States /\ t.heap[p] \in Priv BY <1>1, <1>2 DEF Within, Around, States
    <2>2. Wrote(t, w, i, p, [t.heap[p] EXCEPT !.dns = v])
      BY <1>1, <1>2, <2>1, FieldsWritten
    <2>3. Within(t, w, i, p) /\ w.heap[p].dns = v BY <2>1, <2>2 DEF Wrote, Priv
    <2>4. u = Return(w, n) BY <1>2
    <2> HIDE DEF w
    <2>5. w \in States BY <2>3 DEF Within, Around
    <2>6. Within(w, u, i, p) /\ u.heap = w.heap BY <1>1, <1>2, <2>4, <2>5, ReturnWithin
    <2>7. Within(s, w, i, p) BY <1>1, <1>2, <2>3, WithinTrans
    <2>8. Within(s, u, i, p) BY <1>1, <2>6, <2>7, WithinTrans
    <2> QED BY <2>3, <2>6, <2>8 DEF Tidy
  <1>3. Within(s, s, i, p) BY <1>1, OnlyWithin
  <1>4. -1 \in {-1, 0, 1} /\ 0 \in {-1, 0, 1} OBVIOUS
  <1>5. \/ u = Return(WithDns(s, p, "pending"), 0)
        \/ u = Return(WithDns(s, p, "none"), -1)
        \/ \E a \in DnsAddrs \cup {None} : \E t \in QueryAnswered(s, p, a) :
             u = Return(WithDns(t, p, "idle"), 0)
    BY DEF OpenDnsQuery, Maybe, WithDns
  <1>6. CASE u = Return(WithDns(s, p, "pending"), 0) BY <1>2, <1>3, <1>4, <1>6
  <1>7. CASE u = Return(WithDns(s, p, "none"), -1) BY <1>2, <1>3, <1>4, <1>7
  <1>8. ASSUME NEW a \in DnsAddrs \cup {None}, NEW t \in QueryAnswered(s, p, a),
               u = Return(WithDns(t, p, "idle"), 0)
        PROVE  Within(s, u, i, p) /\ Tidy(u, p)
    <2>1. Within(s, t, i, p) BY QueryAnsweredWithin
    <2> QED BY <1>2, <1>4, <1>8, <2>1
  <1> QED BY <1>5, <1>6, <1>7, <1>8

\* resolve_endpoint_name replaces the query by a new one.
LEMMA ResolveWithin ==
    ASSUME NoStray,
           NEW s \in States, NEW i \in Ifs, NEW p, Holds(s, i, p), Tidy(s, p), NEW name,
           NEW u \in ResolveEndpointName(s, i, name)
    PROVE  Within(s, u, i, p) /\ Tidy(u, p)
  <1> DEFINE stopped == WithTimer(s, p, "off")
             armed   == WithTimer(s, p, "armed")
  <1>1. p \in PrivIds /\ s.ptr[i] = p /\ p # None /\ ~Dangling(s, i)
    BY ConstantsAssumption DEF Holds, Dangling
  <1>2. s.heap[p] \in Priv BY <1>1 DEF States
  <1>3. -1 \in {-1, 0, 1} OBVIOUS
  <1>4. \/ u = Return(s, -1)
        \/ u = Return(armed, -1)
        \/ \E t \in CloseWithTimers(stopped, p) : u \in OpenDnsQuery(t, p)
    BY <1>1 DEF ResolveEndpointName, WithTimer
  <1>5. CASE u = Return(s, -1)
    <2>1. Within(s, u, i, p) /\ u.heap = s.heap BY <1>1, <1>3, <1>5, ReturnWithin
    <2> QED BY <2>1 DEF Tidy
  <1>6. CASE u = Return(armed, -1)
    <2>1. Within(s, armed, i, p) /\ armed.heap[p] = [s.heap[p] EXCEPT !.timer = "armed"]
      BY <1>1, FieldsWritten DEF Wrote
    <2>2. armed.heap[p].dns = s.heap[p].dns BY <1>2, <2>1 DEF Priv
    <2> HIDE DEF armed
    <2>3. armed \in States BY <2>1 DEF Within, Around
    <2>4. Within(armed, u, i, p) /\ u.heap = armed.heap BY <1>1, <1>3, <1>6, <2>3, ReturnWithin
    <2>5. Within(s, u, i, p) BY <1>1, <2>1, <2>4, WithinTrans
    <2> QED BY <2>2, <2>4, <2>5 DEF Tidy
  <1>7. CASE \E t \in CloseWithTimers(stopped, p) : u \in OpenDnsQuery(t, p)
    <2>1. Within(s, stopped, i, p) /\ stopped.heap[p] = [s.heap[p] EXCEPT !.timer = "off"]
      BY <1>1, FieldsWritten DEF Wrote
    <2>2. stopped.heap[p].dns = s.heap[p].dns BY <1>2, <2>1 DEF Priv
    <2>3. PICK t \in CloseWithTimers(stopped, p) : u \in OpenDnsQuery(t, p) BY <1>7
    <2> HIDE DEF stopped
    <2>4. stopped \in States /\ Holds(stopped, i, p) BY <2>1, HoldsKept
    <2>5. Tidy(stopped, p) BY <2>2 DEF Tidy
    <2>6. Within(stopped, t, i, p) BY <2>3, <2>4, <2>5, CloseWithTimersWithin
    <2>7. t \in States /\ Holds(t, i, p) BY <2>4, <2>6, HoldsKept
    <2>8. Within(t, u, i, p) /\ Tidy(u, p) BY <2>3, <2>7, OpenDnsQueryWithin
    <2>9. Within(s, t, i, p) BY <1>1, <2>1, <2>6, WithinTrans
    <2>10. Within(s, u, i, p) BY <1>1, <2>8, <2>9, WithinTrans
    <2> QED BY <2>8, <2>10
  <1> QED BY <1>4, <1>5, <1>6, <1>7

\* resolve_endpoint_name, and disabling the instance when it returns an error.
LEMMA ResolveOrDisableWithin ==
    ASSUME NoStray,
           NEW s \in States, NEW i \in Ifs, NEW p, Holds(s, i, p), Tidy(s, p), NEW name,
           NEW t \in ResolveEndpointName(s, i, name), NEW u \in DisableOnError(t, i)
    PROVE  Within(s, u, i, p) /\ Tidy(u, p)
  <1>1. p \in PrivIds BY DEF Holds
  <1>2. Within(s, t, i, p) /\ Tidy(t, p) BY ResolveWithin
  <1>3. t \in States /\ Holds(t, i, p) BY <1>2, HoldsKept
  <1>4. StatusOnly(t, u, i) BY <1>3, DisableOnErrorOnly
  <1>5. Within(t, u, i, p) /\ SameRemote(t, u, p) BY <1>1, <1>3, <1>4, OnlyWithin
  <1>6. Within(s, u, i, p) BY <1>1, <1>2, <1>5, WithinTrans
  <1> QED BY <1>2, <1>5, <1>6 DEF Tidy, SameRemote

-----------------------------------------------------------------------------
(* NetModel queries.                                                       *)

\* What an instance that was given the address a uses and has in use.
InUse(s, i, p, a) ==
    /\ s.heap[p].remote \in {None, a}
    /\ Enabled(s, i) => s.oper[i].inUse = a

\* What the functions that do not look for the remote address leave.
Steady(s, t, i, p) ==
    /\ Within(s, t, i, p) /\ SameRemote(s, t, p)
    /\ \A a : InUse(s, i, p, a) => InUse(t, i, p, a)

\* It is transitive.
LEMMA SteadyTrans ==
    ASSUME NEW s \in States, NEW t, NEW u, NEW i \in Ifs, NEW p \in PrivIds,
           Steady(s, t, i, p), Steady(t, u, i, p)
    PROVE  Steady(s, u, i, p)
  <1>1. Within(s, u, i, p) BY WithinTrans DEF Steady
  <1> QED BY <1>1 DEF Steady, SameRemote

\* Return values, and the results of queries.
LEMMA ReturnSteady ==
    ASSUME NEW s \in States, NEW n \in {-1, 0, 1}, NEW i \in Ifs, NEW p \in PrivIds
    PROVE  Steady(s, Return(s, n), i, p)
  <1>1. /\ Within(s, Return(s, n), i, p) /\ SameRemote(s, Return(s, n), p)
        /\ Return(s, n).oper = s.oper /\ Return(s, n).heap = s.heap
    BY ReturnWithin
  <1> QED BY <1>1 DEF Steady, InUse, Enabled

\* Disabling an instance.
LEMMA DisableSteady ==
    ASSUME NEW s \in States, NEW i \in Ifs, NEW p, Holds(s, i, p),
           NEW status \in Statuses \ {"Enabled"}, NEW u \in Disable(s, i, status)
    PROVE  Steady(s, u, i, p)
  <1>1. p \in PrivIds BY DEF Holds
  <1>2. StatusOnly(s, u, i) /\ ~Enabled(u, i) BY DisableOnly
  <1>3. Within(s, u, i, p) /\ SameRemote(s, u, p) BY <1>1, <1>2, OnlyWithin
  <1> QED BY <1>2, <1>3 DEF Steady, InUse, SameRemote

\* Setting one up.
LEMMA SetupSteady ==
    ASSUME NEW s \in States, NEW i \in Ifs, NEW p, Holds(s, i, p), NEW u \in Setup(s, i)
    PROVE  Steady(s, u, i, p)
  <1>1. p \in PrivIds BY DEF Holds
  <1>2. StatusOnly(s, u, i) /\ SetUp(u, i, s.heap[p].remote) BY SetupOnly
  <1>3. Within(s, u, i, p) /\ SameRemote(s, u, p) BY <1>1, <1>2, OnlyWithin
  <1> QED BY <1>2, <1>3 DEF Steady, InUse, SameRemote, SetUp

\* nm_local_addr_cb.
LEMMA AddrReportedSteady ==
    ASSUME NEW s \in States, NEW i \in Ifs, NEW p, Holds(s, i, p),
           NEW a \in LocalAddrs \cup {None}, NEW u \in AddrReported(s, p, a)
    PROVE  Steady(s, u, i, p)
  <1> DEFINE stored == WithLocal(s, p, a)
  <1>1. s.heap[p].owner = i /\ i # None /\ p \in PrivIds
    BY ConstantsAssumption DEF Holds
  <1>2. s.heap[p] \in Priv BY <1>1 DEF States
  <1>3. Wrote(s, stored, i, p, [s.heap[p] EXCEPT !.local = a]) BY <1>1, FieldsWritten
  <1>4. Steady(s, stored, i, p)
    BY <1>2, <1>3 DEF Wrote, Priv, Steady, SameRemote, InUse, Enabled
  <1>5. u \in Disable(s, i, "Error") \/ u = stored \/ u \in Setup(stored, i)
    BY <1>1 DEF AddrReported, WithLocal
  <1> HIDE DEF stored
  <1>6. CASE u \in Disable(s, i, "Error")
    <2>1. "Error" \in Statuses \ {"Enabled"} BY DEF Statuses
    <2> QED BY <1>6, <2>1, DisableSteady
  <1>7. CASE u = stored BY <1>4, <1>7
  <1>8. CASE u \in Setup(stored, i)
    <2>1. stored \in States /\ Holds(stored, i, p) BY <1>4, HoldsKept DEF Steady
    <2>2. Steady(stored, u, i, p) BY <1>8, <2>1, SetupSteady
    <2> QED BY <1>1, <1>4, <2>2, SteadyTrans
  <1> QED BY <1>5, <1>6, <1>7, <1>8

\* A query is its interface and the last result it reported (DhcpQuery likewise).
AddrQuery(s, p, wan, a) == [s EXCEPT !.heap[p].addrQ = wan, !.heap[p].addrRes = a]

\* Opening or closing the query of the WAN interface's address, and the one of
\* the name.
LEMMA QueriesWritten ==
    ASSUME NEW s \in States, NEW i \in Ifs, NEW p \in PrivIds, NEW wan \in WANs \cup {None}
    PROVE  /\ \A a \in LocalAddrs \cup {None} : Steady(s, AddrQuery(s, p, wan, a), i, p)
           /\ \A n \in Names \cup {None} :
                LET u == DhcpQuery(s, p, wan, n)
                IN  /\ Within(s, u, i, p)
                    /\ u.heap[p].dns = s.heap[p].dns /\ u.heap[p].timer = s.heap[p].timer
                    /\ u.heap[p].dhcpQ = wan
  <1>1. s.heap[p] \in Priv BY DEF States
  <1>2. ASSUME NEW a \in LocalAddrs \cup {None} PROVE Steady(s, AddrQuery(s, p, wan, a), i, p)
    <2> DEFINE t == WithAddrQ(s, p, wan)
               u == WithAddrRes(t, p, a)
    <2>1. Wrote(s, t, i, p, [s.heap[p] EXCEPT !.addrQ = wan]) BY FieldsWritten
    <2>2. t \in States /\ t.heap[p] = [s.heap[p] EXCEPT !.addrQ = wan]
      BY <2>1 DEF Wrote, Within, Around
    <2>3. Steady(s, t, i, p)
      BY <1>1, <2>1 DEF Wrote, Priv, Steady, SameRemote, InUse, Enabled
    <2>4. AddrQuery(s, p, wan, a) = u BY DEF AddrQuery, WithAddrQ, WithAddrRes, States
    <2>5. t.heap[p] \in Priv BY <2>2 DEF States
    <2> HIDE DEF t
    <2>6. Wrote(t, u, i, p, [t.heap[p] EXCEPT !.addrRes = a]) BY <2>2, FieldsWritten
    <2> HIDE DEF u
    <2>7. Steady(t, u, i, p)
      BY <2>5, <2>6 DEF Wrote, Priv, Steady, SameRemote, InUse, Enabled
    <2>8. Steady(s, u, i, p) BY <2>3, <2>7, SteadyTrans
    <2> QED BY <2>4, <2>8
  <1>3. ASSUME NEW n \in Names \cup {None}
        PROVE  LET u == DhcpQuery(s, p, wan, n)
               IN  /\ Within(s, u, i, p)
                   /\ u.heap[p].dns = s.heap[p].dns /\ u.heap[p].timer = s.heap[p].timer
                   /\ u.heap[p].dhcpQ = wan
    <2> DEFINE t == WithDhcpQ(s, p, wan)
               u == WithDhcpRes(t, p, n)
    <2>1. Wrote(s, t, i, p, [s.heap[p] EXCEPT !.dhcpQ = wan]) BY FieldsWritten
    <2>2. t \in States /\ t.heap[p] = [s.heap[p] EXCEPT !.dhcpQ = wan]
      BY <2>1 DEF Wrote, Within, Around
    <2>3. /\ Within(s, t, i, p)
          /\ t.heap[p].dns = s.heap[p].dns /\ t.heap[p].timer = s.heap[p].timer
          /\ t.heap[p].dhcpQ = wan
      BY <1>1, <2>1 DEF Wrote, Priv
    <2>4. DhcpQuery(s, p, wan, n) = u BY DEF DhcpQuery, WithDhcpQ, WithDhcpRes, States
    <2>5. t.heap[p] \in Priv BY <2>2 DEF States
    <2> HIDE DEF t
    <2>6. Wrote(t, u, i, p, [t.heap[p] EXCEPT !.dhcpRes = n]) BY <2>2, FieldsWritten
    <2> HIDE DEF u
    <2>7. /\ Within(t, u, i, p)
          /\ u.heap[p].dns = t.heap[p].dns /\ u.heap[p].timer = t.heap[p].timer
          /\ u.heap[p].dhcpQ = t.heap[p].dhcpQ
      BY <2>5, <2>6 DEF Wrote, Priv
    <2>8. Within(s, u, i, p) BY <2>3, <2>7, WithinTrans
    <2> QED BY <2>3, <2>4, <2>7, <2>8
  <1> QED BY <1>2, <1>3

\* nm_open_local_addr_query.
LEMMA OpenAddrQuerySteady ==
    ASSUME NEW s \in States, NEW i \in Ifs, NEW p, Holds(s, i, p),
           NEW u \in OpenAddrQuery(s, i)
    PROVE  Steady(s, u, i, p)
  <1> DEFINE wan == s.conf[i].wan
             closed == AddrQuery(s, p, None, None)
  <1>1. p \in PrivIds /\ s.ptr[i] = p /\ p # None /\ ~Dangling(s, i)
    BY ConstantsAssumption DEF Holds, Dangling
  <1>2. -1 \in {-1, 0, 1} /\ 0 \in {-1, 0, 1} OBVIOUS
  <1>3. Steady(s, closed, i, p) BY <1>1, QueriesWritten
  <1>4. closed \in States /\ Holds(closed, i, p) BY <1>3, HoldsKept DEF Steady
  <1>5. wan \in AnyWAN \cup {None} BY DEF States, Conf
  <1> DEFINE r == s.ptr[i]
             shut == AddrQuery(s, r, None, None)
  <1>6. \/ u = Return(s, -1)
        \/ u = Faulted(s, "freed") /\ Dangling(s, i)
        \/ u = Return(shut, -1)
        \/ /\ wan # None /\ wan \notin BadWANs
           /\ \E a \in AddrResults(wan) : \E t \in AddrReported(shut, r, a) :
                u = Return(AddrQuery(t, r, wan, a), 0)
    BY DEF OpenAddrQuery, Maybe, AddrQuery
  <1>10. r = p /\ shut = closed BY <1>1
  <1>11. wan # None /\ wan \notin BadWANs => wan \in WANs BY <1>5 DEF AnyWAN
  <1> HIDE DEF closed, wan, r, shut
  <1>7. CASE u = Return(s, -1) BY <1>1, <1>2, <1>7, ReturnSteady
  <1>8. CASE u = Return(closed, -1)
    <2>1. Steady(closed, u, i, p) BY <1>1, <1>2, <1>4, <1>8, ReturnSteady
    <2> QED BY <1>1, <1>3, <2>1, SteadyTrans
  <1>9. ASSUME wan \in WANs, NEW a \in AddrResults(wan), NEW t \in AddrReported(closed, p, a),
               u = Return(AddrQuery(t, p, wan, a), 0)
        PROVE  Steady(s, u, i, p)
    <2>1. a \in LocalAddrs \cup {None} BY DEF AddrResults
    <2>2. Steady(closed, t, i, p) BY <1>4, <2>1, AddrReportedSteady
    <2>3. t \in States BY <2>2 DEF Steady, Within, Around
    <2> DEFINE w == AddrQuery(t, p, wan, a)
    <2>4. Steady(t, w, i, p) BY <1>1, <1>9, <2>1, <2>3, QueriesWritten
    <2>5. w \in States BY <2>4 DEF Steady, Within, Around
    <2> HIDE DEF w
    <2>6. Steady(w, u, i, p) BY <1>1, <1>2, <1>9, <2>5, ReturnSteady DEF w
    <2>7. Steady(s, t, i, p) BY <1>1, <1>3, <2>2, SteadyTrans
    <2>8. Steady(s, w, i, p) BY <1>1, <2>4, <2>7, SteadyTrans
    <2> QED BY <1>1, <2>6, <2>8, SteadyTrans
  <1> QED BY <1>1, <1>6, <1>7, <1>8, <1>9, <1>10, <1>11

NameReported(s, i, name) ==
    LET written == [s EXCEPT !.conf[i].name = name]
    IN  [written EXCEPT !.queue = Append(@, SettingEvent(i, {"name"}, written.conf[i]))]

\* A name reported by DHCP is written to the data model, and its event queued.
LEMMA NameWrittenWithin ==
    ASSUME NEW s \in States, NEW i \in Ifs, NEW p \in PrivIds, NEW name \in Names \cup {None}
    PROVE  Within(s, NameReported(s, i, name), i, p) /\ NameReported(s, i, name).heap = s.heap
  <1> DEFINE written == [s EXCEPT !.conf[i].name = name]
             e == SettingEvent(i, {"name"}, written.conf[i])
             q == Append(s.queue, e)
             t == [written EXCEPT !.queue = Append(@, e)]
  <1>1. t \in States BY NameWritten DEF Preserves
  <1>2. t = [written EXCEPT !.queue = q] BY DEF States
  <1>3. IsName(e) /\ e.obj = i BY DEF SettingEvent, IsName
  <1> HIDE DEF e
  <1>4. s.queue \in Seq(Event) /\ Len(s.queue) \in Nat BY DEF States
  <1>5. Grew(s.queue, q, i) BY <1>3, <1>4 DEF Grew
  <1> HIDE DEF q
  <1>6. s.conf \in [Ifs -> Conf] /\ s.conf[i] \in Conf BY DEF States
  <1>7. /\ t.queue = q /\ t.heap = s.heap /\ t.oper = s.oper /\ t.firewall = s.firewall
        /\ t.conf = [s.conf EXCEPT ![i] = [s.conf[i] EXCEPT !.name = name]]
    BY <1>2 DEF States
  <1>8. Around(s, t) BY <1>1, <1>2 DEF Around, States
  <1> HIDE DEF t
  <1>9. /\ \A j \in Ifs \ {i} : t.conf[j] = s.conf[j]
        /\ t.conf[i] = [s.conf[i] EXCEPT !.name = name]
    BY <1>6, <1>7
  <1>10. SameButName(s.conf[i], t.conf[i]) BY <1>6, <1>9 DEF SameButName, Conf
  <1>11. OpenOnWan(s, i) => OpenOnWan(t, i)
    BY <1>7, <1>10 DEF OpenOnWan, Enabled, SameButName
  <1>12. Within(s, t, i, p) BY <1>5, <1>7, <1>8, <1>9, <1>10, <1>11 DEF Within
  <1> QED BY <1>7, <1>12 DEF t, e, NameReported

\* nm_dhcp_cb.
LEMMA DhcpReportedWithin ==
    ASSUME NoStray, NEW s \in States, NEW i \in Ifs, NEW p, Holds(s, i, p), Tidy(s, p),
           NEW name \in Names \cup {None}, NEW u \in DhcpReported(s, p, name)
    PROVE  Within(s, u, i, p) /\ Tidy(u, p)
  <1>1. s.heap[p].owner = i /\ i # None /\ p \in PrivIds
    BY ConstantsAssumption DEF Holds
  <1>2. CASE u = s BY <1>1, <1>2, OnlyWithin
  <1>3. CASE \E t \in ResolveEndpointName(s, i, name) : u \in DisableOnError(t, i)
    BY <1>3, ResolveOrDisableWithin
  <1>4. CASE u = NameReported(s, i, name)
    <2>1. Within(s, u, i, p) /\ u.heap = s.heap BY <1>1, <1>4, NameWrittenWithin
    <2> QED BY <2>1 DEF Tidy
  <1> QED BY <1>1, <1>2, <1>3, <1>4 DEF DhcpReported, NameReported

\* nm_open_dhcpv6_query.
LEMMA OpenDhcpQueryWithin ==
    ASSUME NoStray, NEW s \in States, NEW i \in Ifs, NEW p, Holds(s, i, p), Tidy(s, p),
           NEW u \in OpenDhcpQuery(s, i)
    PROVE  Within(s, u, i, p) /\ Tidy(u, p)
  <1> DEFINE wan == s.conf[i].wan
             closed == DhcpQuery(s, p, None, None)
  <1>1. p \in PrivIds /\ s.ptr[i] = p /\ p # None /\ ~Dangling(s, i)
    BY ConstantsAssumption DEF Holds, Dangling
  <1>2. -1 \in {-1, 0, 1} /\ 0 \in {-1, 0, 1} OBVIOUS
  <1>3. Within(s, closed, i, p) /\ closed.heap[p].dns = s.heap[p].dns
    BY <1>1, QueriesWritten
  <1>4. closed \in States /\ Holds(closed, i, p) /\ Tidy(closed, p)
    BY <1>3, HoldsKept DEF Tidy
  <1>5. wan \in AnyWAN \cup {None} BY DEF States, Conf
  <1> DEFINE r == s.ptr[i]
             shut == DhcpQuery(s, r, None, None)
  <1>6. \/ u = Return(s, -1)
        \/ u = Faulted(s, "freed") /\ Dangling(s, i)
        \/ u = Return(shut, -1)
        \/ /\ wan # None /\ wan \notin BadWANs
           /\ \E n \in Names \cup {None} : \E t \in DhcpReported(shut, r, n) :
                u = Return(DhcpQuery(t, r, wan, n), 0)
    BY OpenDhcpQueryCases
  <1>10. r = p /\ shut = closed BY <1>1
  <1>11. wan # None /\ wan \notin BadWANs => wan \in WANs BY <1>5 DEF AnyWAN
  <1> HIDE DEF closed, wan, r, shut
  <1>7. CASE u = Return(s, -1)
    <2>1. Within(s, u, i, p) /\ u.heap = s.heap BY <1>1, <1>2, <1>7, ReturnWithin
    <2> QED BY <2>1 DEF Tidy
  <1>8. CASE u = Return(closed, -1)
    <2>1. Within(closed, u, i, p) /\ u.heap = closed.heap
      BY <1>1, <1>2, <1>4, <1>8, ReturnWithin
    <2>2. Within(s, u, i, p) BY <1>1, <1>3, <2>1, WithinTrans
    <2> QED BY <1>4, <2>1, <2>2 DEF Tidy
  <1>9. ASSUME wan \in WANs, NEW n \in Names \cup {None}, NEW t \in DhcpReported(closed, p, n),
               u = Return(DhcpQuery(t, p, wan, n), 0)
        PROVE  Within(s, u, i, p) /\ Tidy(u, p)
    <2>1. Within(closed, t, i, p) /\ Tidy(t, p) BY <1>4, DhcpReportedWithin
    <2>2. t \in States BY <2>1 DEF Within, Around
    <2> DEFINE w == DhcpQuery(t, p, wan, n)
    <2>3. Within(t, w, i, p) /\ w.heap[p].dns = t.heap[p].dns
      BY <1>1, <1>9, <2>2, QueriesWritten
    <2>4. w \in States BY <2>3 DEF Within, Around
    <2> HIDE DEF w
    <2>5. Within(w, u, i, p) /\ u.heap = w.heap
      BY <1>1, <1>2, <1>9, <2>4, ReturnWithin DEF w
    <2>6. Within(s, t, i, p) BY <1>1, <1>3, <2>1, WithinTrans
    <2>7. Within(s, w, i, p) BY <1>1, <2>3, <2>6, WithinTrans
    <2>8. Within(s, u, i, p) BY <1>1, <2>5, <2>7, WithinTrans
    <2> QED BY <2>1, <2>3, <2>5, <2>8 DEF Tidy
  <1> QED BY <1>1, <1>6, <1>7, <1>8, <1>9, <1>10, <1>11

-----------------------------------------------------------------------------
(* Collecting the parameters of the tunnel.                                *)

\* No lookup, no retry and no name from DHCP is under way: what an instance
\* with a static address needs.
Clean(s, p) ==
    s.heap[p].dns = "none" /\ s.heap[p].dhcpQ = None /\ s.heap[p].timer = "none"

IsStatic(s, i) == Method(s.conf[i]) = "STATIC_IPV6"

\* The method and the address are not affected by what functions may change.
LEMMA MethodKept ==
    ASSUME NEW s, NEW t, NEW i, NEW p, Within(s, t, i, p)
    PROVE  /\ Method(t.conf[i]) = Method(s.conf[i]) /\ t.conf[i].addr = s.conf[i].addr
           /\ IsStatic(t, i) <=> IsStatic(s, i)
  BY DEF Within, SameButName, Method, IsStatic

\* The STATIC_IPV6 case of get_remote_endp_addr takes the address configured,
\* and is done.
LEMMA StaticRemoteAddrTaken ==
    ASSUME NEW s \in States, NEW i \in Ifs, NEW p, Holds(s, i, p), Clean(s, p),
           NEW u \in StaticRemoteAddr(s, i)
    PROVE  /\ Within(s, u, i, p) /\ Clean(u, p)
           /\ s.conf[i].addr # None => u.rv = 0 /\ u.heap[p].remote = s.conf[i].addr
  <1> DEFINE addr == s.conf[i].addr
             taken == WithRemote(s, p, addr)
  <1>1. p \in PrivIds /\ s.ptr[i] = p /\ p # None /\ ~Dangling(s, i)
    BY ConstantsAssumption DEF Holds, Dangling
  <1>2. Error \in {-1, 0, 1} /\ Ready \in {-1, 0, 1} /\ Ready = 0 BY DEF Error, Ready
  <1>3. u = IF addr = None THEN Return(s, Error) ELSE Return(taken, Ready)
    BY <1>1 DEF StaticRemoteAddr, Clean, WithRemote
  <1>4. addr \in Remotes \cup {None} BY DEF States, Conf, Remotes
  <1> HIDE DEF addr
  <1>5. Wrote(s, taken, i, p, [s.heap[p] EXCEPT !.remote = addr])
    BY <1>1, <1>4, FieldsWritten
  <1>6. s.heap[p] \in Priv BY <1>1 DEF States
  <1>7. /\ Within(s, taken, i, p) /\ Clean(taken, p) /\ taken.heap[p].remote = addr
    BY <1>5, <1>6 DEF Wrote, Priv, Clean
  <1>8. taken \in States BY <1>7 DEF Within, Around
  <1> HIDE DEF taken
  <1>9. CASE addr = None
    <2>1. Within(s, u, i, p) /\ u.heap = s.heap BY <1>1, <1>2, <1>3, <1>9, ReturnWithin
    <2> QED BY <1>9, <2>1 DEF Clean, addr
  <1>10. CASE addr # None
    <2>1. Within(taken, u, i, p) /\ u.heap = taken.heap /\ u.rv = Ready
      BY <1>1, <1>2, <1>3, <1>8, <1>10, ReturnWithin
    <2>2. Within(s, u, i, p) BY <1>1, <1>7, <2>1, WithinTrans
    <2> QED BY <1>2, <1>7, <2>1, <2>2 DEF Clean, addr
  <1> QED BY <1>9, <1>10

\* get_remote_endp_addr leaves no pointer to a freed query, and nothing under
\* way for a static address.
LEMMA GetRemoteWithin ==
    ASSUME NoStray, NEW s \in States, NEW i \in Ifs, NEW p, Holds(s, i, p), Tidy(s, p),
           IsStatic(s, i) => Clean(s, p),
           NEW u \in GetRemoteEndpAddr(s, i)
    PROVE  /\ Within(s, u, i, p) /\ Tidy(u, p)
           /\ IsStatic(s, i) =>
                /\ Clean(u, p)
                /\ s.conf[i].addr # None => u.rv = 0 /\ u.heap[p].remote = s.conf[i].addr
  <1>1. p \in PrivIds BY DEF Holds
  <1>2. ASSUME NEW t, Within(s, t, i, p), Tidy(t, p), u = WaitingIfStarted(t)
        PROVE  Within(s, u, i, p) /\ Tidy(u, p)
    <2>1. t \in States BY <1>2 DEF Within, Around
    <2>2. PICK n \in {-1, 0, 1} : u = Return(t, n)
      BY <1>2 DEF WaitingIfStarted, Waiting, Error
    <2>3. Within(t, u, i, p) /\ u.heap = t.heap BY <1>1, <2>1, <2>2, ReturnWithin
    <2>4. Within(s, u, i, p) BY <1>1, <1>2, <2>3, WithinTrans
    <2> QED BY <1>2, <2>3, <2>4 DEF Tidy
  <1>3. CASE Method(s.conf[i]) = "STATIC_IPV6"
    <2>1. u \in StaticRemoteAddr(s, i) BY <1>3 DEF GetRemoteEndpAddr
    <2> QED BY <1>3, <2>1, StaticRemoteAddrTaken DEF IsStatic, Clean, Tidy
  <1>4. CASE Method(s.conf[i]) = "STATIC_FQDN"
    <2>1. PICK t \in ResolveEndpointName(s, i, s.conf[i].name) : u = WaitingIfStarted(t)
      BY <1>4 DEF GetRemoteEndpAddr
    <2>2. Within(s, t, i, p) /\ Tidy(t, p) BY ResolveWithin
    <2> QED BY <1>2, <1>4, <2>1, <2>2 DEF IsStatic
  <1>5. CASE Method(s.conf[i]) = "DHCPV6"
    <2>1. PICK t \in OpenDhcpQuery(s, i) : u = WaitingIfStarted(t)
      BY <1>5 DEF GetRemoteEndpAddr
    <2>2. Within(s, t, i, p) /\ Tidy(t, p) BY OpenDhcpQueryWithin
    <2> QED BY <1>2, <1>5, <2>1, <2>2 DEF IsStatic
  <1> QED BY <1>3, <1>4, <1>5 DEF Method

\* What the callers do with the answer, Ready being 0.
LEMMA UseRemoteSteady ==
    ASSUME NEW s \in States, NEW i \in Ifs, NEW p, Holds(s, i, p), NEW u \in UseRemote(s, i)
    PROVE  Steady(s, u, i, p) /\ (s.rv = 0 => u \in Setup(s, i))
  <1>1. "Error" \in Statuses \ {"Enabled"} BY DEF Statuses
  <1>2. s.rv \in {-1, 0, 1} /\ p \in PrivIds BY DEF States, Holds
  <1>3. CASE s.rv = 0
    <2>1. s.rv = Ready /\ s.rv # Error /\ s.rv # Waiting
      BY <1>3 DEF Ready, Error, Waiting
    <2>2. u \in Setup(s, i) BY <2>1 DEF UseRemote
    <2> QED BY <2>2, SetupSteady
  <1>4. CASE s.rv = -1
    <2>1. s.rv # Ready /\ s.rv = Error /\ s.rv # Waiting /\ s.rv # 0
      BY <1>4 DEF Ready, Error, Waiting
    <2>2. u \in Disable(s, i, "Error") BY <2>1 DEF UseRemote
    <2> QED BY <1>1, <2>1, <2>2, DisableSteady
  <1>5. CASE s.rv = 1
    <2>1. s.rv # Ready /\ s.rv # Error /\ s.rv = Waiting /\ s.rv # 0
      BY <1>5 DEF Ready, Error, Waiting
    <2>2. u = s BY <2>1 DEF UseRemote
    <2>3. Within(s, s, i, p) BY <1>2, OnlyWithin
    <2> QED BY <2>1, <2>2, <2>3 DEF Steady, SameRemote
  <1> QED BY <1>2, <1>3, <1>4, <1>5

\* An instance with a static address has nothing under way, and the address
\* configured in use, if there is one.
Settled(s, i, p) ==
    IsStatic(s, i) =>
        /\ Clean(s, p)
        /\ s.conf[i].addr # None => InUse(s, i, p, s.conf[i].addr)

\* get_remote_endp_addr and what its callers do with its answer settles it.
LEMMA GetAndUseSettles ==
    ASSUME NoStray, NEW s \in States, NEW i \in Ifs, NEW p, Holds(s, i, p), Tidy(s, p),
           IsStatic(s, i) => Clean(s, p),
           NEW t \in GetRemoteEndpAddr(s, i), NEW u \in UseRemote(t, i)
    PROVE  Within(s, u, i, p) /\ Tidy(u, p) /\ Settled(u, i, p)
  <1>1. p \in PrivIds BY DEF Holds
  <1>2. /\ Within(s, t, i, p) /\ Tidy(t, p)
        /\ IsStatic(s, i) =>
             /\ Clean(t, p)
             /\ s.conf[i].addr # None => t.rv = 0 /\ t.heap[p].remote = s.conf[i].addr
    BY GetRemoteWithin
  <1>3. t \in States /\ Holds(t, i, p) BY <1>2, HoldsKept
  <1>4. Steady(t, u, i, p) /\ (t.rv = 0 => u \in Setup(t, i)) BY <1>3, UseRemoteSteady
  <1>5. Within(s, u, i, p) BY <1>1, <1>2, <1>4, WithinTrans DEF Steady
  <1>6. Tidy(u, p) BY <1>2, <1>4 DEF Steady, SameRemote, Tidy
  <1>7. ASSUME IsStatic(u, i)
        PROVE  Clean(u, p) /\ (u.conf[i].addr # None => InUse(u, i, p, u.conf[i].addr))
    <2>1. IsStatic(s, i) /\ u.conf[i].addr = s.conf[i].addr BY <1>5, <1>7, MethodKept
    <2>2. Clean(u, p) BY <1>2, <1>4, <2>1 DEF Steady, SameRemote, Clean
    <2>3. ASSUME s.conf[i].addr # None PROVE InUse(u, i, p, s.conf[i].addr)
      <3>1. u \in Setup(t, i) /\ t.heap[p].remote = s.conf[i].addr BY <1>2, <1>4, <2>1, <2>3
      <3>2. SetUp(u, i, s.conf[i].addr) BY <1>3, <3>1, SetupOnly
      <3>3. u.heap[p].remote = s.conf[i].addr BY <1>4, <3>1 DEF Steady, SameRemote
      <3> QED BY <3>2, <3>3 DEF InUse, SetUp
    <2> QED BY <2>1, <2>2, <2>3
  <1> QED BY <1>5, <1>6, <1>7 DEF Settled

\* clear_remote_endpoint_properties.
LEMMA ClearRemoteCleans ==
    ASSUME NEW s \in States, NEW i \in Ifs, NEW p, Holds(s, i, p), Tidy(s, p),
           NEW u \in ClearRemote(s, i)
    PROVE  Within(s, u, i, p) /\ Clean(u, p)
  <1> DEFINE r == WithRemote(s, p, None)
             cleared == DhcpQuery(r, p, None, None)
  <1>1. p \in PrivIds /\ s.ptr[i] = p /\ p # None /\ ~Dangling(s, i)
    BY ConstantsAssumption DEF Holds, Dangling
  <1>2. PICK t \in CloseDnsQuery(cleared, p) : u = WithTimer(WithDns(t, p, "none"), p, "none")
    BY <1>1 DEF ClearRemote, WithRemote, DhcpQuery, WithTimer, WithDns
  <1>3. s.heap[p] \in Priv BY <1>1 DEF States
  <1>4. Wrote(s, r, i, p, [s.heap[p] EXCEPT !.remote = None]) BY <1>1, FieldsWritten
  <1>5. Within(s, r, i, p) /\ r.heap[p].dns = s.heap[p].dns BY <1>3, <1>4 DEF Wrote, Priv
  <1>6. r \in States BY <1>5 DEF Within, Around
  <1> HIDE DEF r
  <1>7. /\ Within(r, cleared, i, p) /\ cleared.heap[p].dns = r.heap[p].dns
        /\ cleared.heap[p].dhcpQ = None
    BY <1>1, <1>6, QueriesWritten
  <1> HIDE DEF cleared
  <1>8. Within(s, cleared, i, p) BY <1>1, <1>5, <1>7, WithinTrans
  <1>9. cleared \in States /\ Holds(cleared, i, p) /\ Tidy(cleared, p)
    BY <1>5, <1>7, <1>8, HoldsKept DEF Tidy
  <1>10. Within(cleared, t, i, p) /\ t.heap[p].dhcpQ = None
    BY <1>7, <1>9, CloseDnsQueryWithin
  <1>11. t \in States /\ t.heap[p] \in Priv BY <1>1, <1>10 DEF Within, Around, States
  <1> DEFINE d == WithDns(t, p, "none")
  <1>12. Wrote(t, d, i, p, [t.heap[p] EXCEPT !.dns = "none"]) BY <1>1, <1>11, FieldsWritten
  <1>13. Within(t, d, i, p) /\ d.heap[p].dns = "none" /\ d.heap[p].dhcpQ = None
    BY <1>10, <1>11, <1>12 DEF Wrote, Priv
  <1>14. d \in States /\ d.heap[p] \in Priv BY <1>1, <1>13 DEF Within, Around, States
  <1>15. u = WithTimer(d, p, "none") BY <1>2
  <1> HIDE DEF d
  <1>16. Wrote(d, u, i, p, [d.heap[p] EXCEPT !.timer = "none"])
    BY <1>1, <1>14, <1>15, FieldsWritten
  <1>17. Within(d, u, i, p) /\ Clean(u, p) BY <1>13, <1>14, <1>16 DEF Wrote, Priv, Clean
  <1>18. Within(s, t, i, p) BY <1>1, <1>8, <1>10, WithinTrans
  <1>19. Within(s, d, i, p) BY <1>1, <1>13, <1>18, WithinTrans
  <1>20. Within(s, u, i, p) BY <1>1, <1>17, <1>19, WithinTrans
  <1> QED BY <1>17, <1>20

\* The common end of the two precedence handlers settles the instance.
LEMMA RestartRemoteSettles ==
    ASSUME NoStray, NEW s \in States, NEW i \in Ifs, NEW p, Holds(s, i, p), Tidy(s, p),
           NEW u \in RestartRemote(s, i)
    PROVE  Within(s, u, i, p) /\ Tidy(u, p) /\ Settled(u, i, p)
  <1>1. PICK v \in ClearRemote(s, i) :
               \E t \in GetRemoteEndpAddr(v, i) : u \in UseRemote(t, i)
    BY DEF RestartRemote
  <1>2. PICK t \in GetRemoteEndpAddr(v, i) : u \in UseRemote(t, i) BY <1>1
  <1>3. Within(s, v, i, p) /\ Clean(v, p) BY ClearRemoteCleans
  <1>4. v \in States /\ Holds(v, i, p) /\ Tidy(v, p) /\ p \in PrivIds
    BY <1>3, HoldsKept DEF Clean, Tidy, Holds
  <1>5. Within(v, u, i, p) /\ Tidy(u, p) /\ Settled(u, i, p)
    BY <1>2, <1>3, <1>4, GetAndUseSettles
  <1> QED BY <1>3, <1>4, <1>5, WithinTrans

-----------------------------------------------------------------------------
(* Opening and closing an interface.                                       *)

\* The block p, which nobody uses, becomes the private data of i.
Allocated(s, i, p) ==
    [s EXCEPT !.ptr[i] = p, !.heap[p] = [BlankPriv EXCEPT !.alive = TRUE, !.owner = i]]

\* What the new private data is, and that nothing else changes.
LEMMA AllocatedFields ==
    ASSUME NEW s \in States, NEW i \in Ifs, NEW p \in PrivIds,
           NEW v, v = Allocated(s, i, p)
    PROVE  /\ v \in States /\ v.fault = s.fault
           /\ v.dslEnable = s.dslEnable /\ v.present = s.present /\ v.conf = s.conf
           /\ v.readOnly = s.readOnly /\ v.oper = s.oper /\ v.queue = s.queue
           /\ v.todo = s.todo /\ v.todoEnable = s.todoEnable /\ v.firewall = s.firewall
           /\ v.ptr[i] = p /\ \A j \in Ifs \ {i} : v.ptr[j] = s.ptr[j]
           /\ \A q \in PrivIds \ {p} : v.heap[q] = s.heap[q]
           /\ v.heap[p].alive /\ v.heap[p].owner = i /\ v.heap[p].remote = None
           /\ Clean(v, p)
  <1> DEFINE b == [BlankPriv EXCEPT !.alive = TRUE, !.owner = i]
  <1>1. /\ b \in Priv /\ b.alive /\ b.owner = i /\ b.remote = None
        /\ b.dns = "none" /\ b.dhcpQ = None /\ b.timer = "none"
    BY DEF BlankPriv, Priv
  <1> DEFINE w == [s EXCEPT !.ptr = [s.ptr EXCEPT ![i] = p], !.heap = [s.heap EXCEPT ![p] = b]]
  <1>2. v = w BY DEF Allocated
  <1> HIDE DEF b
  <1>3. /\ v \in States /\ v.fault = s.fault
        /\ v.dslEnable = s.dslEnable /\ v.present = s.present /\ v.conf = s.conf
        /\ v.readOnly = s.readOnly /\ v.oper = s.oper /\ v.queue = s.queue
        /\ v.todo = s.todo /\ v.todoEnable = s.todoEnable /\ v.firewall = s.firewall
        /\ v.ptr = [s.ptr EXCEPT ![i] = p] /\ v.heap = [s.heap EXCEPT ![p] = b]
    <2>1. /\ w \in States /\ w.fault = s.fault
          /\ w.dslEnable = s.dslEnable /\ w.present = s.present /\ w.conf = s.conf
          /\ w.readOnly = s.readOnly /\ w.oper = s.oper /\ w.queue = s.queue
          /\ w.todo = s.todo /\ w.todoEnable = s.todoEnable /\ w.firewall = s.firewall
          /\ w.ptr = [s.ptr EXCEPT ![i] = p] /\ w.heap = [s.heap EXCEPT ![p] = b]
      BY <1>1 DEF States
    <2> HIDE DEF w
    <2> QED BY <1>2, <2>1
  <1>4. s.ptr \in [Ifs -> PrivIds \cup {None}] /\ s.heap \in [PrivIds -> Priv] BY DEF States
  <1>5. /\ v.ptr[i] = p /\ \A j \in Ifs \ {i} : v.ptr[j] = s.ptr[j]
        /\ v.heap[p] = b /\ \A q \in PrivIds \ {p} : v.heap[q] = s.heap[q]
    BY <1>3, <1>4
  <1> QED BY <1>1, <1>3, <1>5 DEF Clean

\* An instance that was not Enabled got the private data p and has worked with
\* it since.
Begun(s, u, i, p) ==
    /\ ~s.heap[p].alive /\ \A j \in Ifs \ {i} : s.ptr[j] # p
    /\ Within(Allocated(s, i, p), u, i, p) /\ Tidy(u, p) /\ Settled(u, i, p)

\* enable_interface.
LEMMA EnableInterfaceBegins ==
    ASSUME NoStray, NEW s \in States, NEW i \in Ifs, s.fault = None, ~Enabled(s, i),
           NEW u \in EnableInterface(s, i)
    PROVE  \E p \in PrivIds : Begun(s, u, i, p)
  <1>1. PICK v \in AllocatePriv(s, i) :
               \E t \in GetTunnelParameters(v, i) : u \in UseRemote(t, i)
    BY DEF EnableInterface
  <1>2. PICK t \in GetTunnelParameters(v, i) : u \in UseRemote(t, i) BY <1>1
  <1>3. PICK p \in PrivIds : /\ ~s.heap[p].alive /\ \A j \in Ifs \ {i} : s.ptr[j] # p
                             /\ v = Allocated(s, i, p)
    BY DEF AllocatePriv, Allocated
  <1>4. /\ v \in States /\ Holds(v, i, p) /\ Clean(v, p) /\ Tidy(v, p)
        /\ v.heap[p].remote = None /\ ~Enabled(v, i)
    <2>1. /\ v \in States /\ v.fault = s.fault /\ v.oper = s.oper /\ v.ptr[i] = p
          /\ v.heap[p].alive /\ v.heap[p].owner = i /\ v.heap[p].remote = None
          /\ Clean(v, p)
      BY <1>3, AllocatedFields
    <2> QED BY <2>1 DEF Holds, Clean, Tidy, Enabled
  <1>5. PICK w \in OpenAddrQuery(v, i) :
               IF w.rv # 0 THEN t = w ELSE t \in GetRemoteEndpAddr(w, i)
    BY <1>2 DEF GetTunnelParameters
  <1>6. Steady(v, w, i, p) BY <1>4, OpenAddrQuerySteady
  <1>7. /\ w \in States /\ Holds(w, i, p) /\ Clean(w, p) /\ Tidy(w, p)
    BY <1>4, <1>6, HoldsKept DEF Steady, SameRemote, Clean, Tidy
  <1>8. CASE w.rv = 0
    <2>1. t \in GetRemoteEndpAddr(w, i) BY <1>5, <1>8
    <2>2. Within(w, u, i, p) /\ Tidy(u, p) /\ Settled(u, i, p)
      BY <1>2, <1>7, <2>1, GetAndUseSettles
    <2>3. Within(v, u, i, p) BY <1>4, <1>6, <2>2, WithinTrans DEF Steady
    <2> QED BY <1>3, <2>2, <2>3 DEF Begun
  <1>9. CASE w.rv # 0
    <2>1. u \in UseRemote(w, i) BY <1>2, <1>5, <1>9
    <2>2. Steady(w, u, i, p) BY <1>7, <2>1, UseRemoteSteady
    <2>3. Steady(v, u, i, p) BY <1>4, <1>6, <2>2, SteadyTrans
    <2>4. Clean(u, p) /\ Tidy(u, p) BY <1>7, <2>2 DEF Steady, SameRemote, Clean, Tidy
    <2>5. \A a : InUse(u, i, p, a) BY <1>4, <2>3 DEF Steady, InUse
    <2>6. Settled(u, i, p) BY <2>4, <2>5 DEF Settled
    <2> QED BY <1>3, <2>3, <2>4, <2>6 DEF Begun, Steady
  <1> QED BY <1>8, <1>9

\* The block p is cleared and freed.
Freed(t, p) == [t EXCEPT !.heap[p] = BlankPriv]

\* An instance that is not Enabled any more gave up the private data p.
Ended(s, u, i, p) ==
    \E t : Within(s, t, i, p) /\ ~Enabled(t, i) /\ u = Freed(t, p)

\* cleanup_private_data.
LEMMA CleanupPrivEnds ==
    ASSUME NEW s \in States, NEW i \in Ifs, NEW p, Holds(s, i, p), Tidy(s, p),
           ~Enabled(s, i), NEW u \in CleanupPriv(s, i)
    PROVE  Ended(s, u, i, p)
  <1> DEFINE r == AddrQuery(s, p, None, None)
             closed == DhcpQuery(r, p, None, None)
  <1>1. p \in PrivIds /\ s.ptr[i] = p /\ p # None /\ ~Dangling(s, i)
    BY ConstantsAssumption DEF Holds, Dangling
  <1>2. PICK t \in CloseDnsQuery(closed, p) : u = Freed(t, p)
    BY <1>1 DEF CleanupPriv, AddrQuery, DhcpQuery, Freed
  <1>3. Steady(s, r, i, p) BY <1>1, QueriesWritten
  <1>4. r \in States /\ r.oper = s.oper BY <1>3 DEF Steady, Within, Around, AddrQuery, States
  <1> HIDE DEF r
  <1>5. Within(r, closed, i, p) /\ closed.heap[p].dns = r.heap[p].dns
    BY <1>1, <1>4, QueriesWritten
  <1>6. closed.oper = r.oper BY <1>4 DEF DhcpQuery, States
  <1> HIDE DEF closed
  <1>7. Within(s, closed, i, p) BY <1>1, <1>3, <1>5, WithinTrans DEF Steady
  <1>8. closed \in States /\ Holds(closed, i, p) /\ Tidy(closed, p)
    BY <1>3, <1>5, <1>7, HoldsKept DEF Tidy, Steady, SameRemote
  <1>9. Within(closed, t, i, p) /\ (Enabled(t, i) => Enabled(closed, i))
    BY <1>8, CloseDnsQueryWithin
  <1>10. Within(s, t, i, p) /\ ~Enabled(t, i)
    BY <1>1, <1>4, <1>6, <1>7, <1>9, WithinTrans DEF Enabled
  <1> QED BY <1>2, <1>10 DEF Ended

\* Disabling an instance, and giving up its private data.
LEMMA ToggleOffEnds ==
    ASSUME NEW s \in States, NEW i \in Ifs, NEW p, Holds(s, i, p), Tidy(s, p),
           NEW u \in Toggle(s, i, FALSE)
    PROVE  Ended(s, u, i, p)
  <1>1. PICK t \in Disable(s, i, "Disabled") : u \in CleanupPriv(t, i) BY DEF Toggle
  <1>2. "Disabled" \in Statuses \ {"Enabled"} /\ p \in PrivIds BY DEF Statuses, Holds
  <1>3. Steady(s, t, i, p) /\ ~Enabled(t, i) BY <1>1, <1>2, DisableSteady, DisableOnly
  <1>4. t \in States /\ Holds(t, i, p) /\ Tidy(t, p)
    BY <1>3, HoldsKept DEF Steady, SameRemote, Tidy
  <1>5. PICK w : Within(t, w, i, p) /\ ~Enabled(w, i) /\ u = Freed(w, p)
    BY <1>1, <1>3, <1>4, CleanupPrivEnds DEF Ended
  <1>6. Within(s, w, i, p) BY <1>2, <1>3, <1>5, WithinTrans DEF Steady
  <1> QED BY <1>5, <1>6 DEF Ended

-----------------------------------------------------------------------------
(* The handlers of the data model's events.                                *)

\* _endpoint_address_changed on an instance with private data.
LEMMA EndpointAddressSettles ==
    ASSUME NoStray, NEW s \in States, NEW i \in Ifs, NEW p, Holds(s, i, p), Tidy(s, p),
           IsStatic(s, i) => Clean(s, p), Listening(s, i),
           NEW u \in EndpointAddressChanged(s, i)
    PROVE  Within(s, u, i, p) /\ Tidy(u, p) /\ Settled(u, i, p)
  <1>1. p \in PrivIds BY DEF Holds
  <1>2. CASE IsStatic(s, i)
    <2>1. PICK t \in GetRemoteEndpAddr(s, i) : u \in UseRemote(t, i)
      BY <1>2 DEF EndpointAddressChanged, IsStatic
    <2> QED BY <1>2, <2>1, GetAndUseSettles
  <1>3. CASE ~IsStatic(s, i)
    <2>1. u = s BY <1>3 DEF EndpointAddressChanged, IsStatic
    <2> QED BY <1>1, <1>3, <2>1, OnlyWithin DEF Settled
  <1> QED BY <1>2, <1>3

\* Making EndpointName read-only or writable changes nothing else.
LEMMA MarkFields ==
    ASSUME NEW s \in States, NEW i \in Ifs
    PROVE  LET m == MarkEndpointName(s, i)
           IN  /\ m \in States /\ m.fault = s.fault
               /\ m.dslEnable = s.dslEnable /\ m.present = s.present /\ m.conf = s.conf
               /\ m.oper = s.oper /\ m.ptr = s.ptr /\ m.heap = s.heap /\ m.queue = s.queue
               /\ m.todo = s.todo /\ m.todoEnable = s.todoEnable /\ m.firewall = s.firewall
               /\ \A j \in Ifs \ {i} : j \in m.readOnly <=> j \in s.readOnly
               /\ i \in m.readOnly <=> s.conf[i].prec = "DHCPv6"
  <1> DEFINE m == MarkEndpointName(s, i)
             r == IF Method(s.conf[i]) = "DHCPV6" THEN s.readOnly \cup {i}
                                                  ELSE s.readOnly \ {i}
  <1>1. Method(s.conf[i]) = "DHCPV6" <=> s.conf[i].prec = "DHCPv6" BY DEF Method
  <1>2. m = [s EXCEPT !.readOnly = r] BY DEF MarkEndpointName
  <1>3. /\ \A j \in Ifs \ {i} : j \in r <=> j \in s.readOnly
        /\ i \in r <=> s.conf[i].prec = "DHCPv6"
    BY <1>1
  <1>4. m \in States BY MarkPreserves DEF Preserves
  <1> HIDE DEF r, m
  <1>5. /\ m.readOnly = r /\ m.fault = s.fault
        /\ m.dslEnable = s.dslEnable /\ m.present = s.present /\ m.conf = s.conf
        /\ m.oper = s.oper /\ m.ptr = s.ptr /\ m.heap = s.heap /\ m.queue = s.queue
        /\ m.todo = s.todo /\ m.todoEnable = s.todoEnable /\ m.firewall = s.firewall
    BY <1>2 DEF States
  <1> QED BY <1>3, <1>4, <1>5 DEF m

\* _endpoint_assignment_precedence_changed on an instance with private data.
LEMMA AssignmentPrecedenceSettles ==
    ASSUME NoStray, NEW s \in States, NEW i \in Ifs, NEW p, Holds(s, i, p), Tidy(s, p),
           Listening(s, i), NEW u \in AssignmentPrecedenceChanged(s, i)
    PROVE  Within(MarkEndpointName(s, i), u, i, p) /\ Tidy(u, p) /\ Settled(u, i, p)
  <1> DEFINE m == MarkEndpointName(s, i)
  <1>1. /\ m \in States /\ m.fault = s.fault /\ m.ptr = s.ptr /\ m.heap = s.heap
        /\ m.conf = s.conf /\ m.dslEnable = s.dslEnable
    BY MarkFields
  <1>2. u \in RestartRemote(m, i) BY <1>1 DEF AssignmentPrecedenceChanged, Listening
  <1> HIDE DEF m
  <1>3. Holds(m, i, p) /\ Tidy(m, p) BY <1>1 DEF Holds, Tidy
  <1> QED BY <1>1, <1>2, <1>3, RestartRemoteSettles DEF m

\* _endpoint_name_changed does nothing for a static address.
LEMMA EndpointNameWithin ==
    ASSUME NoStray,
           NEW s \in States, NEW i \in Ifs, NEW p, Holds(s, i, p), Tidy(s, p), NEW name,
           NEW u \in EndpointNameChanged(s, i, name)
    PROVE  Within(s, u, i, p) /\ Tidy(u, p) /\ (IsStatic(s, i) => u = s)
  <1>1. p \in PrivIds BY DEF Holds
  <1>2. CASE u = s BY <1>1, <1>2, OnlyWithin
  <1>3. CASE /\ ~IsStatic(s, i)
             /\ \E t \in ResolveEndpointName(s, i, name) : u \in DisableOnError(t, i)
    BY <1>3, ResolveOrDisableWithin
  <1> QED BY <1>2, <1>3 DEF EndpointNameChanged, IsStatic

\* _endpoint_address_type_precedence_changed on an instance with private data.
LEMMA AddressTypeSettles ==
    ASSUME NoStray, NEW s \in States, NEW i \in Ifs, NEW p, Holds(s, i, p), Tidy(s, p),
           Listening(s, i), NEW u \in AddressTypePrecedenceChanged(s, i)
    PROVE  Within(s, u, i, p) /\ Tidy(u, p) /\ Settled(u, i, p)
  <1>1. p \in PrivIds BY DEF Holds
  <1>2. CASE u = s /\ Method(s.conf[i]) = "DHCPV6"
    BY <1>1, <1>2, OnlyWithin DEF Settled, IsStatic
  <1>3. CASE u \in RestartRemote(s, i) BY <1>3, RestartRemoteSettles
  <1> QED BY <1>2, <1>3 DEF AddressTypePrecedenceChanged

\* _wan_interface_changed opens the firewall where it is wanted now.
LEMMA WanInterfaceSteady ==
    ASSUME NEW s \in States, NEW i \in Ifs, NEW p, Holds(s, i, p), Listening(s, i),
           NEW u \in WanInterfaceChanged(s, i)
    PROVE  Steady(s, u, i, p) /\ OpenOnWan(u, i)
  <1>1. p \in PrivIds /\ "Error" \in Statuses \ {"Enabled"} BY DEF Holds, Statuses
  <1>2. PICK t \in OpenAddrQuery(s, i) : u \in Disable(t, i, "Error") \/ u \in Setup(t, i)
    BY DEF WanInterfaceChanged
  <1>3. Steady(s, t, i, p) BY OpenAddrQuerySteady
  <1>4. t \in States /\ Holds(t, i, p) BY <1>3, HoldsKept DEF Steady
  <1>5. CASE u \in Disable(t, i, "Error")
    <2>1. Steady(t, u, i, p) /\ ~Enabled(u, i) BY <1>1, <1>4, <1>5, DisableSteady, DisableOnly
    <2> QED BY <1>1, <1>3, <2>1, SteadyTrans DEF OpenOnWan
  <1>6. CASE u \in Setup(t, i)
    <2>1. Steady(t, u, i, p) /\ OpenOnWan(u, i) BY <1>4, <1>6, SetupSteady, SetupOnly
    <2> QED BY <1>1, <1>3, <2>1, SteadyTrans
  <1> QED BY <1>2, <1>5, <1>6


-----------------------------------------------------------------------------
(* The invariant: what is queued ...                                       *)

\* The queue holds an event of parameter x of instance i; of the instance's
\* creation; of DSLite.Enable.
Awaits(s, i, x) ==
    \E k \in 1..Len(s.queue) :
        s.queue[k].kind = "setting" /\ s.queue[k].obj = i /\ x \in s.queue[k].changed

AddedAwaits(s, i) ==
    \E k \in 1..Len(s.queue) : s.queue[k].kind = "added" /\ s.queue[k].obj = i

DslAwaits(s) == \E k \in 1..Len(s.queue) : s.queue[k].kind = "dslite"

\* No event but those of names that DHCP reported.
Plain(s) == \A k \in 1..Len(s.queue) : IsName(s.queue[k])

\* The events carry the values of the data model, each changes one parameter,
\* and only creations are handled before any event but the name's.
EventCalm(s, e) ==
    /\ e.kind = "dslite" => e.enable = s.dslEnable
    /\ e.kind # "dslite" => e.obj \in s.present
    /\ e.kind = "setting" => \E x \in Params : e.changed = {x}
    /\ e.kind = "setting" /\ "enable" \in e.changed => e.enable = s.conf[e.obj].enable

QueueCalm(s) ==
    \A k \in 1..Len(s.queue) :
        /\ EventCalm(s, s.queue[k])
        /\ IsName(s.queue[k]) \/ \A j \in 1..(k - 1) : s.queue[j].kind = "added"

\* ... who owns the private data ...
On(s, i) == s.ptr[i] # None /\ s.heap[s.ptr[i]].alive

BlockOwned(s, p) ==
    IF s.heap[p].alive
      THEN s.heap[p].owner \in Ifs /\ s.ptr[s.heap[p].owner] = p /\ Tidy(s, p)
      ELSE s.heap[p] = BlankPriv

Owner(s, i) ==
    /\ On(s, i) => s.heap[s.ptr[i]].owner = i /\ i \in s.present
    /\ Enabled(s, i) => On(s, i)
    /\ i \notin s.present => ~s.conf[i].enable

Owned(s) == (\A p \in PrivIds : BlockOwned(s, p)) /\ \A i \in Ifs : Owner(s, i)

\* ... which instances an event of DSLite.Enable has still to visit ...
Visiting(s) ==
    /\ s.todo \subseteq s.present /\ \A i \in s.todo : s.conf[i].enable
    /\ s.todo # {} => s.todoEnable = s.dslEnable /\ Plain(s)

Base(s) ==
    s \in States /\ s.fault = None /\ QueueCalm(s) /\ Owned(s) /\ Visiting(s)

\* ... and of each instance: it has private data if it was active when the
\* events of both Enable parameters were handled last ...
DslSeen(s, i) == IF DslAwaits(s) \/ i \in s.todo THEN ~s.dslEnable ELSE s.dslEnable

EnSeen(s, i) == IF Awaits(s, i, "enable") THEN ~s.conf[i].enable ELSE s.conf[i].enable

LifetimeAt(s, i) == On(s, i) <=> DslSeen(s, i) /\ EnSeen(s, i)

\* ... with a static address it has nothing under way and that address in use,
\* once the events of the parameters this depends on are handled ...
StaticAt(s, i) ==
    /\ On(s, i) /\ IsStatic(s, i) /\ ~Awaits(s, i, "prec") /\ ~Awaits(s, i, "type")
    => /\ Clean(s, s.ptr[i])
       /\ ~Awaits(s, i, "addr") /\ s.conf[i].addr # None
            => InUse(s, i, s.ptr[i], s.conf[i].addr)

\* ... and so are the firewall and the access to EndpointName.
WanAt(s, i) ==
    SoleInterface /\ ~Awaits(s, i, "wan") => OpenOnWan(s, i)

AccessAt(s, i) ==
    i \in s.present /\ ~Awaits(s, i, "prec") /\ ~AddedAwaits(s, i)
        => (i \in s.readOnly <=> s.conf[i].prec = "DHCPv6")

At(s, i) == LifetimeAt(s, i) /\ StaticAt(s, i) /\ WanAt(s, i) /\ AccessAt(s, i)

Calm(s) == Base(s) /\ \A i \in Ifs : At(s, i)

\* The events queued in t wait for the same as those in s.
SameAwaits(s, t) ==
    /\ \A j, x : x # "name" => (Awaits(t, j, x) <=> Awaits(s, j, x))
    /\ \A j : AddedAwaits(t, j) <=> AddedAwaits(s, j)
    /\ DslAwaits(t) <=> DslAwaits(s)
    /\ Plain(s) => Plain(t)

\* In a plain queue there is nothing to wait for.
LEMMA PlainAwaits ==
    ASSUME NEW s, Plain(s)
    PROVE  /\ \A j, x : x # "name" => ~Awaits(s, j, x)
           /\ \A j : ~AddedAwaits(s, j)
           /\ ~DslAwaits(s)
  <1>1. ASSUME NEW k \in 1..Len(s.queue)
        PROVE  /\ s.queue[k].kind = "setting" /\ s.queue[k].changed = {"name"}
    BY <1>1 DEF Plain, IsName
  <1> QED BY <1>1 DEF Awaits, AddedAwaits, DslAwaits

\* A name event that is added changes nothing of this.
LEMMA GrewAwaits ==
    ASSUME NEW s \in States, NEW t \in States, NEW i, Grew(s.queue, t.queue, i)
    PROVE  SameAwaits(s, t)
  <1>1. Len(s.queue) \in Nat /\ Len(t.queue) \in Nat /\ Len(s.queue) <= Len(t.queue)
    BY DEF States, Grew
  <1>2. \A k \in 1..Len(s.queue) : k \in 1..Len(t.queue) /\ t.queue[k] = s.queue[k]
    BY <1>1 DEF Grew
  <1>3. \A k \in 1..Len(t.queue) : k \in 1..Len(s.queue) \/ IsName(t.queue[k])
    BY <1>1 DEF Grew
  <1>4. ASSUME NEW j, NEW x, x # "name" PROVE Awaits(t, j, x) <=> Awaits(s, j, x)
    BY <1>2, <1>3, <1>4 DEF Awaits, IsName
  <1>5. ASSUME NEW j PROVE AddedAwaits(t, j) <=> AddedAwaits(s, j)
    BY <1>2, <1>3 DEF AddedAwaits, IsName
  <1>6. DslAwaits(t) <=> DslAwaits(s) BY <1>2, <1>3 DEF DslAwaits, IsName
  <1>7. Plain(s) => Plain(t) BY <1>2, <1>3 DEF Plain
  <1> QED BY <1>4, <1>5, <1>6, <1>7 DEF SameAwaits

\* Neither does a function that serves one instance.
LEMMA WithinQueue ==
    ASSUME NEW s \in States, NEW t, NEW i \in Ifs, NEW p, Within(s, t, i, p),
           QueueCalm(s), i \in s.present
    PROVE  QueueCalm(t) /\ SameAwaits(s, t)
  <1>1. t \in States /\ Grew(s.queue, t.queue, i) BY DEF Within, Around
  <1>2. Len(s.queue) \in Nat /\ Len(t.queue) \in Nat /\ Len(s.queue) <= Len(t.queue)
    BY <1>1 DEF States, Grew
  <1>3. SameAwaits(s, t) BY <1>1, GrewAwaits
  <1>4. t.dslEnable = s.dslEnable /\ t.present = s.present
        /\ \A j \in Ifs : t.conf[j].enable = s.conf[j].enable
    BY DEF Within, Around, SameButName
  <1>5. ASSUME NEW k \in 1..Len(t.queue)
        PROVE  /\ EventCalm(t, t.queue[k])
               /\ IsName(t.queue[k]) \/ \A j \in 1..(k - 1) : t.queue[j].kind = "added"
    <2>1. CASE k \in 1..Len(s.queue)
      <3>1. t.queue[k] = s.queue[k] /\ \A j \in 1..(k - 1) : t.queue[j] = s.queue[j]
        BY <1>1, <1>2, <2>1 DEF Grew
      <3>2. EventCalm(s, s.queue[k]) BY <2>1 DEF QueueCalm
      <3>3. s.present \subseteq Ifs BY DEF States
      <3>4. EventCalm(t, t.queue[k]) BY <1>4, <3>1, <3>2, <3>3 DEF EventCalm
      <3>5. IsName(s.queue[k]) \/ \A j \in 1..(k - 1) : s.queue[j].kind = "added"
        BY <2>1 DEF QueueCalm
      <3> QED BY <3>1, <3>4, <3>5
    <2>2. CASE Len(s.queue) < k
      <3>1. IsName(t.queue[k]) /\ t.queue[k].obj = i BY <1>1, <2>2 DEF Grew
      <3>2. EventCalm(t, t.queue[k]) BY <1>4, <3>1 DEF EventCalm, IsName, Params
      <3> QED BY <3>1, <3>2
    <2> QED BY <1>2, <2>1, <2>2
  <1> QED BY <1>3, <1>5 DEF QueueCalm

\* An event that is taken off the queue.
Popped(s) == [s EXCEPT !.queue = Tail(s.queue)]

\* Nothing else is changed.
LEMMA PoppedFields ==
    ASSUME NEW s \in States, s.queue # <<>>, NEW t, t = Popped(s)
    PROVE  /\ t \in States /\ t.fault = s.fault
           /\ t.dslEnable = s.dslEnable /\ t.present = s.present /\ t.conf = s.conf
           /\ t.readOnly = s.readOnly /\ t.oper = s.oper /\ t.ptr = s.ptr
           /\ t.heap = s.heap /\ t.todo = s.todo /\ t.todoEnable = s.todoEnable
           /\ t.firewall = s.firewall /\ t.queue = Tail(s.queue)
  <1>1. s.queue \in Seq(Event) BY DEF States
  <1>2. Tail(s.queue) \in Seq(Event) BY <1>1
  <1> QED BY <1>2 DEF Popped, States

\* What an event that is handled leaves in the queue.
LEMMA PoppedQueue ==
    ASSUME NEW s \in States, s.queue # <<>>, QueueCalm(s), NEW t, t = Popped(s)
    PROVE  /\ QueueCalm(t) /\ EventCalm(s, Head(s.queue))
           /\ Head(s.queue).kind # "added" => Plain(t)
           /\ \A j, x : Awaits(s, j, x) <=>
                \/ Awaits(t, j, x)
                \/ /\ Head(s.queue).kind = "setting" /\ Head(s.queue).obj = j
                   /\ x \in Head(s.queue).changed
           /\ \A j : AddedAwaits(s, j) <=>
                \/ AddedAwaits(t, j)
                \/ Head(s.queue).kind = "added" /\ Head(s.queue).obj = j
           /\ DslAwaits(s) <=> DslAwaits(t) \/ Head(s.queue).kind = "dslite"
  <1> DEFINE n == Len(s.queue)
             h == Head(s.queue)
  <1>1. /\ t.queue = Tail(s.queue) /\ t.dslEnable = s.dslEnable /\ t.present = s.present
        /\ t.conf = s.conf
    BY PoppedFields
  <1>2. s.queue \in Seq(Event) BY DEF States
  <1>3. /\ n \in Nat \ {0} /\ Len(t.queue) = n - 1 /\ h = s.queue[1]
        /\ \A k \in 1..(n - 1) : t.queue[k] = s.queue[k + 1]
    BY <1>1, <1>2
  <1> HIDE DEF n, h
  <1>4. \A k \in 1..n : k = 1 \/ (k - 1 \in 1..(n - 1) /\ s.queue[k] = t.queue[k - 1])
    <2>1. ASSUME NEW k \in 1..n, k # 1
          PROVE  k - 1 \in 1..(n - 1) /\ s.queue[k] = t.queue[k - 1]
      <3>1. k - 1 \in 1..(n - 1) /\ (k - 1) + 1 = k BY <1>3, <2>1
      <3> QED BY <1>3, <3>1
    <2> QED BY <2>1
  <1>5. \A k \in 1..(n - 1) : k + 1 \in 1..n /\ t.queue[k] = s.queue[k + 1] BY <1>3
  <1>6. 1 \in 1..n /\ s.queue[1] = h BY <1>3
  <1>7. EventCalm(s, h) BY <1>6 DEF QueueCalm, n
  <1>8. ASSUME NEW k \in 1..(n - 1)
        PROVE  /\ EventCalm(t, t.queue[k])
               /\ IsName(t.queue[k]) \/ \A j \in 1..(k - 1) : t.queue[j].kind = "added"
    <2>1. k + 1 \in 1..n /\ t.queue[k] = s.queue[k + 1] BY <1>5
    <2>2. (k + 1) - 1 = k BY <1>3
    <2>3. /\ EventCalm(s, s.queue[k + 1])
          /\ IsName(s.queue[k + 1])
             \/ \A j \in 1..((k + 1) - 1) : s.queue[j].kind = "added"
      BY <2>1 DEF QueueCalm, n
    <2>4. /\ EventCalm(s, s.queue[k + 1])
          /\ IsName(s.queue[k + 1]) \/ \A j \in 1..k : s.queue[j].kind = "added"
      BY <2>2, <2>3
    <2>5. \A j \in 1..(k - 1) : j + 1 \in 1..k /\ t.queue[j] = s.queue[j + 1] BY <1>3
    <2> QED BY <1>1, <2>1, <2>4, <2>5 DEF EventCalm
  <1>9. QueueCalm(t) BY <1>3, <1>8 DEF QueueCalm
  <1>10. h.kind # "added" => Plain(t)
    <2>1. ASSUME h.kind # "added", NEW k \in 1..(n - 1) PROVE IsName(t.queue[k])
      <3>1. k + 1 \in 1..n /\ t.queue[k] = s.queue[k + 1] /\ 1 \in 1..k BY <1>5, <1>3
      <3>2. IsName(s.queue[k + 1]) \/ \A j \in 1..k : s.queue[j].kind = "added"
        BY <1>3, <3>1 DEF QueueCalm, n
      <3> QED BY <1>6, <2>1, <3>1, <3>2
    <2> QED BY <1>3, <2>1 DEF Plain
  <1> DEFINE S == {s.queue[k] : k \in 1..n}
             T == {t.queue[k] : k \in 1..(n - 1)}
  <1>12. S = T \cup {h}
    <2>1. ASSUME NEW e \in S PROVE e \in T \cup {h}
      <3>1. PICK k \in 1..n : e = s.queue[k] OBVIOUS
      <3> QED BY <1>4, <1>6, <3>1
    <2>2. T \cup {h} \subseteq S BY <1>5, <1>6
    <2> QED BY <2>1, <2>2
  <1>13. \A j, x : /\ Awaits(s, j, x) <=> \E e \in S : e.kind = "setting" /\ e.obj = j /\ x \in e.changed
                   /\ Awaits(t, j, x) <=> \E e \in T : e.kind = "setting" /\ e.obj = j /\ x \in e.changed
    BY <1>3 DEF Awaits, n
  <1>14. \A j : /\ AddedAwaits(s, j) <=> \E e \in S : e.kind = "added" /\ e.obj = j
                /\ AddedAwaits(t, j) <=> \E e \in T : e.kind = "added" /\ e.obj = j
    BY <1>3 DEF AddedAwaits, n
  <1>15. /\ DslAwaits(s) <=> \E e \in S : e.kind = "dslite"
         /\ DslAwaits(t) <=> \E e \in T : e.kind = "dslite"
    BY <1>3 DEF DslAwaits, n
  <1> HIDE DEF S, T
  <1>16. \A j, x : Awaits(s, j, x) <=>
           Awaits(t, j, x) \/ (h.kind = "setting" /\ h.obj = j /\ x \in h.changed)
    BY <1>12, <1>13
  <1>17. \A j : AddedAwaits(s, j) <=> AddedAwaits(t, j) \/ (h.kind = "added" /\ h.obj = j)
    BY <1>12, <1>14
  <1>18. DslAwaits(s) <=> DslAwaits(t) \/ h.kind = "dslite" BY <1>12, <1>15
  <1> QED BY <1>7, <1>9, <1>10, <1>16, <1>17, <1>18 DEF h

-----------------------------------------------------------------------------
(* What the functions keep of the invariant.                               *)

\* What the invariant says of instance j depends on these.
SameFor(s, u, j) ==
    /\ SameAwaits(s, u)
    /\ u.dslEnable = s.dslEnable
    /\ j \in u.todo <=> j \in s.todo
    /\ j \in u.present <=> j \in s.present
    /\ j \in u.readOnly <=> j \in s.readOnly
    /\ u.conf[j] = s.conf[j] /\ u.oper[j] = s.oper[j]
    /\ On(u, j) <=> On(s, j)
    /\ On(s, j) => u.ptr[j] = s.ptr[j] /\ u.heap[s.ptr[j]] = s.heap[s.ptr[j]]

LEMMA SameAt ==
    ASSUME NEW s, NEW u, NEW j, SameFor(s, u, j)
    PROVE  /\ LifetimeAt(s, j) => LifetimeAt(u, j)
           /\ StaticAt(s, j) => StaticAt(u, j)
           /\ AccessAt(s, j) => AccessAt(u, j)
           /\ u.firewall = s.firewall /\ WanAt(s, j) => WanAt(u, j)
  <1>1. \A x : x # "name" => (Awaits(u, j, x) <=> Awaits(s, j, x)) BY DEF SameFor, SameAwaits
  <1>2. /\ AddedAwaits(u, j) <=> AddedAwaits(s, j)
        /\ DslAwaits(u) <=> DslAwaits(s)
    BY DEF SameFor, SameAwaits
  <1>3. LifetimeAt(s, j) => LifetimeAt(u, j)
    BY <1>1, <1>2 DEF SameFor, LifetimeAt, DslSeen, EnSeen
  <1>4. AccessAt(s, j) => AccessAt(u, j) BY <1>1, <1>2 DEF SameFor, AccessAt
  <1>5. u.firewall = s.firewall /\ WanAt(s, j) => WanAt(u, j)
    BY <1>1 DEF SameFor, WanAt, OpenOnWan, Enabled
  <1>6. StaticAt(s, j) => StaticAt(u, j)
    BY <1>1 DEF SameFor, StaticAt, IsStatic, Clean, InUse, Enabled
  <1> QED BY <1>3, <1>4, <1>5, <1>6

\* An instance whose private data a function needs has them and exists.
LEMMA HoldsOn ==
    ASSUME NEW s, Base(s), NEW i \in Ifs, NEW p, Holds(s, i, p)
    PROVE  /\ p \in PrivIds /\ p # None /\ On(s, i) /\ i \in s.present /\ Tidy(s, p)
           /\ \A j \in Ifs \ {i} : On(s, j) => s.ptr[j] # p
  <1>1. p \in PrivIds /\ p # None /\ On(s, i)
    BY ConstantsAssumption DEF Holds, On
  <1>2. i \in s.present /\ \A j \in Ifs : On(s, j) => s.heap[s.ptr[j]].owner = j
    BY <1>1 DEF Base, Owned, Owner
  <1>3. Tidy(s, p) BY <1>1 DEF Base, Owned, BlockOwned, Holds
  <1> QED BY <1>1, <1>2, <1>3 DEF Holds

\* An active instance has private data.
LEMMA OnHolds ==
    ASSUME NEW s, Base(s), NEW i \in Ifs, On(s, i)
    PROVE  Holds(s, i, s.ptr[i])
  <1>1. s.ptr[i] \in PrivIds BY DEF Base, States, On
  <1> QED BY <1>1 DEF Base, Owned, Owner, On, Holds

\* So has the owner of a block that is in use.
LEMMA UsedHolds ==
    ASSUME NEW s, Base(s), NEW p \in PrivIds,
           \/ s.heap[p].dns # "none" \/ s.heap[p].timer # "none"
           \/ s.heap[p].addrQ # None \/ s.heap[p].dhcpQ # None
    PROVE  s.heap[p].owner \in Ifs /\ Holds(s, s.heap[p].owner, p)
  <1>1. BlockOwned(s, p) BY DEF Base, Owned
  <1>2. s.heap[p].alive BY <1>1 DEF BlockOwned, BlankPriv
  <1> QED BY <1>1, <1>2 DEF BlockOwned, Holds, Base

\* A function that works on the private data of i keeps the invariant of the
\* others, and most of that of i.
LEMMA WithinKeeps ==
    ASSUME NEW s, Base(s), NEW t, NEW i \in Ifs, NEW p, Holds(s, i, p),
           Within(s, t, i, p), Tidy(t, p)
    PROVE  /\ Base(t) /\ Holds(t, i, p) /\ SameAwaits(s, t)
           /\ \A j \in Ifs : /\ On(t, j) <=> On(s, j)
                             /\ LifetimeAt(s, j) => LifetimeAt(t, j)
                             /\ AccessAt(s, j) => AccessAt(t, j)
                             /\ WanAt(s, j) => WanAt(t, j)
           /\ \A j \in Ifs \ {i} : StaticAt(s, j) => StaticAt(t, j)
           /\ Settled(t, i, p) => StaticAt(t, i)
           /\ Steady(s, t, i, p) /\ StaticAt(s, i) => StaticAt(t, i)
  <1>1. /\ p \in PrivIds /\ p # None /\ On(s, i) /\ i \in s.present
        /\ \A j \in Ifs \ {i} : On(s, j) => s.ptr[j] # p
    BY HoldsOn
  <1>2. s \in States /\ s.fault = None /\ QueueCalm(s) BY DEF Base
  <1>3. /\ t \in States /\ t.fault = None
        /\ t.dslEnable = s.dslEnable /\ t.present = s.present
        /\ t.readOnly = s.readOnly /\ t.ptr = s.ptr
        /\ t.todo = s.todo /\ t.todoEnable = s.todoEnable
    BY <1>2 DEF Within, Around
  <1>4. QueueCalm(t) /\ SameAwaits(s, t) BY <1>1, <1>2, WithinQueue
  <1>5. Holds(t, i, p) BY HoldsKept
  <1>6. /\ \A q \in PrivIds : t.heap[q].alive = s.heap[q].alive /\ t.heap[q].owner = s.heap[q].owner
        /\ \A q \in PrivIds \ {p} : t.heap[q] = s.heap[q]
    BY DEF Within
  <1>7. ASSUME NEW j \in Ifs PROVE On(t, j) <=> On(s, j)
    <2>1. s.ptr[j] \in PrivIds \cup {None} BY <1>2 DEF States
    <2> QED BY <1>3, <1>6, <2>1 DEF On
  <1>8. ASSUME NEW q \in PrivIds PROVE BlockOwned(t, q)
    <2>1. BlockOwned(s, q) BY DEF Base, Owned
    <2>2. CASE q = p BY <1>3, <1>5, <2>2 DEF BlockOwned, Holds
    <2>3. CASE q # p BY <1>3, <1>6, <2>1, <2>3 DEF BlockOwned, Tidy
    <2> QED BY <2>2, <2>3
  <1>9. ASSUME NEW j \in Ifs PROVE Owner(t, j)
    <2>1. Owner(s, j) /\ s.ptr[j] \in PrivIds \cup {None} BY <1>2 DEF Base, Owned, States
    <2>2. t.conf[j].enable = s.conf[j].enable BY DEF Within, SameButName
    <2>3. Enabled(t, j) => Enabled(s, j) \/ j = i BY DEF Within, Enabled
    <2>4. On(t, j) => t.heap[t.ptr[j]].owner = j /\ j \in t.present
      BY <1>3, <1>6, <1>7, <2>1 DEF Owner, On
    <2> QED BY <1>1, <1>3, <1>7, <2>1, <2>2, <2>3, <2>4 DEF Owner
  <1>10. Visiting(t)
    <2>1. \A j \in Ifs : t.conf[j].enable = s.conf[j].enable BY DEF Within, SameButName
    <2>2. s.todo \subseteq Ifs BY <1>2 DEF States
    <2> QED BY <1>3, <1>4, <2>1, <2>2 DEF Base, Visiting, SameAwaits
  <1>11. Base(t) BY <1>3, <1>4, <1>8, <1>9, <1>10 DEF Base, Owned
  <1>12. ASSUME NEW j \in Ifs \ {i} PROVE SameFor(s, t, j)
    <2>1. t.conf[j] = s.conf[j] /\ t.oper[j] = s.oper[j] BY DEF Within
    <2>2. s.ptr[j] \in PrivIds \cup {None} BY <1>2 DEF States
    <2>3. On(s, j) => t.ptr[j] = s.ptr[j] /\ t.heap[s.ptr[j]] = s.heap[s.ptr[j]]
      BY <1>1, <1>3, <1>6, <2>2 DEF On
    <2> QED BY <1>3, <1>4, <1>7, <2>1, <2>3 DEF SameFor
  <1>13. /\ \A x : x # "name" => (Awaits(t, i, x) <=> Awaits(s, i, x))
         /\ AddedAwaits(t, i) <=> AddedAwaits(s, i)
         /\ DslAwaits(t) <=> DslAwaits(s)
    BY <1>4 DEF SameAwaits
  <1>14. SameButName(s.conf[i], t.conf[i]) BY DEF Within
  <1>15. LifetimeAt(s, i) => LifetimeAt(t, i)
    BY <1>3, <1>7, <1>13, <1>14 DEF LifetimeAt, DslSeen, EnSeen, SameButName
  <1>16. AccessAt(s, i) => AccessAt(t, i)
    BY <1>3, <1>13, <1>14 DEF AccessAt, SameButName
  <1>17. ASSUME NEW j \in Ifs PROVE WanAt(s, j) => WanAt(t, j)
    <2>1. SoleInterface => j = i BY DEF SoleInterface
    <2>2. OpenOnWan(s, i) => OpenOnWan(t, i) BY DEF Within
    <2> QED BY <1>13, <2>1, <2>2 DEF WanAt
  <1>18. /\ t.conf[i].addr = s.conf[i].addr /\ (IsStatic(t, i) <=> IsStatic(s, i))
    BY MethodKept
  <1>19. Settled(t, i, p) => StaticAt(t, i) BY <1>5 DEF Settled, StaticAt, Holds
  <1>20. Steady(s, t, i, p) /\ StaticAt(s, i) => StaticAt(t, i)
    <2>1. SUFFICES ASSUME Steady(s, t, i, p), StaticAt(s, i) PROVE StaticAt(t, i) OBVIOUS
    <2>2. s.ptr[i] = p /\ t.ptr[i] = p BY <1>5 DEF Holds
    <2>3. Clean(s, p) => Clean(t, p) BY <2>1 DEF Steady, SameRemote, Clean
    <2>4. \A a : InUse(s, i, p, a) => InUse(t, i, p, a) BY <2>1 DEF Steady
    <2> QED BY <1>1, <1>13, <1>18, <2>1, <2>2, <2>3, <2>4 DEF StaticAt
  <1>21. \A j \in Ifs \ {i} : /\ LifetimeAt(s, j) => LifetimeAt(t, j)
                              /\ AccessAt(s, j) => AccessAt(t, j)
                              /\ StaticAt(s, j) => StaticAt(t, j)
    BY <1>12, SameAt
  <1> QED BY <1>4, <1>5, <1>7, <1>11, <1>15, <1>16, <1>17, <1>19, <1>20, <1>21

\* A step works on the private data of one instance, and keeps them.
ByOne(s, t) == \E i \in Ifs, p \in PrivIds : Holds(s, i, p) /\ Within(s, t, i, p)

\* The same instances have private data.
SameOn(s, t) == \A j \in Ifs : On(t, j) <=> On(s, j)

\* Such a step gives none to an instance that had none, and takes none away.
LEMMA ByOneSameOn == ASSUME NEW s \in States, NEW t, ByOne(s, t) PROVE SameOn(s, t)
  <1>1. PICK i \in Ifs, p \in PrivIds : Within(s, t, i, p) BY DEF ByOne
  <1>2. /\ t.ptr = s.ptr /\ t.heap[p].alive = s.heap[p].alive
        /\ \A q \in PrivIds \ {p} : t.heap[q] = s.heap[q]
    BY <1>1 DEF Within, Around
  <1>3. \A j \in Ifs : s.ptr[j] \in PrivIds \cup {None} BY DEF States
  <1> QED BY <1>2, <1>3 DEF SameOn, On

\* A callback: the rest of the invariant of i is up to it.
LEMMA WithinCalm ==
    ASSUME NEW s, Calm(s), NEW t, NEW i \in Ifs, NEW p, Holds(s, i, p),
           Within(s, t, i, p), Tidy(t, p),
           Settled(t, i, p) \/ Steady(s, t, i, p) \/ StaticAt(t, i)
    PROVE  Calm(t) /\ ByOne(s, t)
  <1>1. Base(s) /\ \A j \in Ifs : At(s, j) BY DEF Calm
  <1>2. /\ Base(t)
        /\ \A j \in Ifs : /\ On(t, j) <=> On(s, j)
                          /\ LifetimeAt(s, j) => LifetimeAt(t, j)
                          /\ AccessAt(s, j) => AccessAt(t, j)
                          /\ WanAt(s, j) => WanAt(t, j)
        /\ \A j \in Ifs \ {i} : StaticAt(s, j) => StaticAt(t, j)
        /\ Settled(t, i, p) => StaticAt(t, i)
        /\ Steady(s, t, i, p) /\ StaticAt(s, i) => StaticAt(t, i)
    BY <1>1, WithinKeeps
  <1>3. \A j \in Ifs : StaticAt(t, j) BY <1>1, <1>2 DEF At
  <1>4. i \in Ifs /\ p \in PrivIds BY DEF Holds
  <1> QED BY <1>1, <1>2, <1>3, <1>4 DEF Calm, At, ByOne

\* What is queued depends on the queue only.
LEMMA SameQueue ==
    ASSUME NEW s, NEW t, t.queue = s.queue
    PROVE  /\ SameAwaits(s, t)
           /\ t.dslEnable = s.dslEnable /\ t.present = s.present /\ t.conf = s.conf
                => (QueueCalm(s) => QueueCalm(t))
  <1>1. SameAwaits(s, t) BY DEF SameAwaits, Awaits, AddedAwaits, DslAwaits, Plain
  <1> QED BY <1>1 DEF QueueCalm, EventCalm

\* What the invariant of the others needs, when i gets or gives up private data.
LEMMA OthersKept ==
    ASSUME NEW s, NEW u, NEW i \in Ifs, NEW j \in Ifs \ {i}, SameFor(s, u, j)
    PROVE  /\ LifetimeAt(s, j) => LifetimeAt(u, j)
           /\ StaticAt(s, j) => StaticAt(u, j)
           /\ AccessAt(s, j) => AccessAt(u, j)
           /\ WanAt(u, j)
  <1>1. ~SoleInterface BY DEF SoleInterface
  <1>2. WanAt(u, j) BY <1>1 DEF WanAt
  <1> QED BY <1>2, SameAt

\* An instance that got private data.
LEMMA BegunKeeps ==
    ASSUME NEW s, Base(s), NEW i \in Ifs, ~On(s, i), i \in s.present,
           NEW p \in PrivIds, NEW u, Begun(s, u, i, p)
    PROVE  /\ Base(u) /\ SameAwaits(s, u) /\ On(u, i)
           /\ u.dslEnable = s.dslEnable /\ u.todo = s.todo /\ u.readOnly = s.readOnly
           /\ u.conf[i].enable = s.conf[i].enable
           /\ StaticAt(u, i) /\ WanAt(u, i) /\ (AccessAt(s, i) => AccessAt(u, i))
           /\ \A j \in Ifs \ {i} : At(s, j) => At(u, j)
  <1> DEFINE v == Allocated(s, i, p)
  <1>1. /\ v \in States /\ v.fault = s.fault
        /\ v.dslEnable = s.dslEnable /\ v.present = s.present /\ v.conf = s.conf
        /\ v.readOnly = s.readOnly /\ v.oper = s.oper /\ v.queue = s.queue
        /\ v.todo = s.todo /\ v.todoEnable = s.todoEnable /\ v.firewall = s.firewall
        /\ v.ptr[i] = p /\ (\A j \in Ifs \ {i} : v.ptr[j] = s.ptr[j])
        /\ \A q \in PrivIds \ {p} : v.heap[q] = s.heap[q]
        /\ v.heap[p].alive /\ v.heap[p].owner = i /\ Clean(v, p)
    BY AllocatedFields DEF Base
  <1>2. /\ ~s.heap[p].alive /\ (\A j \in Ifs \ {i} : s.ptr[j] # p)
        /\ Within(v, u, i, p) /\ Tidy(u, p) /\ Settled(u, i, p)
    BY DEF Begun
  <1> HIDE DEF v
  <1>3. s \in States /\ s.fault = None /\ QueueCalm(s) BY DEF Base
  <1>4. p # None BY ConstantsAssumption
  <1>5. SameAwaits(s, v) /\ QueueCalm(v) BY <1>1, <1>3, SameQueue
  <1>6. Holds(v, i, p) /\ On(v, i) BY <1>1, <1>3, <1>4 DEF Holds, On
  <1>7. \A j \in Ifs \ {i} : On(v, j) <=> On(s, j)
    <2>1. \A j \in Ifs : s.ptr[j] \in PrivIds \cup {None} BY <1>3 DEF States
    <2> QED BY <1>1, <1>2, <2>1 DEF On
  <1>8. ASSUME NEW q \in PrivIds PROVE BlockOwned(v, q)
    <2>1. BlockOwned(s, q) BY DEF Base, Owned
    <2>2. CASE q = p BY <1>1, <2>2 DEF BlockOwned, Clean, Tidy
    <2>3. CASE q # p
      <3>1. s.heap[q].alive => s.heap[q].owner # i
        <4>1. ASSUME s.heap[q].alive, s.heap[q].owner = i PROVE FALSE
          <5>1. s.ptr[i] = q BY <2>1, <4>1 DEF BlockOwned
          <5>2. q # None BY ConstantsAssumption
          <5> QED BY <4>1, <5>1, <5>2 DEF On
        <4> QED BY <4>1
      <3> QED BY <1>1, <2>1, <2>3, <3>1 DEF BlockOwned, Tidy
    <2> QED BY <2>2, <2>3
  <1>9. ASSUME NEW j \in Ifs PROVE Owner(v, j)
    <2>1. Owner(s, j) /\ s.ptr[j] \in PrivIds \cup {None} BY <1>3 DEF Base, Owned, States
    <2>2. CASE j = i BY <1>1, <1>6, <2>1, <2>2 DEF Owner, Enabled
    <2>3. CASE j # i
      <3>1. Enabled(v, j) <=> Enabled(s, j) BY <1>1 DEF Enabled
      <3>2. On(v, j) => v.heap[v.ptr[j]].owner = j /\ j \in v.present
        BY <1>1, <1>2, <1>7, <2>1, <2>3 DEF Owner, On
      <3> QED BY <1>1, <1>7, <2>1, <2>3, <3>1, <3>2 DEF Owner
    <2> QED BY <2>2, <2>3
  <1>10. Visiting(v) BY <1>1, <1>5 DEF Base, Visiting, SameAwaits
  <1>11. Base(v) BY <1>1, <1>3, <1>5, <1>8, <1>9, <1>10 DEF Base, Owned
  <1>12. ASSUME NEW j \in Ifs \ {i} PROVE SameFor(s, v, j)
    <2>1. s.ptr[j] \in PrivIds \cup {None} BY <1>3 DEF States
    <2>2. On(s, j) => v.ptr[j] = s.ptr[j] /\ v.heap[s.ptr[j]] = s.heap[s.ptr[j]]
      BY <1>1, <1>2, <2>1 DEF On
    <2> QED BY <1>1, <1>5, <1>7, <2>2 DEF SameFor
  <1>13. ~Enabled(v, i) BY <1>1 DEF Base, Owned, Owner, Enabled
  <1>14. /\ WanAt(v, i) /\ (AccessAt(s, i) => AccessAt(v, i))
    <2>1. OpenOnWan(v, i) BY <1>13 DEF OpenOnWan
    <2>2. /\ AddedAwaits(v, i) <=> AddedAwaits(s, i)
          /\ Awaits(v, i, "prec") <=> Awaits(s, i, "prec")
      BY <1>5 DEF SameAwaits
    <2> QED BY <1>1, <2>1, <2>2 DEF WanAt, AccessAt
  <1>15. /\ Base(u) /\ Holds(u, i, p) /\ SameAwaits(v, u)
         /\ \A j \in Ifs : /\ On(u, j) <=> On(v, j)
                           /\ LifetimeAt(v, j) => LifetimeAt(u, j)
                           /\ AccessAt(v, j) => AccessAt(u, j)
                           /\ WanAt(v, j) => WanAt(u, j)
         /\ \A j \in Ifs \ {i} : StaticAt(v, j) => StaticAt(u, j)
         /\ Settled(u, i, p) => StaticAt(u, i)
    BY <1>2, <1>6, <1>11, WithinKeeps
  <1>16. SameAwaits(s, u) BY <1>5, <1>15 DEF SameAwaits
  <1>17. /\ u.dslEnable = s.dslEnable /\ u.todo = s.todo /\ u.readOnly = s.readOnly
         /\ u.conf[i].enable = s.conf[i].enable
    BY <1>1, <1>2 DEF Within, Around, SameButName
  <1>18. ASSUME NEW j \in Ifs \ {i}, At(s, j) PROVE At(u, j)
    <2>1. /\ LifetimeAt(v, j) /\ StaticAt(v, j) /\ AccessAt(v, j) /\ WanAt(v, j)
      BY <1>12, <1>18, OthersKept DEF At
    <2> QED BY <1>15, <2>1 DEF At
  <1> QED BY <1>2, <1>6, <1>14, <1>15, <1>16, <1>17, <1>18

\* An instance that gave its private data up.
LEMMA EndedKeeps ==
    ASSUME NEW s, Base(s), NEW i \in Ifs, NEW p, Holds(s, i, p), NEW u, Ended(s, u, i, p)
    PROVE  /\ Base(u) /\ SameAwaits(s, u) /\ ~On(u, i)
           /\ u.dslEnable = s.dslEnable /\ u.todo = s.todo /\ u.readOnly = s.readOnly
           /\ u.conf[i].enable = s.conf[i].enable
           /\ StaticAt(u, i) /\ WanAt(u, i) /\ (AccessAt(s, i) => AccessAt(u, i))
           /\ \A j \in Ifs \ {i} : At(s, j) => At(u, j)
  <1>1. PICK t : Within(s, t, i, p) /\ ~Enabled(t, i) /\ u = Freed(t, p) BY DEF Ended
  <1>2. /\ p \in PrivIds /\ p # None /\ On(s, i) /\ i \in s.present
        /\ \A j \in Ifs \ {i} : On(s, j) => s.ptr[j] # p
    BY HoldsOn
  <1>3. s \in States /\ s.fault = None /\ QueueCalm(s) BY DEF Base
  <1>4. /\ t \in States /\ t.fault = None
        /\ t.dslEnable = s.dslEnable /\ t.present = s.present
        /\ t.readOnly = s.readOnly /\ t.ptr = s.ptr
        /\ t.todo = s.todo /\ t.todoEnable = s.todoEnable
    BY <1>1, <1>3 DEF Within, Around
  <1>5. QueueCalm(t) /\ SameAwaits(s, t) BY <1>1, <1>2, <1>3, WithinQueue
  <1>6. /\ u \in States /\ u.fault = t.fault
        /\ u.dslEnable = t.dslEnable /\ u.present = t.present /\ u.conf = t.conf
        /\ u.readOnly = t.readOnly /\ u.oper = t.oper /\ u.ptr = t.ptr /\ u.queue = t.queue
        /\ u.todo = t.todo /\ u.todoEnable = t.todoEnable
        /\ u.heap[p] = BlankPriv /\ \A q \in PrivIds \ {p} : u.heap[q] = t.heap[q]
    <2> DEFINE w == [t EXCEPT !.heap = [t.heap EXCEPT ![p] = BlankPriv]]
    <2>1. BlankPriv \in Priv BY DefaultsTyped
    <2>2. t.heap \in [PrivIds -> Priv] BY <1>4 DEF States
    <2>3. [t.heap EXCEPT ![p] = BlankPriv] \in [PrivIds -> Priv] BY <2>1, <2>2
    <2>4. /\ w \in States /\ w.fault = t.fault
          /\ w.dslEnable = t.dslEnable /\ w.present = t.present /\ w.conf = t.conf
          /\ w.readOnly = t.readOnly /\ w.oper = t.oper /\ w.ptr = t.ptr /\ w.queue = t.queue
          /\ w.todo = t.todo /\ w.todoEnable = t.todoEnable
          /\ w.heap = [t.heap EXCEPT ![p] = BlankPriv]
      BY <1>4, <2>3 DEF States
    <2>5. u = w BY <1>1 DEF Freed
    <2> HIDE DEF w
    <2> QED BY <1>2, <2>2, <2>4, <2>5
  <1>7. QueueCalm(u) /\ SameAwaits(t, u) BY <1>5, <1>6, SameQueue
  <1>8. SameAwaits(s, u) BY <1>5, <1>7 DEF SameAwaits
  <1>9. /\ \A q \in PrivIds \ {p} : u.heap[q] = s.heap[q]
        /\ u.heap[p] = BlankPriv /\ ~u.heap[p].alive
    BY <1>1, <1>6 DEF Within, BlankPriv
  <1>10. ~On(u, i) BY <1>4, <1>6, <1>9 DEF On, Holds
  <1>11. \A j \in Ifs \ {i} : On(u, j) <=> On(s, j)
    <2>1. \A j \in Ifs : s.ptr[j] \in PrivIds \cup {None} BY <1>3 DEF States
    <2> QED BY <1>2, <1>4, <1>6, <1>9, <2>1 DEF On
  <1>12. ASSUME NEW q \in PrivIds PROVE BlockOwned(u, q)
    <2>1. BlockOwned(s, q) BY DEF Base, Owned
    <2>2. CASE q = p BY <1>9, <2>2 DEF BlockOwned
    <2>3. CASE q # p BY <1>4, <1>6, <1>9, <2>1, <2>3 DEF BlockOwned, Tidy
    <2> QED BY <2>2, <2>3
  <1>13. \A j \in Ifs : u.conf[j].enable = s.conf[j].enable
    BY <1>1, <1>6 DEF Within, SameButName
  <1>14. ASSUME NEW j \in Ifs PROVE Owner(u, j)
    <2>1. Owner(s, j) /\ s.ptr[j] \in PrivIds \cup {None} BY <1>3 DEF Base, Owned, States
    <2>2. CASE j = i BY <1>1, <1>4, <1>6, <1>10, <1>13, <2>1, <2>2 DEF Owner, Enabled
    <2>3. CASE j # i
      <3>1. Enabled(u, j) <=> Enabled(s, j) BY <1>1, <1>6, <2>3 DEF Enabled, Within
      <3>2. On(u, j) => u.heap[u.ptr[j]].owner = j /\ j \in u.present
        BY <1>2, <1>4, <1>6, <1>9, <1>11, <2>1, <2>3 DEF Owner, On
      <3> QED BY <1>4, <1>6, <1>11, <1>13, <2>1, <2>3, <3>1, <3>2 DEF Owner
    <2> QED BY <2>2, <2>3
  <1>15. Visiting(u)
    <2>1. s.todo \subseteq Ifs BY <1>3 DEF States
    <2> QED BY <1>4, <1>6, <1>8, <1>13, <2>1 DEF Base, Visiting, SameAwaits
  <1>16. Base(u) BY <1>4, <1>6, <1>7, <1>12, <1>14, <1>15 DEF Base, Owned
  <1>17. StaticAt(u, i) /\ WanAt(u, i)
    <2>1. ~Enabled(u, i) BY <1>1, <1>6 DEF Enabled
    <2> QED BY <1>10, <2>1 DEF StaticAt, WanAt, OpenOnWan
  <1>18. AccessAt(s, i) => AccessAt(u, i)
    <2>1. u.conf[i].prec = s.conf[i].prec BY <1>1, <1>6 DEF Within, SameButName
    <2>2. /\ AddedAwaits(u, i) <=> AddedAwaits(s, i)
          /\ Awaits(u, i, "prec") <=> Awaits(s, i, "prec")
      BY <1>8 DEF SameAwaits
    <2> QED BY <1>4, <1>6, <2>1, <2>2 DEF AccessAt
  <1>19. ASSUME NEW j \in Ifs \ {i}, At(s, j) PROVE At(u, j)
    <2>1. u.conf[j] = s.conf[j] /\ u.oper[j] = s.oper[j] BY <1>1, <1>6 DEF Within
    <2>2. s.ptr[j] \in PrivIds \cup {None} BY <1>3 DEF States
    <2>3. On(s, j) => u.ptr[j] = s.ptr[j] /\ u.heap[s.ptr[j]] = s.heap[s.ptr[j]]
      BY <1>2, <1>4, <1>6, <1>9, <2>2 DEF On
    <2>4. SameFor(s, u, j) BY <1>4, <1>6, <1>8, <1>11, <2>1, <2>3 DEF SameFor
    <2> QED BY <1>19, <2>4, OthersKept DEF At
  <1> QED BY <1>4, <1>6, <1>8, <1>10, <1>13, <1>16, <1>17, <1>18, <1>19

\* EndpointName that becomes read-only or writable.
LEMMA MarkKeeps ==
    ASSUME NEW s, Base(s), NEW i \in Ifs, NEW m, m = MarkEndpointName(s, i)
    PROVE  /\ Base(m) /\ SameAwaits(s, m) /\ AccessAt(m, i)
           /\ m.dslEnable = s.dslEnable /\ m.todo = s.todo /\ m.conf = s.conf
           /\ \A p : Holds(s, i, p) => Holds(m, i, p)
           /\ \A j \in Ifs : /\ On(m, j) <=> On(s, j)
                             /\ LifetimeAt(s, j) => LifetimeAt(m, j)
                             /\ StaticAt(s, j) => StaticAt(m, j)
                             /\ WanAt(s, j) => WanAt(m, j)
           /\ \A j \in Ifs \ {i} : AccessAt(s, j) => AccessAt(m, j)
  <1>1. /\ m \in States /\ m.fault = s.fault
        /\ m.dslEnable = s.dslEnable /\ m.present = s.present /\ m.conf = s.conf
        /\ m.oper = s.oper /\ m.ptr = s.ptr /\ m.heap = s.heap /\ m.queue = s.queue
        /\ m.todo = s.todo /\ m.todoEnable = s.todoEnable /\ m.firewall = s.firewall
        /\ (\A j \in Ifs \ {i} : j \in m.readOnly <=> j \in s.readOnly)
        /\ i \in m.readOnly <=> s.conf[i].prec = "DHCPv6"
    BY MarkFields DEF Base
  <1>2. s.fault = None /\ QueueCalm(s) /\ Owned(s) /\ Visiting(s) BY DEF Base
  <1>3. QueueCalm(m) /\ SameAwaits(s, m) BY <1>1, <1>2, SameQueue
  <1>4. \A j \in Ifs : On(m, j) <=> On(s, j) BY <1>1 DEF On
  <1>5. Owned(m)
    <2>1. \A q \in PrivIds : BlockOwned(m, q) BY <1>1, <1>2 DEF Owned, BlockOwned, Tidy
    <2>2. \A j \in Ifs : Owner(m, j) BY <1>1, <1>2, <1>4 DEF Owned, Owner, Enabled
    <2> QED BY <2>1, <2>2 DEF Owned
  <1>6. Visiting(m) BY <1>1, <1>2, <1>3 DEF Visiting, SameAwaits
  <1>7. Base(m) BY <1>1, <1>2, <1>3, <1>5, <1>6 DEF Base
  <1>8. \A j \in Ifs \ {i} : SameFor(s, m, j) BY <1>1, <1>3, <1>4 DEF SameFor
  <1>9. /\ \A x : x # "name" => (Awaits(m, i, x) <=> Awaits(s, i, x))
        /\ DslAwaits(m) <=> DslAwaits(s)
    BY <1>3 DEF SameAwaits
  <1>10. LifetimeAt(s, i) => LifetimeAt(m, i)
    BY <1>1, <1>4, <1>9 DEF LifetimeAt, DslSeen, EnSeen
  <1>11. StaticAt(s, i) => StaticAt(m, i)
    BY <1>1, <1>4, <1>9 DEF StaticAt, IsStatic, Clean, InUse, Enabled
  <1>12. WanAt(s, i) => WanAt(m, i)
    BY <1>1, <1>9 DEF WanAt, OpenOnWan, Enabled
  <1>13. AccessAt(m, i) BY <1>1 DEF AccessAt
  <1>14. \A p : Holds(s, i, p) => Holds(m, i, p) BY <1>1 DEF Holds
  <1> QED BY <1>1, <1>3, <1>4, <1>7, <1>8, <1>10, <1>11, <1>12, <1>13, <1>14, SameAt

-----------------------------------------------------------------------------
(* The handlers.                                                           *)

\* Event e is about parameter x of instance j.
Tells(e, j, x) == e.kind = "setting" /\ e.obj = j /\ x \in e.changed

\* The state in which the handler of the first event runs: what does not wait
\* for that event is as the invariant says.
LEMMA PopKeeps ==
    ASSUME NEW s, Calm(s), s.queue # <<>>, s.todo = {}, NEW t, t = Popped(s),
           NEW h, h = Head(s.queue)
    PROVE  /\ Base(t) /\ EventCalm(t, h) /\ h \in Event
           /\ t.todo = {} /\ t.present \subseteq Ifs
           /\ t.dslEnable = s.dslEnable /\ t.conf = s.conf /\ t.ptr = s.ptr
           /\ h.kind # "added" => Plain(t)
           /\ \A j \in Ifs :
                /\ On(t, j) <=> On(s, j)
                /\ h.kind # "dslite" /\ ~Tells(h, j, "enable") => LifetimeAt(t, j)
                /\ (\A x \in {"prec", "type", "addr"} : ~Tells(h, j, x)) => StaticAt(t, j)
                /\ ~Tells(h, j, "wan") => WanAt(t, j)
                /\ ~Tells(h, j, "prec") /\ ~(h.kind = "added" /\ h.obj = j) => AccessAt(t, j)
  <1>1. /\ s \in States /\ s.fault = None /\ QueueCalm(s) /\ Owned(s)
        /\ \A j \in Ifs : At(s, j)
    BY DEF Calm, Base
  <1>2. /\ t \in States /\ t.fault = s.fault
        /\ t.dslEnable = s.dslEnable /\ t.present = s.present /\ t.conf = s.conf
        /\ t.readOnly = s.readOnly /\ t.oper = s.oper /\ t.ptr = s.ptr
        /\ t.heap = s.heap /\ t.todo = s.todo /\ t.todoEnable = s.todoEnable
        /\ t.firewall = s.firewall
    BY <1>1, PoppedFields
  <1>3. /\ QueueCalm(t) /\ EventCalm(s, h)
        /\ h.kind # "added" => Plain(t)
        /\ \A j, x : Awaits(s, j, x) <=> Awaits(t, j, x) \/ Tells(h, j, x)
        /\ \A j : AddedAwaits(s, j) <=> AddedAwaits(t, j) \/ (h.kind = "added" /\ h.obj = j)
        /\ DslAwaits(s) <=> DslAwaits(t) \/ h.kind = "dslite"
    BY <1>1, PoppedQueue DEF Tells
  <1>4. h \in Event
    <2>1. s.queue \in Seq(Event) BY <1>1 DEF States
    <2> QED BY <2>1
  <1>5. EventCalm(t, h) BY <1>2, <1>3 DEF EventCalm
  <1>6. \A j \in Ifs : On(t, j) <=> On(s, j) BY <1>2 DEF On
  <1>7. Owned(t)
    <2>1. \A q \in PrivIds : BlockOwned(t, q) BY <1>1, <1>2 DEF Owned, BlockOwned, Tidy
    <2>2. \A j \in Ifs : Owner(t, j) BY <1>1, <1>2, <1>6 DEF Owned, Owner, Enabled
    <2> QED BY <2>1, <2>2 DEF Owned
  <1>8. Visiting(t) BY <1>2 DEF Visiting
  <1>9. Base(t) BY <1>1, <1>2, <1>3, <1>7, <1>8 DEF Base
  <1>10. ASSUME NEW j \in Ifs, h.kind # "dslite", ~Tells(h, j, "enable")
         PROVE  LifetimeAt(t, j)
    BY <1>1, <1>2, <1>3, <1>6, <1>10 DEF At, LifetimeAt, DslSeen, EnSeen
  <1>11. ASSUME NEW j \in Ifs, \A x \in {"prec", "type", "addr"} : ~Tells(h, j, x)
         PROVE  StaticAt(t, j)
    <2>1. StaticAt(s, j) BY <1>1 DEF At
    <2>2. \A x \in {"prec", "type", "addr"} : Awaits(t, j, x) <=> Awaits(s, j, x)
      BY <1>3, <1>11
    <2> QED BY <1>2, <1>6, <2>1, <2>2 DEF StaticAt, IsStatic, Clean, InUse, Enabled
  <1>12. ASSUME NEW j \in Ifs, ~Tells(h, j, "wan") PROVE WanAt(t, j)
    BY <1>1, <1>2, <1>3, <1>12 DEF At, WanAt, OpenOnWan, Enabled
  <1>13. ASSUME NEW j \in Ifs, ~Tells(h, j, "prec"), ~(h.kind = "added" /\ h.obj = j)
         PROVE  AccessAt(t, j)
    BY <1>1, <1>2, <1>3, <1>13 DEF At, AccessAt
  <1>14. t.present \subseteq Ifs BY <1>2 DEF States
  <1> QED
    BY <1>2, <1>3, <1>4, <1>5, <1>6, <1>9, <1>10, <1>11, <1>12, <1>13, <1>14

\* Where nothing is to be handled, an instance has private data exactly when it
\* and the plug-in are enabled.
LEMMA PlainLifetime ==
    ASSUME NEW s, Plain(s), NEW i, i \notin s.todo
    PROVE  LifetimeAt(s, i) <=> (On(s, i) <=> s.dslEnable /\ s.conf[i].enable)
  BY PlainAwaits DEF LifetimeAt, DslSeen, EnSeen

\* Toggling an instance to what the parameters say.
LEMMA ToggleCalm ==
    ASSUME NoStray,
           NEW s, Base(s), NEW i \in Ifs, i \in s.present, Plain(s), i \notin s.todo,
           NEW enable \in BOOLEAN, enable <=> s.dslEnable /\ s.conf[i].enable,
           On(s, i) <=> ~enable,
           AccessAt(s, i), \A j \in Ifs \ {i} : At(s, j),
           NEW u \in Toggle(s, i, enable)
    PROVE  Calm(u) /\ SameAwaits(s, u) /\ u.readOnly = s.readOnly
  <1>1. s \in States /\ s.fault = None BY DEF Base
  <1>2. /\ Base(u) /\ SameAwaits(s, u) /\ (On(u, i) <=> enable)
        /\ u.dslEnable = s.dslEnable /\ u.todo = s.todo /\ u.readOnly = s.readOnly
        /\ u.conf[i].enable = s.conf[i].enable
        /\ StaticAt(u, i) /\ WanAt(u, i) /\ AccessAt(u, i)
        /\ \A j \in Ifs \ {i} : At(u, j)
    <2>1. CASE enable
      <3>1. u \in EnableInterface(s, i) BY <2>1 DEF Toggle
      <3>2. ~On(s, i) /\ ~Enabled(s, i) BY <2>1 DEF Base, Owned, Owner
      <3>3. PICK p \in PrivIds : Begun(s, u, i, p)
        BY <1>1, <3>1, <3>2, EnableInterfaceBegins
      <3> QED BY <2>1, <3>2, <3>3, BegunKeeps
    <2>2. CASE ~enable
      <3>1. enable = FALSE BY <2>2
      <3>2. u \in Toggle(s, i, FALSE) BY <3>1
      <3> DEFINE p == s.ptr[i]
      <3>3. Holds(s, i, p) BY <2>2, OnHolds
      <3> HIDE DEF p
      <3>4. Tidy(s, p) BY <3>3, HoldsOn
      <3>5. Ended(s, u, i, p) BY <1>1, <3>2, <3>3, <3>4, ToggleOffEnds
      <3> QED BY <2>2, <3>3, <3>5, EndedKeeps
    <2> QED BY <2>1, <2>2
  <1>3. Plain(u) BY <1>2 DEF SameAwaits
  <1>4. LifetimeAt(u, i) BY <1>2, <1>3, PlainLifetime
  <1> QED BY <1>2, <1>4 DEF Calm, At

\* A handler that works on the private data of i, and what it is up to it.
LEMMA HandledCalm ==
    ASSUME NEW s, Base(s), NEW i \in Ifs, NEW p, Holds(s, i, p), NEW u,
           Within(s, u, i, p), Tidy(u, p), StaticAt(u, i), WanAt(u, i),
           \A j \in Ifs : LifetimeAt(s, j) /\ AccessAt(s, j),
           \A j \in Ifs \ {i} : StaticAt(s, j) /\ WanAt(s, j)
    PROVE  Calm(u) /\ SameAwaits(s, u) /\ u.readOnly = s.readOnly
  <1>1. /\ Base(u) /\ SameAwaits(s, u)
        /\ \A j \in Ifs : /\ LifetimeAt(s, j) => LifetimeAt(u, j)
                          /\ AccessAt(s, j) => AccessAt(u, j)
                          /\ WanAt(s, j) => WanAt(u, j)
        /\ \A j \in Ifs \ {i} : StaticAt(s, j) => StaticAt(u, j)
    BY WithinKeeps
  <1>2. \A j \in Ifs : LifetimeAt(u, j) /\ AccessAt(u, j) BY <1>1
  <1>3. \A j \in Ifs : StaticAt(u, j) /\ WanAt(u, j) BY <1>1
  <1>4. u.readOnly = s.readOnly BY DEF Within, Around
  <1> QED BY <1>1, <1>2, <1>3, <1>4 DEF Calm, At

\* An event of one parameter calls the handler of that parameter only.
LEMMA OneHandler ==
    ASSUME NEW s, NEW e, NEW x \in Params, e.changed = {x}, NEW u \in SettingChanged(s, e)
    PROVE  /\ x = "enable" => u \in ToggleInterface(s, e.obj, e.enable)
           /\ x = "addr" => u \in EndpointAddressChanged(s, e.obj)
           /\ x = "prec" => u \in AssignmentPrecedenceChanged(s, e.obj)
           /\ x = "name" => u \in EndpointNameChanged(s, e.obj, e.name)
           /\ x = "type" => u \in AddressTypePrecedenceChanged(s, e.obj)
           /\ x = "wan" => u \in WanInterfaceChanged(s, e.obj)
  <1>1. CASE x = "enable" BY <1>1 DEF SettingChanged
  <1>2. CASE x = "addr" BY <1>2 DEF SettingChanged
  <1>3. CASE x = "prec" BY <1>3 DEF SettingChanged
  <1>4. CASE x = "name" BY <1>4 DEF SettingChanged
  <1>5. CASE x = "type" BY <1>5 DEF SettingChanged
  <1>6. CASE x = "wan" BY <1>6 DEF SettingChanged
  <1> QED BY <1>1, <1>2, <1>3, <1>4, <1>5, <1>6 DEF Params

\* Handling the event of a parameter keeps the invariant.
LEMMA SettingCalm ==
    ASSUME NoStray,
           NEW s, Calm(s), s.queue # <<>>, s.todo = {}, NEW h, h = Head(s.queue),
           h.kind = "setting", NEW t, t = Popped(s), NEW u \in SettingChanged(t, h)
    PROVE  /\ Calm(u) /\ Plain(u)
           /\ "prec" \notin h.changed => u.readOnly = s.readOnly
  <1>1. /\ Base(t) /\ EventCalm(t, h) /\ h \in Event
        /\ t.todo = {} /\ t.present \subseteq Ifs
        /\ t.dslEnable = s.dslEnable /\ t.conf = s.conf /\ t.ptr = s.ptr
        /\ Plain(t)
        /\ \A j \in Ifs :
             /\ On(t, j) <=> On(s, j)
             /\ ~Tells(h, j, "enable") => LifetimeAt(t, j)
             /\ (\A x \in {"prec", "type", "addr"} : ~Tells(h, j, x)) => StaticAt(t, j)
             /\ ~Tells(h, j, "wan") => WanAt(t, j)
             /\ ~Tells(h, j, "prec") => AccessAt(t, j)
    BY PopKeeps
  <1> DEFINE i == h.obj
  <1>2. i \in t.present /\ i \in Ifs BY <1>1 DEF EventCalm
  <1>3. PICK x \in Params : h.changed = {x} BY <1>1 DEF EventCalm
  <1>4. SUFFICES Calm(u) /\ SameAwaits(t, u) /\ (x = "prec" \/ u.readOnly = t.readOnly)
    <2>1. t.readOnly = s.readOnly BY PoppedFields DEF Calm, Base
    <2> QED BY <1>1, <1>3, <2>1 DEF SameAwaits
  <1>5. SameAwaits(t, t) BY DEF SameAwaits
  <1>6. \A j, y : Tells(h, j, y) <=> j = i /\ y = x BY <1>3 DEF Tells
  <1>7. /\ h.enable \in BOOLEAN
        /\ x = "enable" => h.enable = t.conf[i].enable
    BY <1>1, <1>3 DEF EventCalm, Event
  <1>8. /\ x = "enable" => u \in ToggleInterface(t, i, h.enable)
        /\ x = "addr" => u \in EndpointAddressChanged(t, i)
        /\ x = "prec" => u \in AssignmentPrecedenceChanged(t, i)
        /\ x = "name" => u \in EndpointNameChanged(t, i, h.name)
        /\ x = "type" => u \in AddressTypePrecedenceChanged(t, i)
        /\ x = "wan" => u \in WanInterfaceChanged(t, i)
    BY <1>3, OneHandler
  <1> HIDE DEF i
  <1>9. \A j \in Ifs \ {i} : At(t, j) BY <1>1, <1>6 DEF At
  <1>10. /\ x # "enable" => \A j \in Ifs : LifetimeAt(t, j)
         /\ x \notin {"prec", "type", "addr"} => \A j \in Ifs : StaticAt(t, j)
         /\ x # "wan" => \A j \in Ifs : WanAt(t, j)
         /\ x # "prec" => \A j \in Ifs : AccessAt(t, j)
    BY <1>1, <1>6
  <1>11. t \in States /\ t.fault = None BY <1>1 DEF Base
  <1>12. x # "enable" => (On(t, i) <=> Listening(t, i))
    BY <1>1, <1>2, <1>10, PlainLifetime DEF Listening
  <1> DEFINE p == t.ptr[i]
  <1>13. On(t, i) => Holds(t, i, p) /\ Tidy(t, p) /\ p \in PrivIds
    BY <1>1, <1>2, OnHolds, HoldsOn
  <1> HIDE DEF p
  <1>14. ~On(t, i) => StaticAt(t, i) /\ WanAt(t, i)
    BY <1>1, <1>2 DEF StaticAt, WanAt, OpenOnWan, Base, Owned, Owner
  <1>15. CASE x = "enable"
    <2>1. u \in ToggleInterface(t, i, h.enable) /\ h.enable = t.conf[i].enable
      BY <1>7, <1>8, <1>15
    <2>2. LifetimeAt(s, i) BY <1>2 DEF Calm, At
    <2>3. Awaits(s, i, "enable") /\ ~DslAwaits(s)
      <3>1. Tells(h, i, "enable") BY <1>6, <1>15
      <3>2. s \in States /\ QueueCalm(s) BY DEF Calm, Base
      <3>3. ~DslAwaits(t) BY <1>1, PlainAwaits
      <3> QED BY <3>1, <3>2, <3>3, PoppedQueue DEF Tells
    <2>4. On(t, i) <=> t.dslEnable /\ ~t.conf[i].enable
      BY <1>1, <1>2, <2>2, <2>3 DEF LifetimeAt, DslSeen, EnSeen
    <2>5. /\ StaticAt(t, i) /\ WanAt(t, i) /\ AccessAt(t, i)
      BY <1>2, <1>10, <1>15
    <2>6. CASE t.dslEnable
      <3>1. u \in Toggle(t, i, h.enable) BY <2>1, <2>6 DEF ToggleInterface
      <3>2. /\ h.enable <=> t.dslEnable /\ t.conf[i].enable
            /\ On(t, i) <=> ~h.enable
            /\ i \notin t.todo
        BY <1>1, <2>1, <2>4, <2>6
      <3> QED BY <1>1, <1>2, <1>7, <1>9, <2>5, <3>1, <3>2, ToggleCalm
    <2>7. CASE ~t.dslEnable
      <3>1. u = t BY <2>1, <2>7 DEF ToggleInterface
      <3>2. LifetimeAt(t, i) BY <1>1, <2>4, <2>7, PlainLifetime
      <3> QED BY <1>1, <1>9, <1>5, <2>5, <3>1, <3>2 DEF Calm, At
    <2> QED BY <2>6, <2>7
  <1>16. CASE x = "prec"
    <2> DEFINE m == MarkEndpointName(t, i)
    <2>1. u \in AssignmentPrecedenceChanged(t, i) BY <1>8, <1>16
    <2>2. /\ Base(m) /\ SameAwaits(t, m) /\ AccessAt(m, i)
          /\ m.dslEnable = t.dslEnable /\ m.conf = t.conf
          /\ (\A q : Holds(t, i, q) => Holds(m, i, q))
          /\ \A j \in Ifs : /\ On(m, j) <=> On(t, j)
                            /\ LifetimeAt(t, j) => LifetimeAt(m, j)
                            /\ StaticAt(t, j) => StaticAt(m, j)
                            /\ WanAt(t, j) => WanAt(m, j)
          /\ \A j \in Ifs \ {i} : AccessAt(t, j) => AccessAt(m, j)
      BY <1>1, <1>2, MarkKeeps
    <2>3. /\ \A j \in Ifs : LifetimeAt(m, j) /\ AccessAt(m, j) /\ WanAt(m, j)
          /\ \A j \in Ifs \ {i} : StaticAt(m, j)
      BY <1>2, <1>9, <1>10, <1>16, <2>2 DEF At
    <2>4. Listening(m, i) <=> Listening(t, i) BY <2>2 DEF Listening
    <2>5. CASE Listening(t, i)
      <3>1. Holds(t, i, p) /\ Tidy(t, p) /\ p \in PrivIds
        BY <1>12, <1>13, <1>16, <2>5
      <3>2. Within(m, u, i, p) /\ Tidy(u, p) /\ Settled(u, i, p)
        BY <1>2, <1>11, <2>1, <2>5, <3>1, AssignmentPrecedenceSettles
      <3>3. Holds(m, i, p) BY <2>2, <3>1
      <3> HIDE DEF m
      <3>4. StaticAt(u, i) /\ WanAt(u, i) BY <1>2, <2>2, <2>3, <3>2, <3>3, WithinKeeps
      <3>5. Calm(u) /\ SameAwaits(m, u)
        BY <1>2, <2>2, <2>3, <3>2, <3>3, <3>4, HandledCalm
      <3> QED BY <1>16, <2>2, <3>5 DEF SameAwaits
    <2>6. CASE ~Listening(t, i)
      <3>1. u = m BY <2>1, <2>4, <2>6 DEF AssignmentPrecedenceChanged
      <3>2. ~On(m, i) BY <1>2, <1>12, <1>16, <2>2, <2>6
      <3>3. StaticAt(m, i) BY <3>2 DEF StaticAt
      <3> HIDE DEF m
      <3> QED BY <1>16, <2>2, <2>3, <3>1, <3>3 DEF Calm, At
    <2> QED BY <2>5, <2>6
  <1>17. CASE x # "enable" /\ ~On(t, i) /\ x # "prec"
    <2>1. ~Listening(t, i) BY <1>12, <1>17
    <2>2. x \in {"addr", "name", "type", "wan"} BY <1>17 DEF Params
    <2>3. u = t
      BY <1>8, <2>1, <2>2 DEF EndpointAddressChanged, EndpointNameChanged,
           AddressTypePrecedenceChanged, WanInterfaceChanged
    <2>4. LifetimeAt(t, i) /\ AccessAt(t, i) BY <1>2, <1>10, <1>17
    <2> QED BY <1>1, <1>9, <1>14, <1>17, <1>5, <2>3, <2>4 DEF Calm, At
  <1>18. CASE x \in {"addr", "name", "type", "wan"} /\ On(t, i)
    <2>1. /\ Holds(t, i, p) /\ Tidy(t, p) /\ p \in PrivIds /\ Listening(t, i)
      BY <1>12, <1>13, <1>18
    <2>2. /\ \A j \in Ifs : LifetimeAt(t, j) /\ AccessAt(t, j)
          /\ \A j \in Ifs \ {i} : StaticAt(t, j) /\ WanAt(t, j)
      BY <1>9, <1>10, <1>18 DEF At
    <2>3. SUFFICES Within(t, u, i, p) /\ Tidy(u, p) /\ StaticAt(u, i) /\ WanAt(u, i)
      BY <1>1, <1>2, <2>1, <2>2, HandledCalm
    <2>4. ASSUME Within(t, u, i, p), Tidy(u, p)
          PROVE  /\ Settled(u, i, p) => StaticAt(u, i)
                 /\ Steady(t, u, i, p) /\ StaticAt(t, i) => StaticAt(u, i)
                 /\ WanAt(t, i) => WanAt(u, i)
      BY <1>1, <1>2, <2>1, <2>4, WithinKeeps
    <2>5. CASE x = "addr"
      <3>1. u \in EndpointAddressChanged(t, i) BY <1>8, <2>5
      <3>2. IsStatic(t, i) => Clean(t, p)
        <4>1. StaticAt(s, i) BY <1>2 DEF Calm, At
        <4>2. ~Awaits(s, i, "prec") /\ ~Awaits(s, i, "type")
          <5>1. s \in States /\ QueueCalm(s) BY DEF Calm, Base
          <5>2. ~Awaits(t, i, "prec") /\ ~Awaits(t, i, "type") BY <1>1, PlainAwaits
          <5>3. ~Tells(h, i, "prec") /\ ~Tells(h, i, "type") BY <1>6, <2>5
          <5> QED BY <5>1, <5>2, <5>3, PoppedQueue DEF Tells
        <4>3. IsStatic(t, i) <=> IsStatic(s, i) BY <1>1 DEF IsStatic
        <4>4. On(s, i) BY <1>1, <1>2, <1>18
        <4>5. t.heap = s.heap
          <5>1. s \in States BY DEF Calm, Base
          <5> QED BY <5>1, PoppedFields
        <4> QED BY <1>1, <4>1, <4>2, <4>3, <4>4, <4>5 DEF StaticAt, Clean, p
      <3>3. Within(t, u, i, p) /\ Tidy(u, p) /\ Settled(u, i, p)
        BY <1>2, <1>11, <2>1, <3>1, <3>2, EndpointAddressSettles
      <3>4. WanAt(t, i) BY <1>2, <1>10, <2>5
      <3> QED BY <2>4, <3>3, <3>4
    <2>6. CASE x = "name"
      <3>1. u \in EndpointNameChanged(t, i, h.name) BY <1>8, <2>6
      <3>2. Within(t, u, i, p) /\ Tidy(u, p) /\ (IsStatic(t, i) => u = t)
        BY <1>2, <1>11, <2>1, <3>1, EndpointNameWithin
      <3>3. StaticAt(t, i) /\ WanAt(t, i) BY <1>2, <1>10, <2>6
      <3>4. IsStatic(u, i) <=> IsStatic(t, i) BY <3>2, MethodKept
      <3>5. StaticAt(u, i) BY <3>2, <3>3, <3>4 DEF StaticAt
      <3> QED BY <2>4, <3>2, <3>3, <3>5
    <2>7. CASE x = "type"
      <3>1. u \in AddressTypePrecedenceChanged(t, i) BY <1>8, <2>7
      <3>2. Within(t, u, i, p) /\ Tidy(u, p) /\ Settled(u, i, p)
        BY <1>2, <1>11, <2>1, <3>1, AddressTypeSettles
      <3>3. WanAt(t, i) BY <1>2, <1>10, <2>7
      <3> QED BY <2>4, <3>2, <3>3
    <2>8. CASE x = "wan"
      <3>1. u \in WanInterfaceChanged(t, i) BY <1>8, <2>8
      <3>2. Steady(t, u, i, p) /\ OpenOnWan(u, i)
        BY <1>2, <1>11, <2>1, <3>1, WanInterfaceSteady
      <3>3. Within(t, u, i, p) /\ Tidy(u, p)
        BY <2>1, <3>2 DEF Steady, SameRemote, Tidy
      <3>4. StaticAt(t, i) BY <1>2, <1>10, <2>8
      <3> QED BY <2>4, <3>2, <3>3, <3>4 DEF WanAt
    <2> QED BY <1>18, <2>5, <2>6, <2>7, <2>8
  <1> QED BY <1>15, <1>16, <1>17, <1>18 DEF Params

-----------------------------------------------------------------------------
(* The callbacks.                                                          *)

\* A function that works on the private data of an instance that has something
\* under way keeps the invariant: the instance has no static address.
LEMMA BusyCalm ==
    ASSUME NEW s, Calm(s), NEW i \in Ifs, NEW p, Holds(s, i, p), ~Clean(s, p),
           NEW u, Within(s, u, i, p), Tidy(u, p)
    PROVE  Calm(u) /\ ByOne(s, u)
  <1>1. Base(s) /\ StaticAt(s, i) /\ On(s, i) /\ s.ptr[i] = p
    BY HoldsOn DEF Calm, At, Holds
  <1>2. SameAwaits(s, u) BY <1>1, WithinKeeps
  <1>3. IsStatic(u, i) <=> IsStatic(s, i) BY MethodKept
  <1>4. StaticAt(u, i) BY <1>1, <1>2, <1>3 DEF StaticAt, SameAwaits
  <1> QED BY <1>4, WithinCalm

\* dns_timer_cb.
LEMMA TimerCalm ==
    ASSUME NoStray, NEW s, Calm(s), NEW p \in PrivIds, s.heap[p].timer = "armed",
           NEW i, i = s.heap[p].owner, NEW t, t = WithTimer(s, p, "off"),
           NEW name, NEW u \in ResolveEndpointName(t, i, name)
    PROVE  i # None /\ Calm(u) /\ ByOne(s, u)
  <1>1. Base(s) /\ s \in States BY DEF Calm, Base
  <1>2. i \in Ifs /\ Holds(s, i, p) BY <1>1, UsedHolds
  <1>3. Tidy(s, p) /\ ~Clean(s, p) BY <1>1, <1>2, HoldsOn DEF Clean
  <1>4. Wrote(s, t, i, p, [s.heap[p] EXCEPT !.timer = "off"]) BY <1>1, <1>2, FieldsWritten
  <1>5. Within(s, t, i, p) /\ t.heap[p].dns = s.heap[p].dns
    BY <1>1, <1>4 DEF Wrote, States, Priv
  <1>6. t \in States /\ Holds(t, i, p) /\ Tidy(t, p)
    BY <1>2, <1>3, <1>5, HoldsKept DEF Tidy
  <1>7. Within(t, u, i, p) /\ Tidy(u, p) BY <1>2, <1>6, ResolveWithin
  <1>8. Within(s, u, i, p) BY <1>1, <1>2, <1>5, <1>7, WithinTrans
  <1>9. i # None BY <1>2, ConstantsAssumption
  <1> QED BY <1>2, <1>3, <1>7, <1>8, <1>9, BusyCalm

\* remote_endpoint_addr_query_cb.
LEMMA AnswerCalm ==
    ASSUME NEW s, Calm(s), NEW p \in PrivIds, s.heap[p].dns = "pending",
           NEW t, t = WithDns(s, p, "idle"),
           NEW a \in DnsAddrs \cup {None}, NEW u \in QueryAnswered(t, p, a)
    PROVE  Calm(u) /\ ByOne(s, u)
  <1> DEFINE i == s.heap[p].owner
  <1>1. Base(s) /\ s \in States BY DEF Calm, Base
  <1>2. i \in Ifs /\ Holds(s, i, p) BY <1>1, UsedHolds
  <1> HIDE DEF i
  <1>3. ~Clean(s, p) BY DEF Clean
  <1>4. Wrote(s, t, i, p, [s.heap[p] EXCEPT !.dns = "idle"]) BY <1>1, <1>2, FieldsWritten
  <1>5. Within(s, t, i, p) /\ t.heap[p].dns = "idle"
    BY <1>1, <1>4 DEF Wrote, States, Priv
  <1>6. t \in States /\ Holds(t, i, p) BY <1>2, <1>5, HoldsKept
  <1>7. Within(t, u, i, p) /\ u.heap[p].dns = t.heap[p].dns
    BY <1>2, <1>6, QueryAnsweredWithin
  <1>8. Within(s, u, i, p) BY <1>1, <1>2, <1>5, <1>7, WithinTrans
  <1>9. Tidy(u, p) BY <1>5, <1>7 DEF Tidy
  <1> QED BY <1>2, <1>3, <1>8, <1>9, BusyCalm

\* The channel of a query that is destroyed.
LEMMA ExpiryCalm ==
    ASSUME NEW s, Calm(s), NEW p \in PrivIds, s.heap[p].dns = "idle",
           NEW t, t = WithDns(s, p, "dead")
    PROVE  Calm(t)
  <1> DEFINE i == s.heap[p].owner
  <1>1. Base(s) /\ s \in States BY DEF Calm, Base
  <1>2. i \in Ifs /\ Holds(s, i, p) BY <1>1, UsedHolds
  <1> HIDE DEF i
  <1>3. ~Clean(s, p) BY DEF Clean
  <1>4. Wrote(s, t, i, p, [s.heap[p] EXCEPT !.dns = "dead"]) BY <1>1, <1>2, FieldsWritten
  <1>5. Within(s, t, i, p) /\ Tidy(t, p) BY <1>1, <1>4 DEF Wrote, States, Priv, Tidy
  <1> QED BY <1>2, <1>3, <1>5, BusyCalm

\* nm_local_addr_cb: the only one an instance with a static address has.
LEMMA AddrCalm ==
    ASSUME NEW s, Calm(s), NEW p \in PrivIds, s.heap[p].addrQ # None,
           NEW a \in LocalAddrs \cup {None}, NEW t, t = WithAddrRes(s, p, a),
           NEW u \in AddrReported(t, p, a)
    PROVE  Calm(u) /\ ByOne(s, u)
  <1> DEFINE i == s.heap[p].owner
  <1>1. Base(s) /\ s \in States BY DEF Calm, Base
  <1>2. i \in Ifs /\ Holds(s, i, p) BY <1>1, UsedHolds
  <1> HIDE DEF i
  <1>3. Tidy(s, p) BY <1>1, <1>2, HoldsOn
  <1>4. Wrote(s, t, i, p, [s.heap[p] EXCEPT !.addrRes = a]) BY <1>1, <1>2, FieldsWritten
  <1>5. /\ Within(s, t, i, p) /\ t.oper = s.oper
        /\ t.heap[p].remote = s.heap[p].remote /\ t.heap[p].dns = s.heap[p].dns
        /\ t.heap[p].timer = s.heap[p].timer /\ t.heap[p].dhcpQ = s.heap[p].dhcpQ
    BY <1>1, <1>4 DEF Wrote, States, Priv
  <1>6. Steady(s, t, i, p) BY <1>5 DEF Steady, SameRemote, InUse, Enabled
  <1>7. t \in States /\ Holds(t, i, p) BY <1>2, <1>5, HoldsKept
  <1>8. Steady(t, u, i, p) BY <1>2, <1>7, AddrReportedSteady
  <1>9. Steady(s, u, i, p) BY <1>1, <1>2, <1>6, <1>8, SteadyTrans
  <1>10. Within(s, u, i, p) /\ Tidy(u, p) BY <1>3, <1>9 DEF Steady, SameRemote, Tidy
  <1> QED BY <1>2, <1>9, <1>10, WithinCalm

\* nm_dhcp_cb.
LEMMA DhcpCalm ==
    ASSUME NoStray, NEW s, Calm(s), NEW p \in PrivIds, s.heap[p].dhcpQ # None,
           NEW name \in Names \cup {None}, NEW t, t = WithDhcpRes(s, p, name),
           NEW u \in DhcpReported(t, p, name)
    PROVE  Calm(u) /\ ByOne(s, u)
  <1> DEFINE i == s.heap[p].owner
  <1>1. Base(s) /\ s \in States BY DEF Calm, Base
  <1>2. i \in Ifs /\ Holds(s, i, p) BY <1>1, UsedHolds
  <1> HIDE DEF i
  <1>3. Tidy(s, p) /\ ~Clean(s, p) BY <1>1, <1>2, HoldsOn DEF Clean
  <1>4. Wrote(s, t, i, p, [s.heap[p] EXCEPT !.dhcpRes = name]) BY <1>1, <1>2, FieldsWritten
  <1>5. Within(s, t, i, p) /\ t.heap[p].dns = s.heap[p].dns
    BY <1>1, <1>4 DEF Wrote, States, Priv
  <1>6. t \in States /\ Holds(t, i, p) /\ Tidy(t, p)
    BY <1>2, <1>3, <1>5, HoldsKept DEF Tidy
  <1>7. Within(t, u, i, p) /\ Tidy(u, p) BY <1>2, <1>6, DhcpReportedWithin
  <1>8. Within(s, u, i, p) BY <1>1, <1>2, <1>5, <1>7, WithinTrans
  <1> QED BY <1>2, <1>3, <1>7, <1>8, BusyCalm

-----------------------------------------------------------------------------
(* The other events.                                                       *)

\* _interface_added.
LEMMA AddedCalm ==
    ASSUME NEW s, Calm(s), s.queue # <<>>, s.todo = {}, NEW h, h = Head(s.queue),
           h.kind = "added", NEW t, t = Popped(s), NEW m, m = MarkEndpointName(t, h.obj)
    PROVE  Calm(m)
  <1>1. /\ Base(t) /\ EventCalm(t, h) /\ t.present \subseteq Ifs
        /\ \A j \in Ifs :
             /\ ~Tells(h, j, "enable") => LifetimeAt(t, j)
             /\ (\A x \in {"prec", "type", "addr"} : ~Tells(h, j, x)) => StaticAt(t, j)
             /\ ~Tells(h, j, "wan") => WanAt(t, j)
             /\ ~Tells(h, j, "prec") /\ ~(h.kind = "added" /\ h.obj = j) => AccessAt(t, j)
    BY PopKeeps
  <1>2. \A j, x : ~Tells(h, j, x) BY DEF Tells
  <1>3. h.obj \in Ifs BY <1>1 DEF EventCalm
  <1>4. /\ \A j \in Ifs : LifetimeAt(t, j) /\ StaticAt(t, j) /\ WanAt(t, j)
        /\ \A j \in Ifs \ {h.obj} : AccessAt(t, j)
    BY <1>1, <1>2
  <1>5. /\ Base(m) /\ AccessAt(m, h.obj)
        /\ \A j \in Ifs : /\ LifetimeAt(t, j) => LifetimeAt(m, j)
                          /\ StaticAt(t, j) => StaticAt(m, j)
                          /\ WanAt(t, j) => WanAt(m, j)
        /\ \A j \in Ifs \ {h.obj} : AccessAt(t, j) => AccessAt(m, j)
    BY <1>1, <1>3, MarkKeeps
  <1>6. \A j \in Ifs : AccessAt(m, j) BY <1>4, <1>5
  <1> QED BY <1>4, <1>5, <1>6 DEF Calm, At

\* Calm states that differ in what the invariant does not mention.
LEMMA SameCalm ==
    ASSUME NEW s, Calm(s), NEW t \in States, t.fault = None,
           t.dslEnable = s.dslEnable, t.present = s.present, t.conf = s.conf,
           t.readOnly = s.readOnly, t.oper = s.oper, t.ptr = s.ptr, t.heap = s.heap,
           t.queue = s.queue, t.todo = s.todo, t.todoEnable = s.todoEnable,
           t.firewall = s.firewall
    PROVE  Calm(t)
  <1>1. QueueCalm(s) /\ Owned(s) /\ Visiting(s) BY DEF Calm, Base
  <1>2. QueueCalm(t) /\ SameAwaits(s, t) BY <1>1, SameQueue
  <1>3. \A j : On(t, j) <=> On(s, j) BY DEF On
  <1>4. Owned(t) BY <1>1, <1>3 DEF Owned, BlockOwned, Owner, Tidy, Enabled
  <1>5. Visiting(t) BY <1>1, <1>2 DEF Visiting, SameAwaits
  <1>6. \A j \in Ifs : SameFor(s, t, j) BY <1>2, <1>3 DEF SameFor
  <1>7. \A j \in Ifs : At(s, j) BY DEF Calm
  <1>8. \A j \in Ifs : At(t, j) BY <1>6, <1>7, SameAt DEF At
  <1> QED BY <1>2, <1>4, <1>5, <1>8 DEF Calm, Base

\* _toggle_dslite, before it visits the instances that are enabled.
LEMMA DsliteCalm ==
    ASSUME NEW s, Calm(s), s.queue # <<>>, s.todo = {}, NEW h, h = Head(s.queue),
           h.kind = "dslite", NEW t \in States, t.fault = None,
           t.dslEnable = s.dslEnable, t.present = s.present, t.conf = s.conf,
           t.readOnly = s.readOnly, t.oper = s.oper, t.ptr = s.ptr, t.heap = s.heap,
           t.firewall = s.firewall, t.queue = Tail(s.queue),
           t.todo = {i \in s.present : s.conf[i].enable}, t.todoEnable = h.enable
    PROVE  Calm(t)
  <1> DEFINE v == Popped(s)
  <1>1. /\ Base(v) /\ EventCalm(v, h) /\ Plain(v)
        /\ \A j \in Ifs :
             /\ (\A x \in {"prec", "type", "addr"} : ~Tells(h, j, x)) => StaticAt(v, j)
             /\ ~Tells(h, j, "wan") => WanAt(v, j)
             /\ ~Tells(h, j, "prec") /\ ~(h.kind = "added" /\ h.obj = j) => AccessAt(v, j)
    BY PopKeeps
  <1>2. s \in States /\ QueueCalm(s) BY DEF Calm, Base
  <1>3. /\ v.dslEnable = s.dslEnable /\ v.present = s.present /\ v.conf = s.conf
        /\ v.readOnly = s.readOnly /\ v.oper = s.oper /\ v.ptr = s.ptr
        /\ v.heap = s.heap /\ v.firewall = s.firewall /\ v.queue = Tail(s.queue)
    BY <1>2, PoppedFields
  <1>4. DslAwaits(s) /\ \A j : Awaits(s, j, "enable") <=> Awaits(v, j, "enable")
    BY <1>2, PoppedQueue
  <1> HIDE DEF v
  <1>5. QueueCalm(t) /\ SameAwaits(v, t) BY <1>1, <1>3, SameQueue DEF Base
  <1>6. Plain(t) BY <1>1, <1>5 DEF SameAwaits
  <1>7. \A j : On(t, j) <=> On(v, j) BY <1>3 DEF On
  <1>8. Owned(t)
    <2>1. Owned(v) BY <1>1 DEF Base
    <2> QED BY <1>3, <1>7, <2>1 DEF Owned, BlockOwned, Owner, Tidy, Enabled
  <1>9. Visiting(t) BY <1>1, <1>3, <1>6 DEF Visiting, EventCalm
  <1>10. ASSUME NEW j \in Ifs PROVE LifetimeAt(t, j)
    <2>1. LifetimeAt(s, j) BY DEF Calm, At
    <2>2. ~Awaits(v, j, "enable") BY <1>1, PlainAwaits
    <2>3. On(s, j) <=> ~s.dslEnable /\ s.conf[j].enable
      BY <1>4, <2>1, <2>2 DEF LifetimeAt, DslSeen, EnSeen
    <2>4. ~DslAwaits(t) /\ ~Awaits(t, j, "enable") BY <1>6, PlainAwaits
    <2>5. On(t, j) <=> On(s, j) BY DEF On
    <2>6. j \in t.todo <=> s.conf[j].enable
      <3>1. Owner(s, j) BY DEF Calm, Base, Owned
      <3> QED BY <3>1 DEF Owner
    <2>7. s.dslEnable \in BOOLEAN BY <1>2 DEF States
    <2> QED BY <2>3, <2>4, <2>5, <2>6, <2>7 DEF LifetimeAt, DslSeen, EnSeen
  <1>11. ASSUME NEW j \in Ifs PROVE StaticAt(t, j) /\ WanAt(t, j) /\ AccessAt(t, j)
    <2>1. \A x : ~Tells(h, j, x) BY DEF Tells
    <2>2. StaticAt(v, j) /\ WanAt(v, j) /\ AccessAt(v, j) BY <1>1, <2>1
    <2>3. /\ \A x : x # "name" => (Awaits(t, j, x) <=> Awaits(v, j, x))
          /\ AddedAwaits(t, j) <=> AddedAwaits(v, j)
      BY <1>5 DEF SameAwaits
    <2>4. StaticAt(t, j)
      BY <1>3, <1>7, <2>2, <2>3 DEF StaticAt, IsStatic, Clean, InUse, Enabled
    <2>5. WanAt(t, j) BY <1>3, <2>2, <2>3 DEF WanAt, OpenOnWan, Enabled
    <2>6. AccessAt(t, j) BY <1>3, <2>2, <2>3 DEF AccessAt
    <2> QED BY <2>4, <2>5, <2>6
  <1> QED BY <1>5, <1>8, <1>9, <1>10, <1>11 DEF Calm, Base, At

\* _toggle_dslite visits one of them.
LEMMA VisitCalm ==
    ASSUME NoStray,
           NEW s, Calm(s), NEW i \in s.todo, NEW t, t = [s EXCEPT !.todo = s.todo \ {i}],
           NEW u \in Toggle(t, i, s.todoEnable)
    PROVE  Calm(u) /\ Plain(u) /\ u.readOnly = s.readOnly
  <1>1. /\ s \in States /\ s.fault = None /\ QueueCalm(s) /\ Owned(s) /\ Visiting(s)
        /\ \A j \in Ifs : At(s, j)
    BY DEF Calm, Base
  <1>2. /\ t \in States /\ t.fault = s.fault
        /\ t.dslEnable = s.dslEnable /\ t.present = s.present /\ t.conf = s.conf
        /\ t.readOnly = s.readOnly /\ t.oper = s.oper /\ t.ptr = s.ptr
        /\ t.heap = s.heap /\ t.queue = s.queue /\ t.todoEnable = s.todoEnable
        /\ t.firewall = s.firewall /\ t.todo = s.todo \ {i}
    BY <1>1 DEF States
  <1>3. /\ i \in Ifs /\ i \in s.present /\ s.conf[i].enable
        /\ s.todoEnable = s.dslEnable /\ Plain(s) /\ s.todoEnable \in BOOLEAN
    BY <1>1 DEF Visiting, States
  <1>4. QueueCalm(t) /\ SameAwaits(s, t) BY <1>1, <1>2, SameQueue
  <1>5. \A j : On(t, j) <=> On(s, j) BY <1>2 DEF On
  <1>6. Owned(t) BY <1>1, <1>2, <1>5 DEF Owned, BlockOwned, Owner, Tidy, Enabled
  <1>7. Visiting(t) BY <1>1, <1>2, <1>4 DEF Visiting, SameAwaits
  <1>8. Base(t) BY <1>1, <1>2, <1>4, <1>6, <1>7 DEF Base
  <1>9. On(t, i) <=> ~s.todoEnable
    <2>1. LifetimeAt(s, i) BY <1>1, <1>3 DEF At
    <2>2. ~Awaits(s, i, "enable") BY <1>3, PlainAwaits
    <2> QED BY <1>3, <1>5, <2>1, <2>2 DEF LifetimeAt, DslSeen, EnSeen
  <1>10. AccessAt(t, i)
    <2>1. AccessAt(s, i) BY <1>1, <1>3 DEF At
    <2> QED BY <1>2, <1>4, <2>1 DEF AccessAt, SameAwaits
  <1>11. ASSUME NEW j \in Ifs \ {i} PROVE At(t, j)
    <2>1. SameFor(s, t, j) BY <1>2, <1>4, <1>5 DEF SameFor
    <2> QED BY <1>1, <2>1, OthersKept, <1>3 DEF At
  <1>12. Plain(t) BY <1>3, <1>4 DEF SameAwaits
  <1>13. Calm(u) /\ SameAwaits(t, u) /\ u.readOnly = t.readOnly
    BY <1>2, <1>3, <1>8, <1>9, <1>10, <1>11, <1>12, ToggleCalm
  <1> QED BY <1>2, <1>12, <1>13 DEF SameAwaits

-----------------------------------------------------------------------------
(* The users of the data model, which wait for the queue to be empty.      *)

\* What is queued where there is but one event.
LEMMA OneEvent ==
    ASSUME NEW s, NEW e, s.queue = <<e>>
    PROVE  /\ EventCalm(s, e) => QueueCalm(s)
           /\ \A j, x : Awaits(s, j, x) <=> Tells(e, j, x)
           /\ \A j : AddedAwaits(s, j) <=> e.kind = "added" /\ e.obj = j
           /\ DslAwaits(s) <=> e.kind = "dslite"
  <1>1. Len(s.queue) = 1 /\ s.queue[1] = e /\ 1 \in 1..1 /\ \A k \in 1..1 : k = 1
    OBVIOUS
  <1>2. 1..(1 - 1) = {} OBVIOUS
  <1>3. EventCalm(s, e) => QueueCalm(s) BY <1>1, <1>2 DEF QueueCalm
  <1>4. \A j, x : Awaits(s, j, x) <=> Tells(e, j, x) BY <1>1 DEF Awaits, Tells
  <1>5. \A j : AddedAwaits(s, j) <=> e.kind = "added" /\ e.obj = j BY <1>1 DEF AddedAwaits
  <1>6. DslAwaits(s) <=> e.kind = "dslite" BY <1>1 DEF DslAwaits
  <1> QED BY <1>3, <1>4, <1>5, <1>6

\* Where there is none.
LEMMA NoEvent ==
    ASSUME NEW s, s.queue = <<>>
    PROVE  /\ Plain(s) /\ \A j, x : ~Awaits(s, j, x)
           /\ \A j : ~AddedAwaits(s, j)
           /\ ~DslAwaits(s)
  <1>1. 1..Len(s.queue) = {} OBVIOUS
  <1> QED BY <1>1 DEF Plain, Awaits, AddedAwaits, DslAwaits

\* A user writes DSLite.Enable.
LEMMA WriteDsliteCalm ==
    ASSUME NEW s, Calm(s), s.queue = <<>>, s.todo = {}, NEW t \in States, t.fault = None,
           t.dslEnable = ~s.dslEnable, t.queue = <<DsliteEvent(~s.dslEnable)>>,
           t.present = s.present, t.conf = s.conf,
           t.readOnly = s.readOnly, t.oper = s.oper, t.ptr = s.ptr, t.heap = s.heap,
           t.todo = s.todo, t.firewall = s.firewall
    PROVE  Calm(t)
  <1> DEFINE e == DsliteEvent(~s.dslEnable)
  <1>1. e.kind = "dslite" /\ e.enable = t.dslEnable BY DEF DsliteEvent
  <1> HIDE DEF e
  <1>2. /\ QueueCalm(t) /\ (\A j, x : ~Awaits(t, j, x)) /\ (\A j : ~AddedAwaits(t, j))
        /\ DslAwaits(t)
    <2>1. EventCalm(t, e) BY <1>1 DEF EventCalm
    <2>2. t.queue = <<e>> BY DEF e
    <2> QED BY <1>1, <2>1, <2>2, OneEvent DEF Tells
  <1>3. /\ (\A j, x : ~Awaits(s, j, x)) /\ (\A j : ~AddedAwaits(s, j)) /\ ~DslAwaits(s)
    BY NoEvent
  <1>4. \A j : On(t, j) <=> On(s, j) BY DEF On
  <1>5. Owned(t)
    <2>1. Owned(s) BY DEF Calm, Base
    <2> QED BY <1>4, <2>1 DEF Owned, BlockOwned, Owner, Tidy, Enabled
  <1>6. Visiting(t) BY DEF Visiting
  <1>7. ASSUME NEW j \in Ifs PROVE At(t, j)
    <2>1. LifetimeAt(s, j) /\ StaticAt(s, j) /\ WanAt(s, j) /\ AccessAt(s, j)
      BY DEF Calm, At
    <2>2. s.dslEnable \in BOOLEAN BY DEF Calm, Base, States
    <2>3. LifetimeAt(t, j)
      BY <1>2, <1>3, <1>4, <2>1, <2>2 DEF LifetimeAt, DslSeen, EnSeen
    <2>4. StaticAt(t, j)
      BY <1>2, <1>3, <1>4, <2>1 DEF StaticAt, IsStatic, Clean, InUse, Enabled
    <2>5. WanAt(t, j) BY <1>2, <1>3, <2>1 DEF WanAt, OpenOnWan, Enabled
    <2>6. AccessAt(t, j) BY <1>2, <1>3, <2>1 DEF AccessAt
    <2> QED BY <2>3, <2>4, <2>5, <2>6 DEF At
  <1> QED BY <1>2, <1>5, <1>6, <1>7 DEF Calm, Base

\* A write of one parameter leaves the others as they are.
LEMMA RewrittenOne ==
    ASSUME NEW c \in Conf, NEW x \in Params, NEW d \in Rewritten(c, {x})
    PROVE  /\ d.enable \in BOOLEAN /\ (x = "enable" => d.enable = ~c.enable)
           /\ x # "enable" => d.enable = c.enable
           /\ x # "prec" => d.prec = c.prec
           /\ x # "type" => d.type = c.type
           /\ x # "addr" => d.addr = c.addr
           /\ x # "wan" => d.wan = c.wan
  <1>1. c.enable \in BOOLEAN /\ c.enable = c["enable"] BY DEF Conf
  <1>2. /\ d.enable \in IF "enable" \in {x} THEN BOOLEAN \ {c["enable"]} ELSE {c["enable"]}
        /\ d.prec \in IF "prec" \in {x} THEN {"Static", "DHCPv6"} \ {c["prec"]}
                                       ELSE {c["prec"]}
        /\ d.type \in IF "type" \in {x} THEN {"IPv6Address", "FQDN"} \ {c["type"]}
                                       ELSE {c["type"]}
        /\ d.addr \in IF "addr" \in {x} THEN (StaticAddrs \cup {None}) \ {c["addr"]}
                                       ELSE {c["addr"]}
        /\ d.wan \in IF "wan" \in {x} THEN (AnyWAN \cup {None}) \ {c["wan"]}
                                      ELSE {c["wan"]}
    BY DEF Rewritten
  <1> QED BY <1>1, <1>2

\* A user writes c, with another value of parameter x, to instance i.
WrittenAs(s, t, i, x, c) ==
    /\ s.queue = <<>> /\ s.todo = {} /\ t.fault = None /\ i \in s.present
    /\ c \in Rewritten(s.conf[i], {x})
    /\ t.conf = [s.conf EXCEPT ![i] = c]
    /\ t.queue = <<SettingEvent(i, {x}, c)>>
    /\ t.dslEnable = s.dslEnable /\ t.present = s.present
    /\ t.readOnly = s.readOnly /\ t.oper = s.oper /\ t.ptr = s.ptr /\ t.heap = s.heap
    /\ t.todo = s.todo /\ t.firewall = s.firewall

\* That keeps the invariant.
LEMMA WriteSettingCalm ==
    ASSUME NEW s, Calm(s), NEW t \in States, NEW i \in Ifs, NEW x \in Params, NEW c,
           WrittenAs(s, t, i, x, c)
    PROVE  Calm(t)
  <1> DEFINE e == SettingEvent(i, {x}, c)
  <1> USE DEF WrittenAs
  <1>1. s.conf \in [Ifs -> Conf] /\ s.present \subseteq Ifs BY DEF Calm, Base, States
  <1>2. t.conf[i] = c /\ \A j \in Ifs \ {i} : t.conf[j] = s.conf[j] BY <1>1
  <1>3. s.conf[i] \in Conf BY <1>1
  <1>4. /\ c.enable \in BOOLEAN /\ (x = "enable" => c.enable = ~s.conf[i].enable)
        /\ x # "enable" => c.enable = s.conf[i].enable
        /\ x # "prec" => c.prec = s.conf[i].prec
        /\ x # "type" => c.type = s.conf[i].type
        /\ x # "addr" => c.addr = s.conf[i].addr
        /\ x # "wan" => c.wan = s.conf[i].wan
    BY <1>3, RewrittenOne
  <1>5. /\ e.kind = "setting" /\ e.obj = i /\ e.changed = {x} /\ e.enable = c.enable
    BY DEF SettingEvent
  <1> HIDE DEF e
  <1>6. \A j, y : Tells(e, j, y) <=> j = i /\ y = x BY <1>5 DEF Tells
  <1>7. /\ QueueCalm(t) /\ (\A j, y : Awaits(t, j, y) <=> j = i /\ y = x)
        /\ (\A j : ~AddedAwaits(t, j)) /\ ~DslAwaits(t)
    <2>1. EventCalm(t, e) BY <1>2, <1>5 DEF EventCalm
    <2>2. t.queue = <<e>> BY DEF e
    <2> QED BY <1>5, <1>6, <2>1, <2>2, OneEvent
  <1>8. /\ (\A j, y : ~Awaits(s, j, y)) /\ (\A j : ~AddedAwaits(s, j)) /\ ~DslAwaits(s)
    BY NoEvent
  <1>9. \A j : On(t, j) <=> On(s, j) BY DEF On
  <1>10. Owned(t)
    <2>1. Owned(s) BY DEF Calm, Base
    <2>2. \A q \in PrivIds : BlockOwned(t, q) BY <2>1 DEF Owned, BlockOwned, Tidy
    <2>3. \A j \in Ifs : Owner(t, j) BY <1>2, <1>9, <2>1 DEF Owned, Owner, Enabled
    <2> QED BY <2>2, <2>3 DEF Owned
  <1>11. Visiting(t) BY DEF Visiting
  <1>12. ASSUME NEW j \in Ifs PROVE At(t, j)
    <2>1. LifetimeAt(s, j) /\ StaticAt(s, j) /\ WanAt(s, j) /\ AccessAt(s, j)
      BY DEF Calm, At
    <2>2. s.conf[j].enable \in BOOLEAN BY <1>1 DEF Conf
    <2>3. CASE j # i
      <3>1. /\ t.conf[j] = s.conf[j] /\ (\A y : ~Awaits(t, j, y)) BY <1>2, <1>7, <2>3
      <3>2. LifetimeAt(t, j)
        BY <1>7, <1>8, <1>9, <2>1, <3>1 DEF LifetimeAt, DslSeen, EnSeen
      <3>3. StaticAt(t, j)
        BY <1>8, <1>9, <2>1, <3>1 DEF StaticAt, IsStatic, Clean, InUse, Enabled
      <3>4. WanAt(t, j) BY <1>8, <2>1, <3>1 DEF WanAt, OpenOnWan, Enabled
      <3>5. AccessAt(t, j) BY <1>7, <1>8, <2>1, <3>1 DEF AccessAt
      <3> QED BY <3>2, <3>3, <3>4, <3>5 DEF At
    <2>4. CASE j = i
      <3>1. \A y : Awaits(t, i, y) <=> y = x BY <1>7
      <3>2. LifetimeAt(t, i)
        BY <1>2, <1>4, <1>7, <1>8, <1>9, <2>1, <2>2, <2>4, <3>1
           DEF LifetimeAt, DslSeen, EnSeen
      <3>3. StaticAt(t, i)
        <4>1. CASE x \in {"prec", "type"} BY <3>1, <4>1 DEF StaticAt
        <4>2. CASE x \notin {"prec", "type"}
          <5>1. t.conf[i].prec = s.conf[i].prec /\ t.conf[i].type = s.conf[i].type
            BY <1>2, <1>4, <4>2
          <5>2. IsStatic(t, i) <=> IsStatic(s, i) BY <5>1 DEF IsStatic, Method
          <5>3. Clean(t, t.ptr[i]) <=> Clean(s, s.ptr[i]) BY DEF Clean
          <5>4. \A a : InUse(t, i, t.ptr[i], a) <=> InUse(s, i, s.ptr[i], a)
            BY DEF InUse, Enabled
          <5>5. ~Awaits(t, i, "addr") => t.conf[i].addr = s.conf[i].addr
            BY <1>2, <1>4, <3>1
          <5> QED BY <1>8, <1>9, <2>1, <2>4, <5>2, <5>3, <5>4, <5>5 DEF StaticAt
        <4> QED BY <4>1, <4>2
      <3>4. WanAt(t, i)
        <4>1. x # "wan" => t.conf[i].wan = s.conf[i].wan BY <1>2, <1>4
        <4> QED BY <1>8, <2>1, <2>4, <3>1, <4>1 DEF WanAt, OpenOnWan, Enabled
      <3>5. AccessAt(t, i)
        <4>1. x # "prec" => t.conf[i].prec = s.conf[i].prec BY <1>2, <1>4
        <4> QED BY <1>7, <1>8, <2>1, <2>4, <3>1, <4>1 DEF AccessAt
      <3> QED BY <2>4, <3>2, <3>3, <3>4, <3>5 DEF At
    <2> QED BY <2>3, <2>4
  <1> QED BY <1>7, <1>10, <1>11, <1>12 DEF Calm, Base

\* An instance is added, and not enabled.
LEMMA AddInstanceCalm ==
    ASSUME NEW s, Calm(s), s.queue = <<>>, s.todo = {}, NEW t \in States, t.fault = None,
           NEW i \in Ifs, i \notin s.present, NEW c, ~c.enable,
           t.conf = [s.conf EXCEPT ![i] = c], t.queue = <<AddedEvent(i)>>,
           t.dslEnable = s.dslEnable, t.present = s.present \cup {i},
           t.readOnly = s.readOnly \cup {i},
           t.oper = [s.oper EXCEPT ![i] = DefaultOper],
           t.ptr = [s.ptr EXCEPT ![i] = None], t.heap = s.heap,
           t.todo = s.todo, t.firewall = s.firewall
    PROVE  Calm(t)
  <1> DEFINE e == AddedEvent(i)
  <1>1. /\ s.conf \in [Ifs -> Conf] /\ s.oper \in [Ifs -> Oper]
        /\ s.ptr \in [Ifs -> PrivIds \cup {None}] /\ s.present \subseteq Ifs
    BY DEF Calm, Base, States
  <1>2. /\ t.conf[i] = c /\ t.oper[i] = DefaultOper /\ t.ptr[i] = None
        /\ \A j \in Ifs \ {i} : /\ t.conf[j] = s.conf[j] /\ t.oper[j] = s.oper[j]
                                /\ t.ptr[j] = s.ptr[j]
    BY <1>1
  <1>3. e.kind = "added" /\ e.obj = i BY DEF AddedEvent
  <1> HIDE DEF e
  <1>4. /\ QueueCalm(t) /\ (\A j, y : ~Awaits(t, j, y))
        /\ (\A j : AddedAwaits(t, j) <=> j = i) /\ ~DslAwaits(t)
    <2>1. EventCalm(t, e) BY <1>3 DEF EventCalm
    <2>2. t.queue = <<e>> BY DEF e
    <2> QED BY <1>3, <2>1, <2>2, OneEvent DEF Tells
  <1>5. /\ (\A j, y : ~Awaits(s, j, y)) /\ (\A j : ~AddedAwaits(s, j)) /\ ~DslAwaits(s)
    BY NoEvent
  <1>6. /\ ~On(t, i) /\ ~Enabled(t, i)
        /\ \A j \in Ifs \ {i} : (On(t, j) <=> On(s, j)) /\ (Enabled(t, j) <=> Enabled(s, j))
    BY <1>2, DefaultsTyped DEF On, Enabled
  <1>7. Owned(s) /\ ~On(s, i)
    <2>1. Owned(s) BY DEF Calm, Base
    <2> QED BY <2>1 DEF Owned, Owner
  <1>8. ASSUME NEW q \in PrivIds PROVE BlockOwned(t, q)
    <2>1. BlockOwned(s, q) /\ q # None BY <1>7, ConstantsAssumption DEF Owned
    <2>2. s.heap[q].alive => s.heap[q].owner # i BY <1>7, <2>1 DEF BlockOwned, On
    <2> QED BY <1>2, <2>1, <2>2 DEF BlockOwned, Tidy
  <1>9. ASSUME NEW j \in Ifs PROVE Owner(t, j)
    <2>1. Owner(s, j) BY <1>7 DEF Owned
    <2>2. CASE j = i BY <1>2, <1>6, <2>2 DEF Owner
    <2>3. CASE j # i BY <1>2, <1>6, <2>1, <2>3 DEF Owner
    <2> QED BY <2>2, <2>3
  <1>10. Visiting(t) BY DEF Visiting
  <1>11. At(t, i)
    <2>1. LifetimeAt(t, i) BY <1>2, <1>4, <1>6 DEF LifetimeAt, EnSeen
    <2>2. StaticAt(t, i) /\ WanAt(t, i) BY <1>6 DEF StaticAt, WanAt, OpenOnWan
    <2>3. AccessAt(t, i) BY <1>4 DEF AccessAt
    <2> QED BY <2>1, <2>2, <2>3 DEF At
  <1>12. ASSUME NEW j \in Ifs \ {i} PROVE At(t, j)
    <2>1. LifetimeAt(s, j) /\ StaticAt(s, j) /\ WanAt(s, j) /\ AccessAt(s, j)
      BY DEF Calm, At
    <2>2. LifetimeAt(t, j)
      BY <1>2, <1>4, <1>5, <1>6, <2>1 DEF LifetimeAt, DslSeen, EnSeen
    <2>3. StaticAt(t, j)
      BY <1>2, <1>5, <1>6, <2>1 DEF StaticAt, IsStatic, Clean, InUse
    <2>4. WanAt(t, j) BY DEF WanAt, SoleInterface
    <2>5. AccessAt(t, j) BY <1>2, <1>4, <1>5, <2>1 DEF AccessAt
    <2> QED BY <2>2, <2>3, <2>4, <2>5 DEF At
  <1> QED BY <1>4, <1>7, <1>8, <1>9, <1>10, <1>11, <1>12 DEF Calm, Base, Owned

-----------------------------------------------------------------------------
(* Starts.                                                                 *)

\* The order of a start visits every instance.
LEMMA OrderComplete ==
    ASSUME NEW S \in SUBSET Ifs, NEW n, n = Cardinality(S), NEW order \in [1..n -> S],
           \A j, k \in 1..n : j < k => order[j] < order[k]
    PROVE  n \in Nat /\ \A i \in S : \E k \in 1..n : order[k] = i
  <1>1. IsFiniteSet(S) /\ n \in Nat /\ S \subseteq Nat
    BY ConstantsAssumption, FS_Subset, FS_CardinalityType
  <1>2. \A k \in 1..n : order[k] \in Nat BY <1>1
  <1>3. ASSUME NEW j \in 1..n, NEW k \in 1..n, order[j] = order[k] PROVE j = k
    <2>1. ~(j < k) /\ ~(k < j) BY <1>2, <1>3
    <2> QED BY <1>1, <2>1
  <1>4. order \in Injection(1..n, S) BY <1>3, Fun_IsInj
  <1>5. Cardinality(1..n) = n
    <2>1. 1 \in Int /\ n \in Int /\ (IF 1 > n THEN 0 ELSE n - 1 + 1) = n BY <1>1
    <2> QED BY <2>1, FS_Interval
  <1>6. order \in Surjection(1..n, S) BY <1>1, <1>4, <1>5, FS_Injection
  <1> QED BY <1>1, <1>6, Fun_SurjectionProperties

\* What is queued at a start: the creation of each instance, and then the event
\* of DSLite.Enable if it is set.
StartEvents(q, S, enable) ==
    /\ \A k \in 1..Len(q) :
         /\ \/ q[k].kind = "added" /\ q[k].obj \in S
            \/ enable /\ q[k].kind = "dslite" /\ q[k].enable
         /\ \A j \in 1..(k - 1) : q[j].kind = "added"
    /\ \A i \in S : \E k \in 1..Len(q) : q[k].kind = "added" /\ q[k].obj = i
    /\ enable <=> \E k \in 1..Len(q) : q[k].kind = "dslite"

\* That is so.
LEMMA BootQueue ==
    ASSUME NEW S \in SUBSET Ifs, NEW enable \in BOOLEAN, NEW q \in Boot(S, enable)
    PROVE  StartEvents(q, S, enable)
  <1> DEFINE n == Cardinality(S)
             e == DsliteEvent(TRUE)
  <1>1. PICK order \in [1..n -> S] :
          /\ \A j, k \in 1..n : j < k => order[j] < order[k]
          /\ q = [k \in 1..n |-> AddedEvent(order[k])] \o (IF enable THEN <<e>> ELSE <<>>)
    BY DEF Boot
  <1> HIDE DEF n
  <1>2. n \in Nat /\ \A i \in S : \E k \in 1..n : order[k] = i
    BY <1>1, OrderComplete DEF n
  <1> DEFINE a == [k \in 1..n |-> AddedEvent(order[k])]
             d == IF enable THEN <<e>> ELSE <<>>
  <1>3. a \in Seq(Event) /\ Len(a) = n
    <2>1. \A k \in 1..n : AddedEvent(order[k]) \in Event BY EventsTyped
    <2> QED BY <1>2, <2>1
  <1>4. e \in Event /\ e.kind = "dslite" /\ e.enable BY EventsTyped DEF DsliteEvent
  <1>5. \A k \in 1..n : a[k].kind = "added" /\ a[k].obj = order[k] BY DEF AddedEvent
  <1> HIDE DEF a, e
  <1>6. d \in Seq(Event) BY <1>4
  <1>7. q = a \o d BY <1>1 DEF a
  <1>8. CASE enable
    <2>1. d = <<e>> BY <1>8
    <2> HIDE DEF d
    <2>2. Len(d) = 1 /\ d[1] = e BY <2>1
    <2>3. Len(q) = n + 1 /\ \A k \in 1..(n + 1) : q[k] = IF k <= n THEN a[k] ELSE d[k - n]
      <3>1. /\ Len(q) = Len(a) + Len(d)
            /\ \A k \in 1..(Len(a) + Len(d)) :
                 q[k] = IF k <= Len(a) THEN a[k] ELSE d[k - Len(a)]
        BY <1>3, <1>6, <1>7, ConcatProperties
      <3> QED BY <1>3, <2>2, <3>1
    <2>4. \A k \in 1..n : q[k] = a[k] /\ k \in 1..(n + 1) BY <1>2, <2>3
    <2>5. q[n + 1] = e /\ n + 1 \in 1..(n + 1)
      <3>1. n + 1 \in 1..(n + 1) /\ ~(n + 1 <= n) /\ (n + 1) - n = 1 BY <1>2
      <3> QED BY <2>2, <2>3, <3>1
    <2>6. \A k \in 1..(n + 1) : (k \in 1..n \/ k = n + 1) /\ \A j \in 1..(k - 1) : j \in 1..n
      BY <1>2
    <2> QED BY <1>2, <1>4, <1>5, <1>8, <2>3, <2>4, <2>5, <2>6 DEF StartEvents
  <1>9. CASE ~enable
    <2>1. d = <<>> BY <1>9
    <2> HIDE DEF d
    <2>2. Len(d) = 0 BY <2>1
    <2>3. Len(q) = n /\ \A k \in 1..n : q[k] = a[k]
      <3>1. /\ Len(q) = Len(a) + Len(d)
            /\ \A k \in 1..(Len(a) + Len(d)) :
                 q[k] = IF k <= Len(a) THEN a[k] ELSE d[k - Len(a)]
        BY <1>3, <1>6, <1>7, ConcatProperties
      <3>2. n + 0 = n /\ \A k \in 1..n : k <= n BY <1>2
      <3> QED BY <1>3, <2>2, <3>1, <3>2
    <2>4. \A k \in 1..n : \A j \in 1..(k - 1) : j \in 1..n BY <1>2
    <2> QED BY <1>2, <1>5, <1>9, <2>3, <2>4 DEF StartEvents
  <1> QED BY <1>8, <1>9

\* After a start nothing is active, and everything waits for its event.
LEMMA BootCalm ==
    ASSUME NEW t \in States, t.fault = None, NEW S, S = t.present,
           NEW enable, enable = t.dslEnable, NEW q \in Boot(S, enable), q = t.queue,
           t.todo = {}, \A i \in Ifs : t.oper[i] = DefaultOper /\ t.ptr[i] = None,
           \A p \in PrivIds : t.heap[p] = BlankPriv,
           \A i \in Ifs : i \notin t.present => ~t.conf[i].enable
    PROVE  Calm(t)
  <1>1. S \in SUBSET Ifs /\ enable \in BOOLEAN BY DEF States
  <1>2. StartEvents(q, S, enable) BY <1>1, BootQueue
  <1>3. QueueCalm(t)
    <2>1. ASSUME NEW k \in 1..Len(q)
          PROVE  EventCalm(t, q[k]) /\ \A j \in 1..(k - 1) : q[j].kind = "added"
      BY <1>1, <1>2 DEF EventCalm, StartEvents
    <2> QED BY <2>1 DEF QueueCalm
  <1>4. \A i \in Ifs : ~On(t, i) /\ ~Enabled(t, i)
    BY DefaultsTyped DEF On, Enabled
  <1>5. Owned(t)
    <2>1. ~BlankPriv.alive BY DEF BlankPriv
    <2> QED BY <1>4, <2>1 DEF Owned, BlockOwned, Owner
  <1>6. Visiting(t) BY DEF Visiting
  <1>7. ASSUME NEW i \in Ifs PROVE At(t, i)
    <2>1. (DslAwaits(t) <=> t.dslEnable) /\ (i \in t.present => AddedAwaits(t, i))
      BY <1>2 DEF DslAwaits, AddedAwaits, StartEvents
    <2>2. LifetimeAt(t, i) BY <1>4, <2>1 DEF LifetimeAt, DslSeen
    <2>3. StaticAt(t, i) /\ WanAt(t, i) BY <1>4 DEF StaticAt, WanAt, OpenOnWan
    <2>4. AccessAt(t, i) BY <2>1 DEF AccessAt
    <2> QED BY <2>2, <2>3, <2>4 DEF At
  <1> QED BY <1>3, <1>5, <1>6, <1>7 DEF Calm, Base

-----------------------------------------------------------------------------
(* The actions.                                                            *)

CalmInv == IInv /\ Calm(State)

\* The variables are the fields of the state.
LEMMA StateFields ==
    /\ State.dslEnable = dslEnable /\ State.present = present /\ State.conf = conf
    /\ State.readOnly = readOnly /\ State.oper = oper /\ State.ptr = ptr
    /\ State.heap = heap /\ State.queue = queue /\ State.todo = todo
    /\ State.todoEnable = todoEnable /\ State.fault = fault /\ State.firewall = firewall
  BY DEF State

\* So are those of the next state.
LEMMA NextFields ==
    ASSUME IInv'
    PROVE  /\ State' \in States
           /\ State'.dslEnable = dslEnable' /\ State'.present = present'
           /\ State'.conf = conf' /\ State'.readOnly = readOnly' /\ State'.oper = oper'
           /\ State'.ptr = ptr' /\ State'.heap = heap' /\ State'.queue = queue'
           /\ State'.todo = todo' /\ State'.todoEnable = todoEnable'
           /\ State'.fault = fault' /\ State'.firewall = firewall'
  BY DEF IInv, TypeOK, State, States

\* The invariant of the next state is what it says of the state's fields.
LEMMA CalmPrimed == Calm(State)' <=> Calm(State')
  BY DEF Calm, Base, At, QueueCalm, EventCalm, IsName, Owned, BlockOwned, Owner, On,
         Enabled, Tidy, Visiting, Plain, LifetimeAt, DslSeen, EnSeen, Awaits, AddedAwaits,
         DslAwaits, StaticAt, IsStatic, Method, Clean, InUse, WanAt, SoleInterface,
         OpenOnWan, AccessAt, States

\* A handler or a callback that ends in a calm state keeps the invariant.
LEMMA BecomeCalm ==
    ASSUME IInv', NEW u, Calm(u), Become(u)
    PROVE  /\ Calm(State)'
           /\ \A s : ByOne(s, u) => ByOne(s, State')
           /\ Plain(u) => Plain(State')
           /\ readOnly' = u.readOnly
  <1>1. u.fault = None BY DEF Calm, Base
  <1>2. /\ dslEnable' = u.dslEnable /\ present' = u.present
        /\ conf' = u.conf /\ readOnly' = u.readOnly /\ oper' = u.oper
        /\ ptr' = u.ptr /\ heap' = u.heap /\ firewall' = u.firewall
        /\ queue' = u.queue /\ todo' = u.todo /\ todoEnable' = u.todoEnable
        /\ fault' = None
    BY <1>1 DEF Become
  <1> DEFINE t == State'
  <1>3. /\ t \in States /\ t.fault = None
        /\ t.dslEnable = u.dslEnable /\ t.present = u.present /\ t.conf = u.conf
        /\ t.readOnly = u.readOnly /\ t.oper = u.oper /\ t.ptr = u.ptr /\ t.heap = u.heap
        /\ t.queue = u.queue /\ t.todo = u.todo /\ t.todoEnable = u.todoEnable
        /\ t.firewall = u.firewall
    BY <1>2, NextFields
  <1> HIDE DEF t
  <1>4. Calm(t) BY <1>3, SameCalm
  <1>5. \A s, i, p : Within(s, u, i, p) => Within(s, t, i, p)
    <2>1. ASSUME NEW s, NEW i, NEW p, Within(s, u, i, p) PROVE Within(s, t, i, p)
      BY <1>1, <1>3, <2>1 DEF Within, Around, OpenOnWan, Enabled
    <2> QED BY <2>1
  <1>6. \A s : ByOne(s, u) => ByOne(s, t) BY <1>5 DEF ByOne
  <1>7. Plain(u) => Plain(t) BY <1>3 DEF Plain
  <1> QED BY <1>2, <1>4, <1>6, <1>7, CalmPrimed DEF t

\* The state before a step.
LEMMA Before ==
    ASSUME CalmInv PROVE State \in States /\ Calm(State) /\ State.fault = None
  BY StateSound DEF CalmInv, Calm, Base

\* _interface_added.
LEMMA HandleAddedCalm ==
    ASSUME CalmInv, IInv', HandleAdded PROVE Calm(State)'
  <1> DEFINE s == State
             h == Head(queue)
             t == Popped(s)
             m == MarkEndpointName(t, h.obj)
             v == State'
  <1>1. s \in States /\ Calm(s) BY Before
  <1>2. /\ s.queue # <<>> /\ s.todo = {} /\ h = Head(s.queue) /\ h.kind = "added"
    BY StateFields DEF HandleAdded, Running
  <1>3. h.obj # None
    <2>1. EventCalm(s, h) /\ s.present \subseteq Ifs
      BY <1>1, <1>2, PoppedQueue DEF Calm, Base, States
    <2> QED BY <1>2, <2>1, ConstantsAssumption DEF EventCalm
  <1>4. readOnly' = MarkEndpointName(s, h.obj).readOnly BY <1>3 DEF HandleAdded
  <1> HIDE DEF s, h
  <1>5. Calm(m) BY <1>1, <1>2, AddedCalm
  <1>6. /\ t \in States /\ t.fault = s.fault /\ t.dslEnable = s.dslEnable
        /\ t.present = s.present /\ t.conf = s.conf /\ t.readOnly = s.readOnly
        /\ t.oper = s.oper /\ t.ptr = s.ptr /\ t.heap = s.heap /\ t.todo = s.todo
        /\ t.todoEnable = s.todoEnable /\ t.firewall = s.firewall
        /\ t.queue = Tail(s.queue)
    BY <1>1, <1>2, PoppedFields
  <1> HIDE DEF t
  <1>7. /\ m.fault = t.fault /\ m.dslEnable = t.dslEnable /\ m.present = t.present
        /\ m.conf = t.conf /\ m.oper = t.oper /\ m.ptr = t.ptr /\ m.heap = t.heap
        /\ m.todo = t.todo /\ m.todoEnable = t.todoEnable /\ m.firewall = t.firewall
        /\ m.queue = t.queue
        /\ m.readOnly = MarkEndpointName(s, h.obj).readOnly
    BY <1>1, <1>6 DEF MarkEndpointName, States
  <1>8. /\ v \in States /\ v.fault = None /\ v.dslEnable = s.dslEnable
        /\ v.present = s.present /\ v.conf = s.conf
        /\ v.readOnly = MarkEndpointName(s, h.obj).readOnly
        /\ v.oper = s.oper /\ v.ptr = s.ptr /\ v.heap = s.heap /\ v.todo = s.todo
        /\ v.todoEnable = s.todoEnable /\ v.firewall = s.firewall
        /\ v.queue = Tail(s.queue)
    BY <1>4, NextFields, StateFields DEF HandleAdded, Running, envVars, s
  <1> HIDE DEF m, v
  <1>9. Calm(v) BY <1>5, <1>6, <1>7, <1>8, SameCalm
  <1> QED BY <1>9, CalmPrimed DEF v

\* The handlers of a changed parameter.
LEMMA HandleSettingCalm ==
    ASSUME NoStray, CalmInv, IInv', HandleSetting
    PROVE  /\ Calm(State)' /\ Plain(State')
           /\ "prec" \notin Head(queue).changed => readOnly' = readOnly
  <1> DEFINE s == State
             h == Head(queue)
             t == Popped(s)
  <1>1. s \in States /\ Calm(s) BY Before
  <1>2. /\ s.queue # <<>> /\ s.todo = {} /\ h = Head(s.queue) /\ h.kind = "setting"
    BY StateFields DEF HandleSetting, Running
  <1>3. h.obj # None
    <2>1. EventCalm(s, h) /\ s.present \subseteq Ifs
      BY <1>1, <1>2, PoppedQueue DEF Calm, Base, States
    <2> QED BY <1>2, <2>1, ConstantsAssumption DEF EventCalm
  <1>4. t = [State EXCEPT !.queue = Tail(queue)] BY StateFields DEF Popped
  <1>5. PICK u \in SettingChanged(t, h) : Become(u)
    BY <1>3, <1>4 DEF HandleSetting
  <1> HIDE DEF s, h, t
  <1>6. /\ Calm(u) /\ Plain(u)
        /\ "prec" \notin h.changed => u.readOnly = s.readOnly
    BY <1>1, <1>2, <1>5, SettingCalm DEF t
  <1>7. s.readOnly = readOnly /\ h = Head(queue) BY StateFields DEF s, h
  <1> QED BY <1>5, <1>6, <1>7, BecomeCalm

\* _toggle_dslite, when it collects the instances ...
LEMMA HandleDsliteCalm ==
    ASSUME CalmInv, IInv', HandleDslite PROVE Calm(State)'
  <1> DEFINE s == State
             h == Head(queue)
             v == State'
  <1>1. s \in States /\ Calm(s) BY Before
  <1>2. /\ s.queue # <<>> /\ s.todo = {} /\ h = Head(s.queue) /\ h.kind = "dslite"
    BY StateFields DEF HandleDslite, Running
  <1>3. /\ v \in States /\ v.fault = None /\ v.dslEnable = s.dslEnable
        /\ v.present = s.present /\ v.conf = s.conf /\ v.readOnly = s.readOnly
        /\ v.oper = s.oper /\ v.ptr = s.ptr /\ v.heap = s.heap
        /\ v.firewall = s.firewall /\ v.queue = Tail(s.queue)
        /\ v.todo = {i \in s.present : s.conf[i].enable} /\ v.todoEnable = h.enable
    BY NextFields, StateFields DEF HandleDslite, Running, dmVars, envVars
  <1> HIDE DEF s, h, v
  <1>4. Calm(v) BY <1>1, <1>2, <1>3, DsliteCalm
  <1> QED BY <1>4, CalmPrimed DEF v

\* ... and when it visits one.
LEMMA ToggleDsliteCalm ==
    ASSUME NoStray, CalmInv, IInv', ToggleDslite
    PROVE  Calm(State)' /\ Plain(State') /\ readOnly' = readOnly
  <1> DEFINE s == State
  <1>1. Calm(s) BY Before
  <1>2. PICK i \in s.todo :
          \E u \in Toggle([s EXCEPT !.todo = s.todo \ {i}], i, s.todoEnable) : Become(u)
    BY StateFields DEF ToggleDslite
  <1> DEFINE t == [s EXCEPT !.todo = s.todo \ {i}]
  <1>3. PICK u \in Toggle(t, i, s.todoEnable) : Become(u) BY <1>2
  <1> HIDE DEF s, t
  <1>4. Calm(u) /\ Plain(u) /\ u.readOnly = s.readOnly
    BY <1>1, <1>2, <1>3, VisitCalm DEF t
  <1>5. s.readOnly = readOnly BY StateFields DEF s
  <1> QED BY <1>3, <1>4, <1>5, BecomeCalm

\* dns_timer_cb.
LEMMA TimerFiresCalm ==
    ASSUME NoStray, CalmInv, IInv', NEW p \in PrivIds, TimerFires(p)
    PROVE  Calm(State)' /\ ByOne(State, State')
  <1> DEFINE s == State
             i == s.heap[p].owner
             t == WithTimer(s, p, "off")
  <1>1. Calm(s) /\ s.heap[p].timer = "armed" BY Before, StateFields DEF TimerFires
  <1>2. PICK u \in IF i = None THEN {Faulted(t, "freed")}
                   ELSE ResolveEndpointName(t, i, t.conf[i].name) : Become(u)
    BY StateFields DEF TimerFires, WithTimer
  <1> HIDE DEF s, i, t
  <1>3. i # None
    <2>1. Base(s) BY <1>1 DEF Calm
    <2> QED BY <1>1, <2>1, UsedHolds, ConstantsAssumption DEF i
  <1>4. u \in ResolveEndpointName(t, i, t.conf[i].name) BY <1>2, <1>3
  <1>5. Calm(u) /\ ByOne(s, u) BY <1>1, <1>4, TimerCalm DEF i, t
  <1>6. Calm(State)' /\ ByOne(s, State') BY <1>2, <1>5, BecomeCalm
  <1> QED BY <1>5, <1>6 DEF s

\* remote_endpoint_addr_query_cb.
LEMMA DnsAnswersCalm ==
    ASSUME CalmInv, IInv', NEW p \in PrivIds, NEW a \in DnsAddrs \cup {None},
           DnsAnswers(p, a)
    PROVE  Calm(State)' /\ ByOne(State, State')
  <1> DEFINE s == State
             t == WithDns(s, p, "idle")
  <1>1. Calm(s) /\ s.heap[p].dns = "pending" BY Before, StateFields DEF DnsAnswers
  <1>2. PICK u \in QueryAnswered(t, p, a) : Become(u) BY DEF DnsAnswers, WithDns
  <1> HIDE DEF s, t
  <1>3. Calm(u) /\ ByOne(s, u) BY <1>1, <1>2, AnswerCalm DEF t
  <1>4. Calm(State)' /\ ByOne(s, State') BY <1>2, <1>3, BecomeCalm
  <1> QED BY <1>3, <1>4 DEF s

\* The timer that destroys an answered query's channel.
LEMMA DnsChannelExpiresCalm ==
    ASSUME CalmInv, IInv', NEW p \in PrivIds, DnsChannelExpires(p) PROVE Calm(State)'
  <1> DEFINE s == State
             t == WithDns(s, p, "dead")
             v == State'
  <1>1. s \in States /\ Calm(s) /\ s.heap[p].dns = "idle"
    BY Before, StateFields DEF DnsChannelExpires
  <1>2. /\ v \in States /\ v.fault = s.fault /\ v.dslEnable = s.dslEnable
        /\ v.present = s.present /\ v.conf = s.conf /\ v.readOnly = s.readOnly
        /\ v.oper = s.oper /\ v.ptr = s.ptr /\ v.firewall = s.firewall
        /\ v.heap = [s.heap EXCEPT ![p].dns = "dead"]
        /\ v.queue = s.queue /\ v.todo = s.todo /\ v.todoEnable = s.todoEnable
    BY NextFields, StateFields DEF DnsChannelExpires, dmVars, envVars, loopVars
  <1> HIDE DEF s, v
  <1>3. /\ t.fault = s.fault /\ t.dslEnable = s.dslEnable
        /\ t.present = s.present /\ t.conf = s.conf /\ t.readOnly = s.readOnly
        /\ t.oper = s.oper /\ t.ptr = s.ptr /\ t.firewall = s.firewall
        /\ t.heap = [s.heap EXCEPT ![p].dns = "dead"]
        /\ t.queue = s.queue /\ t.todo = s.todo /\ t.todoEnable = s.todoEnable
    BY <1>1 DEF WithDns, States
  <1> HIDE DEF t
  <1>4. Calm(t) BY <1>1, ExpiryCalm DEF t
  <1>5. s.fault = None BY <1>1 DEF Calm, Base
  <1>6. Calm(v) BY <1>2, <1>3, <1>4, <1>5, SameCalm
  <1> QED BY <1>6, CalmPrimed DEF v

\* nm_local_addr_cb.
LEMMA AddrChangesCalm ==
    ASSUME CalmInv, IInv', NEW p \in PrivIds, NEW a \in LocalAddrs \cup {None},
           AddrChanges(p, a)
    PROVE  Calm(State)' /\ ByOne(State, State')
  <1> DEFINE s == State
             t == WithAddrRes(s, p, a)
  <1>1. Calm(s) /\ s.heap[p].addrQ # None BY Before, StateFields DEF AddrChanges
  <1>2. PICK u \in AddrReported(t, p, a) : Become(u) BY DEF AddrChanges, WithAddrRes
  <1> HIDE DEF s, t
  <1>3. Calm(u) /\ ByOne(s, u) BY <1>1, <1>2, AddrCalm DEF t
  <1>4. Calm(State)' /\ ByOne(s, State') BY <1>2, <1>3, BecomeCalm
  <1> QED BY <1>3, <1>4 DEF s

\* nm_dhcp_cb.
LEMMA DhcpChangesCalm ==
    ASSUME NoStray, CalmInv, IInv', NEW p \in PrivIds, NEW name \in Names \cup {None},
           DhcpChanges(p, name)
    PROVE  Calm(State)' /\ ByOne(State, State')
  <1> DEFINE s == State
             t == WithDhcpRes(s, p, name)
  <1>1. Calm(s) /\ s.heap[p].dhcpQ # None BY Before, StateFields DEF DhcpChanges
  <1>2. PICK u \in DhcpReported(t, p, name) : Become(u) BY DEF DhcpChanges, WithDhcpRes
  <1> HIDE DEF s, t
  <1>3. Calm(u) /\ ByOne(s, u) BY <1>1, <1>2, DhcpCalm DEF t
  <1>4. Calm(State)' /\ ByOne(s, State') BY <1>2, <1>3, BecomeCalm
  <1> QED BY <1>3, <1>4 DEF s

\* A calm user writes when no event is queued.
LEMMA CalmWrites ==
    ASSUME CalmUser, CalmInv, MayWrite
    PROVE  /\ State.queue = <<>> /\ State.todo = {} /\ queue = <<>>
           /\ \A e : Append(queue, e) = <<e>>
  <1>1. queue \in Seq(Event) /\ Overlap \in Nat
    BY ConstantsAssumption DEF CalmInv, IInv, TypeOK
  <1>2. Len(queue) \in Nat /\ Len(queue) < Overlap /\ Overlap <= 1
    BY <1>1 DEF MayWrite, CalmUser
  <1>3. Len(queue) = 0 BY <1>1, <1>2
  <1>4. queue = <<>> BY <1>1, <1>3
  <1>5. \A e : Append(<<>>, e) = <<e>> OBVIOUS
  <1> QED BY <1>4, <1>5, StateFields DEF MayWrite, Running

\* A write of DSLite.Enable.
LEMMA UserWritesDslite ==
    ASSUME CalmUser, CalmInv, IInv', WriteDslite PROVE Calm(State)'
  <1> DEFINE s == State
             v == State'
  <1>1. Calm(s) /\ s.queue = <<>> /\ s.todo = {} /\ queue' = <<DsliteEvent(~dslEnable)>>
    BY Before, CalmWrites DEF WriteDslite
  <1>2. /\ v \in States /\ v.fault = None /\ v.dslEnable = ~s.dslEnable
        /\ v.queue = <<DsliteEvent(~s.dslEnable)>>
        /\ v.present = s.present /\ v.conf = s.conf /\ v.readOnly = s.readOnly
        /\ v.oper = s.oper /\ v.ptr = s.ptr /\ v.heap = s.heap
        /\ v.firewall = s.firewall /\ v.todo = s.todo
    BY <1>1, NextFields, StateFields DEF WriteDslite, MayWrite, Running, envVars
  <1> HIDE DEF s, v
  <1>3. Calm(v) BY <1>1, <1>2, WriteDsliteCalm
  <1> QED BY <1>3, CalmPrimed DEF v

\* A write of a parameter of an instance.
LEMMA UserWritesSetting ==
    ASSUME CalmUser, CalmInv, IInv', NEW i \in Ifs, NEW T \in Transactions,
           WriteSetting(i, T)
    PROVE  Calm(State)'
  <1> DEFINE s == State
             v == State'
  <1>1. PICK x \in Params : T = {x} BY DEF CalmUser
  <1>2. PICK c \in Rewritten(conf[i], {x}) :
               /\ conf' = [conf EXCEPT ![i] = c]
               /\ queue' = Append(queue, SettingEvent(i, {x}, c))
    BY <1>1 DEF WriteSetting
  <1>3. Calm(s) /\ s.queue = <<>> /\ s.todo = {} /\ queue' = <<SettingEvent(i, {x}, c)>>
    BY <1>2, Before, CalmWrites DEF WriteSetting
  <1>4. v \in States BY NextFields
  <1>5. WrittenAs(s, v, i, x, c)
    BY <1>2, <1>3, NextFields, StateFields
       DEF WriteSetting, MayWrite, Running, envVars, WrittenAs
  <1> HIDE DEF s, v
  <1>6. Calm(v) BY <1>3, <1>4, <1>5, WriteSettingCalm
  <1> QED BY <1>6, CalmPrimed DEF v

\* An instance that is added.
LEMMA UserAdds ==
    ASSUME CalmUser, CalmInv, IInv', NEW i \in Ifs, AddInstance(i) PROVE Calm(State)'
  <1> DEFINE s == State
             v == State'
             c == [DefaultConf EXCEPT !.enable = FALSE]
  <1>1. "addEnabled" \notin Churn BY DEF CalmUser
  <1>2. conf' = [conf EXCEPT ![i] = c] BY <1>1 DEF AddInstance
  <1>3. ~c.enable BY DEF DefaultConf
  <1>4. Calm(s) /\ s.queue = <<>> /\ s.todo = {} /\ queue' = <<AddedEvent(i)>>
    BY Before, CalmWrites DEF AddInstance
  <1>5. i \notin s.present BY StateFields DEF AddInstance
  <1> HIDE DEF c
  <1>6. /\ v \in States /\ v.fault = None /\ v.dslEnable = s.dslEnable
        /\ v.queue = <<AddedEvent(i)>> /\ v.conf = [s.conf EXCEPT ![i] = c]
        /\ v.present = s.present \cup {i} /\ v.readOnly = s.readOnly \cup {i}
        /\ v.oper = [s.oper EXCEPT ![i] = DefaultOper]
        /\ v.ptr = [s.ptr EXCEPT ![i] = None] /\ v.heap = s.heap
        /\ v.firewall = s.firewall /\ v.todo = s.todo
    BY <1>2, <1>4, NextFields, StateFields DEF AddInstance, MayWrite, Running, envVars
  <1> HIDE DEF s, v
  <1>7. Calm(v) BY <1>3, <1>4, <1>5, <1>6, AddInstanceCalm
  <1> QED BY <1>7, CalmPrimed DEF v

\* A restart.
LEMMA RestartCalm ==
    ASSUME CalmInv, IInv', Restart PROVE Calm(State)'
  <1> DEFINE v == State'
  <1>1. \A i \in Ifs : i \notin present => ~conf[i].enable
    BY Before, StateFields DEF Calm, Base, Owned, Owner
  <1>2. \A i \in Ifs : conf'[i].enable = conf[i].enable
    <2>1. \A i \in Ifs : conf[i] \in Conf BY DEF CalmInv, IInv, TypeOK
    <2>2. \A i \in Ifs : [conf[i] EXCEPT !.name = None].enable = conf[i].enable
      BY <2>1 DEF Conf
    <2> QED BY <2>2 DEF Restart
  <1>3. /\ v \in States /\ v.fault = None /\ v.present = present
        /\ v.dslEnable = dslEnable /\ v.queue = queue' /\ v.todo = {}
        /\ v.oper = [i \in Ifs |-> DefaultOper] /\ v.ptr = [i \in Ifs |-> None]
        /\ v.heap = [p \in PrivIds |-> BlankPriv] /\ v.conf = conf'
    BY NextFields DEF Restart
  <1>4. queue' \in Boot(present, dslEnable) BY DEF Restart
  <1>5. \A i \in Ifs : i \notin v.present => ~v.conf[i].enable BY <1>1, <1>2, <1>3
  <1>6. \A i \in Ifs : v.oper[i] = DefaultOper /\ v.ptr[i] = None BY <1>3
  <1>7. \A p \in PrivIds : v.heap[p] = BlankPriv BY <1>3
  <1> HIDE DEF v
  <1>8. Calm(v) BY <1>3, <1>4, <1>5, <1>6, <1>7, BootCalm
  <1> QED BY <1>8, CalmPrimed DEF v

\* The first start.
LEMMA InitCalm == Init => CalmInv
  <1> SUFFICES ASSUME Init PROVE CalmInv OBVIOUS
  <1> DEFINE v == State
  <1>1. IInv BY InitInv
  <1>2. v \in States BY <1>1, StateSound
  <1>3. /\ v.fault = None /\ v.present = Provisioned
        /\ v.dslEnable = FALSE /\ v.queue = queue /\ v.todo = {}
        /\ v.oper = [i \in Ifs |-> DefaultOper] /\ v.ptr = [i \in Ifs |-> None]
        /\ v.heap = [p \in PrivIds |-> BlankPriv] /\ v.conf = conf
    BY StateFields DEF Init
  <1>4. queue \in Boot(Provisioned, FALSE) BY DEF Init
  <1>5. \A i \in Ifs : i \notin Provisioned => ~conf[i].enable
    BY DEF Init, DefaultConf
  <1>6. \A i \in Ifs : v.oper[i] = DefaultOper /\ v.ptr[i] = None BY <1>3
  <1>7. \A p \in PrivIds : v.heap[p] = BlankPriv BY <1>3
  <1> HIDE DEF v
  <1>8. \A i \in Ifs : i \notin v.present => ~v.conf[i].enable BY <1>3, <1>5
  <1>9. Calm(v) BY <1>2, <1>3, <1>4, <1>6, <1>7, <1>8, BootCalm
  <1> QED BY <1>1, <1>9 DEF CalmInv, v

\* The invariant is kept.
LEMMA CalmStep ==
    ASSUME CalmUser, NoStray PROVE CalmInv /\ [Next]_vars => CalmInv'
  <1> SUFFICES ASSUME CalmInv, [Next]_vars PROVE CalmInv' OBVIOUS
  <1>1. IInv' BY NextInv DEF CalmInv
  <1>2. CASE Loop
    BY <1>1, <1>2, HandleAddedCalm, HandleSettingCalm, HandleDsliteCalm, ToggleDsliteCalm
       DEF Loop, CalmInv
  <1>3. CASE Timers
    BY <1>1, <1>3, TimerFiresCalm, DnsChannelExpiresCalm DEF Timers, CalmInv
  <1>4. CASE Resolver BY <1>1, <1>4, DnsAnswersCalm DEF Resolver, CalmInv
  <1>5. CASE NetModel BY <1>1, <1>5, AddrChangesCalm, DhcpChangesCalm DEF NetModel, CalmInv
  <1>6. CASE Users
    <2>1. \A i \in Ifs : ~DeleteInstance(i) BY DEF DeleteInstance, CalmUser
    <2> QED BY <1>1, <1>6, <2>1, UserWritesDslite, UserWritesSetting, UserAdds
            DEF Users, CalmInv
  <1>7. CASE Restart BY <1>1, <1>7, RestartCalm DEF CalmInv
  <1>8. CASE UNCHANGED vars
    <2>1. State' = State BY <1>8 DEF State, vars, dmVars, envVars, loopVars
    <2>2. Calm(State') BY <2>1 DEF CalmInv
    <2> QED BY <1>1, <2>2, CalmPrimed DEF CalmInv
  <1> QED BY <1>2, <1>3, <1>4, <1>5, <1>6, <1>7, <1>8 DEF Next

\* Every reachable state is calm.
LEMMA CalmHolds == ASSUME CalmUser, NoStray PROVE Spec => []CalmInv
  <1>1. CalmInv /\ [Next]_vars => CalmInv' BY CalmStep
  <1> QED BY <1>1, InitCalm, PTL DEF Spec

-----------------------------------------------------------------------------
(* The theorems.                                                           *)

\* Once the events are handled, nothing is awaited.
LEMMA QuietState ==
    ASSUME CalmInv, queue = <<>>, todo = {}
    PROVE  /\ \A i \in Ifs : On(State, i) <=> dslEnable /\ conf[i].enable
           /\ \A i \in Ifs : On(State, i) => i \in present
           /\ \A i \in Ifs : \A x : ~Awaits(State, i, x)
           /\ \A i \in Ifs : ~AddedAwaits(State, i)
  <1> DEFINE s == State
  <1>1. Calm(s) /\ s.queue = <<>> /\ s.todo = {} /\ s.dslEnable = dslEnable
        /\ s.present = present /\ s.conf = conf
    BY Before, StateFields
  <1> HIDE DEF s
  <1>2. Plain(s) /\ (\A i, x : ~Awaits(s, i, x)) /\ \A i : ~AddedAwaits(s, i)
    BY <1>1, NoEvent
  <1>3. \A i \in Ifs : On(s, i) <=> s.dslEnable /\ s.conf[i].enable
    BY <1>1, <1>2, PlainLifetime DEF Calm, At
  <1>4. \A i \in Ifs : On(s, i) => i \in s.present BY <1>1 DEF Calm, Base, Owned, Owner
  <1> QED BY <1>1, <1>2, <1>3, <1>4 DEF s

\* In a calm state no handler or callback ended in a memory error.
LEMMA CalmSafe == CalmInv => NoFault BY Before, StateFields DEF NoFault

\* In a calm state the private data are those of the active instances.
LEMMA QuietPrivs == CalmInv => PrivOnlyWhileActive
  <1>1. ASSUME CalmInv, Quiet PROVE PrivOnlyWhileActive
    <2>1. \A i \in Ifs : On(State, i) <=> dslEnable /\ conf[i].enable
      BY <1>1, QuietState DEF Quiet
    <2>2. \A i \in Ifs : On(State, i) <=> ptr[i] # None /\ heap[ptr[i]].alive
      BY StateFields DEF On
    <2>3. ASSUME NEW p \in PrivIds, heap[p].alive PROVE \E i \in present : ptr[i] = p
      <3>1. heap[p].owner \in Ifs /\ ptr[heap[p].owner] = p
        BY <1>1, <2>3, Before, StateFields DEF Calm, Base, Owned, BlockOwned
      <3>2. p # None BY ConstantsAssumption
      <3>3. On(State, heap[p].owner) BY <2>2, <2>3, <3>1, <3>2
      <3>4. heap[p].owner \in present BY <1>1, <3>1, <3>3, QuietState DEF Quiet
      <3> QED BY <3>1, <3>4
    <2>4. present \subseteq Ifs BY <1>1 DEF CalmInv, IInv, TypeOK
    <2> QED BY <2>1, <2>2, <2>3, <2>4 DEF PrivOnlyWhileActive, Active
  <1> QED BY <1>1 DEF PrivOnlyWhileActive

\* In a calm state without events a static address is in use.
LEMMA QuietStatic == CalmInv => StaticAddressInUse
  <1>1. ASSUME CalmInv, Quiet, NEW i \in present, oper[i].status = "Enabled",
               Method(conf[i]) = "STATIC_IPV6", conf[i].addr # None
        PROVE  oper[i].inUse = conf[i].addr
    <2> DEFINE s == State
    <2>1. i \in Ifs BY <1>1 DEF CalmInv, IInv, TypeOK
    <2>2. Calm(s) /\ \A x : ~Awaits(s, i, x)
      BY <1>1, <2>1, Before, QuietState DEF Quiet
    <2>3. Enabled(s, i) /\ IsStatic(s, i) /\ s.conf[i].addr # None
          /\ s.oper[i].inUse = oper[i].inUse /\ s.conf[i].addr = conf[i].addr
      BY <1>1, StateFields DEF Enabled, IsStatic
    <2> HIDE DEF s
    <2>4. On(s, i) BY <2>1, <2>2, <2>3 DEF Calm, Base, Owned, Owner
    <2>5. InUse(s, i, s.ptr[i], s.conf[i].addr)
      BY <2>1, <2>2, <2>3, <2>4 DEF Calm, At, StaticAt
    <2> QED BY <2>3, <2>5 DEF InUse
  <1> QED BY <1>1 DEF StaticAddressInUse

\* In a calm state without events EndpointName can be written where it should.
LEMMA QuietNames == CalmInv => NameWritableWhenStatic
  <1>1. ASSUME CalmInv, Quiet, NEW i \in present
        PROVE  (i \in readOnly) <=> (conf[i].prec = "DHCPv6")
    <2>1. i \in Ifs BY <1>1 DEF CalmInv, IInv, TypeOK
    <2>2. AccessAt(State, i) /\ ~Awaits(State, i, "prec") /\ ~AddedAwaits(State, i)
      BY <1>1, <2>1, Before, QuietState DEF Quiet, Calm, At
    <2> QED BY <2>2, StateFields DEF AccessAt
  <1> QED BY <1>1 DEF NameWritableWhenStatic

\* A calm user sees no handler and no NetModel, resolver or retry callback use a
\* NULL pointer or freed private data, for any number of instances and
\* allocations.  The memory error such a user does reach, of the timers of a DNS
\* query that resolve_endpoint_name replaced, is what NoStray leaves out.
THEOREM CalmNoFault == ASSUME CalmUser, NoStray PROVE Spec => []NoFault
  BY CalmSafe, CalmHolds, PTL

\* Once the events are handled, the private data that _toggle_dslite and
\* _toggle_interface allocate and free are there exactly for the instances that
\* are active: none is lost, and none is left behind.
THEOREM CalmPrivOnlyWhileActive == ASSUME CalmUser, NoStray
    PROVE  Spec => []PrivOnlyWhileActive
  BY QuietPrivs, CalmHolds, PTL

\* Once the events are handled, an Enabled instance with a static address uses
\* that address: no name, DHCP or retry callback that was under way when the
\* assignment was changed has put its own in use.
THEOREM CalmStaticAddressInUse == ASSUME CalmUser, NoStray
    PROVE  Spec => []StaticAddressInUse
  BY QuietStatic, CalmHolds, PTL

\* Once the events are handled, EndpointName can be written exactly where the
\* precedence is Static: _interface_added and the precedence handler between
\* them never lose an instance, also after a restart.
THEOREM CalmNameWritable == ASSUME CalmUser, NoStray
    PROVE  Spec => []NameWritableWhenStatic
  BY QuietNames, CalmHolds, PTL

\* With one instance and a firewall that never fails, once the events are
\* handled the service is open on the WAN interface of the Enabled instance.
THEOREM CalmFirewallOnWan ==
    ASSUME CalmUser, NoStray, SoleInterface, "firewall" \notin Quirks
    PROVE  Spec => []FirewallOnWan
  <1>1. ASSUME CalmInv, Quiet, NEW i \in present, oper[i].status = "Enabled"
        PROVE  firewall = conf[i].wan
    <2>1. i \in Ifs BY <1>1 DEF CalmInv, IInv, TypeOK
    <2>2. WanAt(State, i) /\ ~Awaits(State, i, "wan") /\ Enabled(State, i)
      BY <1>1, <2>1, Before, QuietState, StateFields DEF Quiet, Calm, At, Enabled
    <2> QED BY <2>2, StateFields DEF WanAt, OpenOnWan
  <1>2. CalmInv => FirewallOnWan BY <1>1 DEF FirewallOnWan
  <1> QED BY <1>2, CalmHolds, PTL

\* A step that no event is queued for, and that makes an instance Enabled, is a
\* callback of an instance that has private data.
LEMMA EnabledByCallback ==
    ASSUME NoStray, CalmInv, [Next]_vars, queue = <<>>, todo = {}, NEW i \in Ifs,
           oper[i].status # "Enabled", oper'[i].status = "Enabled"
    PROVE  On(State, i)
  <1> DEFINE v == State'
  <1>1. IInv' BY NextInv DEF CalmInv
  <1>2. v.oper = oper' BY <1>1, NextFields
  <1>3. Calm(State)' => On(v, i)
    <2>1. Enabled(v, i) BY <1>2 DEF Enabled
    <2>2. Calm(State)' => Calm(State') BY CalmPrimed
    <2> HIDE DEF v
    <2>3. Calm(v) => On(v, i) BY <2>1 DEF Calm, Base, Owned, Owner
    <2> QED BY <2>2, <2>3 DEF v
  <1> HIDE DEF v
  <1>4. oper' # oper OBVIOUS
  <1>5. ByOne(State, v) /\ On(v, i) => On(State, i) BY Before, ByOneSameOn DEF SameOn
  <1>6. CASE Loop
    BY <1>6 DEF Loop, HandleAdded, HandleSetting, HandleDslite, ToggleDslite
  <1>7. CASE Timers
    <2>1. PICK p \in PrivIds : TimerFires(p) \/ DnsChannelExpires(p) BY <1>7 DEF Timers
    <2>2. TimerFires(p) BY <1>4, <2>1 DEF DnsChannelExpires, dmVars
    <2>3. Calm(State)' /\ ByOne(State, v) BY <1>1, <2>2, TimerFiresCalm DEF v
    <2> QED BY <1>3, <1>5, <2>3
  <1>8. CASE Resolver
    <2>1. Calm(State)' /\ ByOne(State, v) BY <1>1, <1>8, DnsAnswersCalm DEF Resolver, v
    <2> QED BY <1>3, <1>5, <2>1
  <1>9. CASE NetModel
    <2>1. Calm(State)' /\ ByOne(State, v)
      BY <1>1, <1>9, AddrChangesCalm, DhcpChangesCalm DEF NetModel, v
    <2> QED BY <1>3, <1>5, <2>1
  <1>10. CASE Users
    <2>1. PICK j \in Ifs : AddInstance(j) \/ DeleteInstance(j)
      BY <1>4, <1>10 DEF Users, WriteDslite, WriteSetting
    <2>2. oper' = [oper EXCEPT ![j] = DefaultOper]
      BY <2>1 DEF AddInstance, DeleteInstance
    <2>3. oper'[i] = oper[i] \/ oper'[i] = DefaultOper
      BY <2>2 DEF CalmInv, IInv, TypeOK
    <2> QED BY <2>3, DefaultsTyped
  <1>11. CASE Restart BY <1>11, DefaultsTyped DEF Restart
  <1>12. CASE UNCHANGED vars BY <1>4, <1>12 DEF vars, dmVars
  <1> QED BY <1>6, <1>7, <1>8, <1>9, <1>10, <1>11, <1>12 DEF Next

\* While no event is queued, no late answer of the resolver, report of NetModel
\* or retry brings up an instance that is disabled or whose plug-in is.
THEOREM CalmNotEnabledWhileInactive ==
    ASSUME CalmUser, NoStray PROVE Spec => NotEnabledWhileInactive
  <1> DEFINE A == \A i \in Ifs :
                    /\ oper[i].status # "Enabled" /\ oper'[i].status = "Enabled"
                    /\ queue = <<>> /\ todo = {}
                    => Active(i)
  <1>1. CalmInv /\ [Next]_vars => [A]_vars
    <2>1. SUFFICES ASSUME CalmInv, [Next]_vars PROVE A OBVIOUS
    <2>2. ASSUME NEW i \in Ifs, oper[i].status # "Enabled", oper'[i].status = "Enabled",
                 queue = <<>>, todo = {}
          PROVE  Active(i)
      <3>1. On(State, i) BY <2>1, <2>2, EnabledByCallback
      <3> QED BY <2>1, <2>2, <3>1, QuietState DEF Active
    <2> QED BY <2>2
  <1> HIDE DEF A
  <1>2. Spec => [][A]_vars BY <1>1, CalmHolds, PTL DEF Spec
  <1> QED BY <1>2 DEF NotEnabledWhileInactive, A
=============================================================================
