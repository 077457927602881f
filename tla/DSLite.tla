------------------------------- MODULE DSLite -------------------------------
(***************************************************************************)
(* The DS-Lite plug-in (tr181-dslite): the event handlers of its data      *)
(* model, the per-interface state machine that opens and closes the        *)
(* IPv4-in-IPv6 tunnel, and the callbacks of NetModel, of the DNS resolver *)
(* and of the DNS timer that drive it.                                     *)
(*                                                                         *)
(* The plug-in is one process with one event loop, so a handler or a       *)
(* callback runs to its end before anything else happens: each of them is  *)
(* one action.  The functions it calls are operators from a state (a       *)
(* record with a field for every variable, and rv for a function's return  *)
(* value) to the SET of states it may end in: more than one when the       *)
(* outcome depends on the kernel, NetModel, the resolver, the firewall or  *)
(* the IP manager.                                                         *)
(*                                                                         *)
(* What is concurrent is the order in which the loop runs them: a write to *)
(* the data model takes effect at once, but its dm:object-changed event is *)
(* queued and handled later, and the handlers read most parameters from    *)
(* the data model as it is by then.                                        *)
(***************************************************************************)
EXTENDS Integers, Sequences, FiniteSets

CONSTANTS
    None,          \* a NULL pointer, an empty string, nothing
    Ifs,           \* indexes of DSLite.InterfaceSetting instances
    Provisioned,   \* the instances the default configuration creates
    PrivIds,       \* addresses of dslite_intf_priv_t allocations (a bound)
    WANs,          \* WAN interfaces NetModel knows
    BadWANs,       \* values of WANInterface NetModel does not know
    DefaultWAN,    \* the default of WANInterface
    LocalAddrs,    \* global IPv6 addresses of the WAN interfaces
    Home,          \* the WAN interface (and its net device) of each of them
    Names,         \* FQDNs of tunnel concentrators
    StaticAddrs,   \* values of EndpointAddress ...
    BadAddrs,      \* ... and those that are no IPv6 addresses
    DnsAddrs,      \* addresses the resolver answers with
    Transactions,  \* sets of parameters one write of a user may change
    Overlap,       \* a user writes only while fewer events are queued
    MaxQueue,      \* DHCP reports a name only while fewer events are queued
    Quirks,        \* what may go wrong outside the plug-in, see QuirkNames
    Churn          \* what else may happen to it, see ChurnNames

Params == {"enable", "prec", "type", "name", "addr", "wan"}

QuirkNames ==
    {"query",      \* NetModel refuses to open a query
     "dns",        \* the resolver cannot start a query
     "syncdns",    \* the resolver answers before the call that asks returns
     "tunnel",     \* the ioctl that creates or changes the tunnel fails
     "ifup",       \* the tunnel is created but cannot be brought up
     "delete",     \* the tunnel cannot be deleted
     "firewall",   \* the firewall service cannot be set or deleted
     "ipset",      \* the IP manager answers an error
     "stray"}      \* a timer that a query left running finds it freed

ChurnNames == {"add", "addEnabled", "delete", "restart"}

ASSUME ConstantsAssumption ==
    /\ Ifs \subseteq Nat /\ IsFiniteSet(Ifs) /\ Provisioned \subseteq Ifs
    /\ DefaultWAN \in WANs
    /\ BadAddrs \subseteq StaticAddrs \ DnsAddrs
    /\ Home \in [LocalAddrs -> WANs]
    /\ None \notin Ifs \cup PrivIds \cup WANs \cup BadWANs \cup LocalAddrs
                     \cup Names \cup StaticAddrs \cup DnsAddrs
    /\ None \notin {"null", "freed"}
    /\ Transactions \subseteq SUBSET Params
    /\ Overlap \in Nat /\ MaxQueue \in Nat
    /\ Quirks \subseteq QuirkNames /\ Churn \subseteq ChurnNames

VARIABLES
    dslEnable,     \* DSLite.Enable
    present,       \* the InterfaceSetting instances that exist
    conf,          \* their writable parameters
    readOnly,      \* the instances whose EndpointName is read-only (and not
                   \* persistent)
    oper,          \* their Status, EndpointAddressInUse, LocalAddress, Origin
    ptr,           \* if_obj->priv
    heap,          \* the allocations of dslite_intf_priv_t
    tunnel,        \* the kernel's interface dslite0
    firewall,      \* the interface of the firewall service "dslite"
    ip,            \* IP.Interface.8 (tunneled) and IP.Interface.7 (tunnel)
    queue,         \* the data model events not handled yet
    todo,          \* instances a DSLite.Enable event has still to visit ...
    todoEnable,    \* ... and the value it carries
    fault          \* the memory error that ended the process, or None

dmVars   == <<dslEnable, present, conf, readOnly, oper>>
envVars  == <<tunnel, firewall, ip>>
loopVars == <<queue, todo, todoEnable, fault>>
vars     == <<dmVars, ptr, heap, envVars, loopVars>>

-----------------------------------------------------------------------------
(* Types.                                                                  *)

Statuses == {"Disabled", "Enabled", "Error"}
Remotes  == StaticAddrs \cup DnsAddrs
AnyWAN   == WANs \cup BadWANs

Conf == [enable : BOOLEAN,
         prec   : {"Static", "DHCPv6"},
         type   : {"IPv6Address", "FQDN"},
         name   : Names \cup {None},
         addr   : StaticAddrs \cup {None},
         wan    : AnyWAN \cup {None}]

Oper == [status : Statuses,
         inUse  : Remotes \cup {None},
         local  : LocalAddrs \cup {None},
         origin : {"Static", "DHCPv6"}]

\* local_addr and netdev are written together: one field, Home[local] being
\* the net device.  A query is the WAN interface it was opened on and the last
\* result it reported.  dns is the object dns_query points to: none; a query
\* with a lookup "pending"; one that was answered and whose channel is still
\* alive ("idle") or destroyed ("dead"); or freed memory ("dangling").
Priv == [alive   : BOOLEAN,
         owner   : Ifs \cup {None},
         local   : LocalAddrs \cup {None},
         remote  : Remotes \cup {None},
         addrQ   : WANs \cup {None},
         addrRes : LocalAddrs \cup {None},
         dhcpQ   : WANs \cup {None},
         dhcpRes : Names \cup {None},
         dns     : {"none", "pending", "idle", "dead", "dangling"},
         timer   : {"none", "off", "armed"}]

Tunnel == [remote : Remotes, local : LocalAddrs, up : BOOLEAN]

IpIfs == [tunneled : BOOLEAN, lower : Ifs \cup {None}, tunnel : BOOLEAN]

Event == [kind : {"added", "dslite", "setting"}, obj : Ifs \cup {None},
          changed : SUBSET Params, enable : BOOLEAN, name : Names \cup {None}]

AddedEvent(i) ==
    [kind |-> "added", obj |-> i, changed |-> {}, enable |-> FALSE, name |-> None]

DsliteEvent(enable) ==
    [kind |-> "dslite", obj |-> None, changed |-> {}, enable |-> enable, name |-> None]

\* The event of a write that left instance i with the parameters c.
SettingEvent(i, changed, c) ==
    [kind |-> "setting", obj |-> i, changed |-> changed,
     enable |-> c.enable, name |-> c.name]

DefaultConf == [enable |-> FALSE, prec |-> "DHCPv6", type |-> "IPv6Address",
                name |-> None, addr |-> None, wan |-> DefaultWAN]

DefaultOper == [status |-> "Disabled", inUse |-> None, local |-> None,
                origin |-> "DHCPv6"]

\* What calloc returns, but for the owner; also what is left of a freed block.
BlankPriv == [alive |-> FALSE, owner |-> None, local |-> None, remote |-> None,
              addrQ |-> None, addrRes |-> None, dhcpQ |-> None, dhcpRes |-> None,
              dns |-> "none", timer |-> "none"]

-----------------------------------------------------------------------------
(* States as records.                                                      *)

State == [dslEnable |-> dslEnable, present |-> present, conf |-> conf,
          readOnly |-> readOnly, oper |-> oper, ptr |-> ptr, heap |-> heap,
          tunnel |-> tunnel, firewall |-> firewall, ip |-> ip, queue |-> queue,
          todo |-> todo, todoEnable |-> todoEnable, fault |-> fault, rv |-> 0]

\* A step that ends in a memory error leaves only the error behind: what the
\* process did before it, and what it would do next, is not defined.
Become(t) ==
    IF t.fault # None
      THEN /\ fault' = t.fault
           /\ UNCHANGED <<dmVars, ptr, heap, envVars, queue, todo, todoEnable>>
      ELSE /\ dslEnable' = t.dslEnable /\ present' = t.present
           /\ conf' = t.conf /\ readOnly' = t.readOnly /\ oper' = t.oper
           /\ ptr' = t.ptr /\ heap' = t.heap
           /\ tunnel' = t.tunnel /\ firewall' = t.firewall /\ ip' = t.ip
           /\ queue' = t.queue /\ todo' = t.todo /\ todoEnable' = t.todoEnable
           /\ fault' = None

Return(s, rv) == [s EXCEPT !.rv = rv]

\* "null": a NULL pointer is dereferenced; "freed": freed memory is used.
Faulted(s, kind) == [s EXCEPT !.fault = kind]

\* if_obj->priv was freed by cleanup_private_data, which leaves it as it is.
Dangling(s, i) == s.ptr[i] # None /\ ~s.heap[s.ptr[i]].alive

\* The outcomes of a call that the environment may let fail.
Maybe(quirk, outcomes) == IF quirk \in Quirks THEN outcomes ELSE {}

-----------------------------------------------------------------------------
(* The tunnel, the firewall service and the IP interfaces.                 *)

\* The tunnel between the addresses in a block of private data.
TunnelOf(p, up) == [remote |-> p.remote, local |-> p.local, up |-> up]

\* Defect: the controller module does not check that it got both addresses.
UpdateTunnelUnchecked(s, i) ==
    IF s.ptr[i] = None THEN {Return(s, -1)}
    ELSE {Return([s EXCEPT !.tunnel = TunnelOf(s.heap[s.ptr[i]], TRUE)], 0)}

\* Defect: a tunnel that is there already is an error.
UpdateTunnelAddOnly(s, i) ==
    IF s.ptr[i] = None \/ s.tunnel # None THEN {Return(s, -1)}
    ELSE {Return([s EXCEPT !.tunnel = TunnelOf(s.heap[s.ptr[i]], TRUE)], 0)}

\* update_dslite_tunnel: the arguments come from the private data and the
\* controller module, which reads the addresses, adds the tunnel, or changes the
\* one there is, and brings it up.  rv is 0 only when all of this succeeds.
UpdateTunnel(s, i) ==
    LET p     == s.heap[s.ptr[i]]
        wasUp == s.tunnel # None /\ s.tunnel.up
    IN  IF s.ptr[i] = None THEN {Return(s, -1)}
        ELSE IF Dangling(s, i) THEN {Faulted(s, "freed")}
        ELSE IF p.local = None \/ p.remote \in BadAddrs \cup {None} THEN {Return(s, -1)}
        ELSE {Return([s EXCEPT !.tunnel = TunnelOf(p, TRUE)], 0)}
             \cup Maybe("tunnel", {Return(s, -1)})
             \cup Maybe("ifup", {Return([s EXCEPT !.tunnel = TunnelOf(p, wasUp)], -1)})

\* delete_dslite_tunnel: without a net device there is nothing to call.
DeleteTunnel(s, i) ==
    IF s.ptr[i] = None THEN {s}
    ELSE IF Dangling(s, i) THEN {Faulted(s, "freed")}
    ELSE IF s.heap[s.ptr[i]].local = None THEN {s}
    ELSE {[s EXCEPT !.tunnel = None]} \cup Maybe("delete", {s})

OpenFirewall(s, wan) == {[s EXCEPT !.firewall = wan]} \cup Maybe("firewall", {s})

CloseFirewall(s) == {[s EXCEPT !.firewall = None]} \cup Maybe("firewall", {s})

\* amxb_set on one IP interface: a failed call answers a negative bus error or
\* a positive data model error.
SetTunneledIf(s, i, enable) ==
    {Return([s EXCEPT !.ip = [tunneled |-> enable,
                              lower    |-> IF enable THEN i ELSE None,
                              tunnel   |-> s.ip.tunnel]], 0)}
    \cup Maybe("ipset", {Return(s, -1), Return(s, 1)})

SetTunnelIf(s, enable) ==
    {Return([s EXCEPT !.ip.tunnel = enable], 0)}
    \cup Maybe("ipset", {Return(s, -1), Return(s, 1)})

\* toggle_dslite_ip_interfaces: the second is left alone when the first fails.
ToggleIpInterfaces(s, i, enable) ==
    UNION {IF t.rv # 0 THEN {t} ELSE SetTunnelIf(t, enable) :
             t \in SetTunneledIf(s, i, enable)}

-----------------------------------------------------------------------------
(* Opening and closing an interface.                                       *)

\* update_interface_status: without private data it does nothing at all.
UpdateStatus(s, i, status) ==
    IF s.ptr[i] = None THEN s
    ELSE [s EXCEPT !.oper[i] =
            [status |-> status,
             inUse  |-> IF status = "Enabled" THEN s.heap[s.ptr[i]].remote ELSE None,
             local  |-> IF status = "Enabled" THEN s.heap[s.ptr[i]].local ELSE None,
             origin |-> s.conf[i].prec]]

\* Defect: a positive error of the IP manager counts as success.
ConcludeSetupUnlessNegative(s, i) ==
    {UpdateStatus(s, i, IF s.rv >= 0 THEN "Enabled" ELSE "Error")}

\* The end of setup_dslite_interface, by the value toggling the IP interfaces
\* returned: only a negative one takes the firewall and the tunnel down again.
ConcludeSetup(s, i) ==
    IF s.rv = 0 THEN {UpdateStatus(s, i, "Enabled")}
    ELSE IF s.rv > 0 THEN {UpdateStatus(s, i, "Error")}
    ELSE {UpdateStatus(t, i, "Error") :
            t \in UNION {DeleteTunnel(u, i) : u \in CloseFirewall(s)}}

\* Defect: a firewall service that is there already is left as it is.
SetupKeepingService(s, i) ==
    UNION {IF t.rv # 0 \/ t.fault # None THEN {UpdateStatus(t, i, "Error")}
           ELSE UNION {ConcludeSetup(u, i) :
                  u \in UNION {ToggleIpInterfaces(v, i, TRUE) :
                          v \in IF t.firewall # None THEN {t}
                                ELSE OpenFirewall(t, t.conf[i].wan)}} :
             t \in UpdateTunnel(s, i)}

\* setup_dslite_interface: the result of open_firewall is not looked at.
Setup(s, i) ==
    IF s.conf[i].wan = None THEN {UpdateStatus(s, i, "Error")}
    ELSE UNION {IF t.fault # None THEN {t}
                ELSE IF t.rv # 0 THEN {UpdateStatus(t, i, "Error")}
                ELSE UNION {ConcludeSetup(u, i) :
                       u \in UNION {ToggleIpInterfaces(v, i, TRUE) :
                               v \in OpenFirewall(t, t.conf[i].wan)}} :
                  t \in UpdateTunnel(s, i)}

\* Defect: the tunnel is left when the interface is disabled.
DisableKeepingTunnel(s, i, status) ==
    {UpdateStatus(t, i, status) : t \in ToggleIpInterfaces(s, i, FALSE)}

\* Defect: the status is left when an error disables the interface.
DisableKeepingStatus(s, i, status) ==
    {IF status = "Error" THEN t ELSE UpdateStatus(t, i, status) : t \in DeleteTunnel(s, i)}

\* disable_interface: the tunnel is taken down only when Status is Enabled,
\* and the failures of doing so are not looked at.
Disable(s, i, status) ==
    IF s.oper[i].status # "Enabled" THEN {UpdateStatus(s, i, status)}
    ELSE {UpdateStatus(t, i, status) :
            t \in UNION {ToggleIpInterfaces(u, i, FALSE) :
                     u \in UNION {CloseFirewall(v) : v \in DeleteTunnel(s, i)}}}

\* What the callers do with a function that returned an error.
DisableOnError(s, i) == IF s.rv # 0 THEN Disable(s, i, "Error") ELSE {s}

-----------------------------------------------------------------------------
(* Resolving the name of the tunnel concentrator.                          *)

\* Defect: a failed lookup is not retried.
QueryAnsweredOnce(s, p, address) ==
    LET i == s.heap[p].owner
    IN  IF address = None THEN Disable(s, i, "Error")
        ELSE Setup([s EXCEPT !.heap[p].remote = address], i)

\* remote_endpoint_addr_query_cb: an address sets the interface up and ends
\* the retries, a failure (None) disables it and starts the retry timer.
QueryAnswered(s, p, address) ==
    LET i == s.heap[p].owner
    IN  IF i = None THEN {Faulted(s, "freed")}
        ELSE IF address # None
          THEN {[t EXCEPT !.heap[p].timer = "none"] :
                  t \in Setup([s EXCEPT !.heap[p].remote = address], i)}
          ELSE {[t EXCEPT !.heap[p].timer = IF @ = "off" THEN "armed" ELSE @] :
                  t \in Disable(s, i, "Error")}

\* dslite_close_dns_query: destroying a channel whose lookup is pending calls
\* the lookup's callback with a failure.  The object is freed; the caller's
\* pointer to it is not changed.
CloseDnsQuery(s, p) ==
    CASE s.heap[p].dns = "none"     -> {s}
      [] s.heap[p].dns = "dangling" -> {Faulted(s, "freed")}
      [] s.heap[p].dns = "pending"  -> {[t EXCEPT !.heap[p].dns = "dangling"] :
                                          t \in QueryAnswered(s, p, None)}
      [] OTHER                      -> {[s EXCEPT !.heap[p].dns = "dangling"]}

\* dslite_close_dns_query where delete_ares_timers was not called before it: a
\* lookup whose last socket was just closed is freed without an answer, and
\* the timers that still run call back with the query that was freed.
CloseWithTimers(s, p) ==
    LET running == s.heap[p].dns \in {"pending", "idle"}
    IN  CloseDnsQuery(s, p)
        \cup (IF running THEN {[s EXCEPT !.heap[p].dns = "dangling"]} ELSE {})
        \cup (IF running THEN Maybe("stray", {Faulted(s, "freed")}) ELSE {})

\* dslite_open_dns_query for a name that is not empty, and its assignment to
\* dns_query.  rv is -1 when it returns NULL.
OpenDnsQuery(s, p) ==
    {Return([s EXCEPT !.heap[p].dns = "pending"], 0)}
    \cup Maybe("dns", {Return([s EXCEPT !.heap[p].dns = "none"], -1)})
    \cup Maybe("syncdns", {Return([t EXCEPT !.heap[p].dns = "idle"], 0) :
                 t \in UNION {QueryAnswered(s, p, a) : a \in DnsAddrs \cup {None}}})

\* resolve_endpoint_name: while the WAN interface has no address there is
\* nothing to ask and the timer retries; otherwise a new query replaces the
\* old one.
ResolveEndpointName(s, i, name) ==
    LET p       == s.ptr[i]
        stopped == [s EXCEPT !.heap[p].timer = "off"]
    IN  IF name = None \/ p = None THEN {Return(s, -1)}
        ELSE IF Dangling(s, i) THEN {Faulted(s, "freed")}
        ELSE IF s.heap[p].local = None
          THEN {Return([s EXCEPT !.heap[p].timer = "armed"], -1)}
          ELSE UNION {OpenDnsQuery(t, p) : t \in CloseWithTimers(stopped, p)}

-----------------------------------------------------------------------------
(* NetModel queries: opening one reports its first result before it        *)
(* returns.                                                                *)

AddrResults(wan) == {a \in LocalAddrs : Home[a] = wan} \cup {None}

\* nm_local_addr_cb: without an address the interface is disabled; with one it
\* is set up again, unless it is Disabled or has no remote address yet.
AddrReported(s, p, a) ==
    LET i      == s.heap[p].owner
        stored == [s EXCEPT !.heap[p].local = a]
    IN  IF i = None THEN {Faulted(s, "freed")}
        ELSE IF a = None THEN Disable(s, i, "Error")
        ELSE IF s.oper[i].status = "Disabled" \/ s.heap[p].remote = None
          THEN {stored}
          ELSE Setup(stored, i)

\* nm_dhcp_cb: the name in use is resolved again; another one is written to
\* the data model, whose event resolves it.
DhcpReported(s, p, name) ==
    LET i       == s.heap[p].owner
        written == [s EXCEPT !.conf[i].name = name]
    IN  IF name = None THEN {s}
        ELSE IF i = None THEN {Faulted(s, "freed")}
        ELSE IF s.conf[i].name = name
          THEN UNION {DisableOnError(t, i) : t \in ResolveEndpointName(s, i, name)}
          ELSE {[written EXCEPT !.queue =
                   Append(@, SettingEvent(i, {"name"}, written.conf[i]))]}

\* nm_open_local_addr_query: rv is -1 when no query was opened; an empty
\* WANInterface leaves the old query open.
OpenAddrQuery(s, i) ==
    LET p      == s.ptr[i]
        wan    == s.conf[i].wan
        closed == [s EXCEPT !.heap[p].addrQ = None, !.heap[p].addrRes = None]
        opened(t, a) == [t EXCEPT !.heap[p].addrQ = wan, !.heap[p].addrRes = a]
    IN  IF p = None THEN {Return(s, -1)}
        ELSE IF Dangling(s, i) THEN {Faulted(s, "freed")}
        ELSE IF wan = None THEN {Return(s, -1)}
        ELSE IF wan \in BadWANs THEN {Return(closed, -1)}
        ELSE (UNION {{Return(opened(t, a), 0) : t \in AddrReported(closed, p, a)} :
                       a \in AddrResults(wan)})
             \cup Maybe("query", {Return(closed, -1)})

\* nm_open_dhcpv6_query
OpenDhcpQuery(s, i) ==
    LET p      == s.ptr[i]
        wan    == s.conf[i].wan
        closed == [s EXCEPT !.heap[p].dhcpQ = None, !.heap[p].dhcpRes = None]
        opened(t, n) == [t EXCEPT !.heap[p].dhcpQ = wan, !.heap[p].dhcpRes = n]
    IN  IF p = None THEN {Return(s, -1)}
        ELSE IF Dangling(s, i) THEN {Faulted(s, "freed")}
        ELSE IF wan = None THEN {Return(s, -1)}
        ELSE IF wan \in BadWANs THEN {Return(closed, -1)}
        ELSE (UNION {{Return(opened(t, n), 0) : t \in DhcpReported(closed, p, n)} :
                       n \in Names \cup {None}})
             \cup Maybe("query", {Return(closed, -1)})

-----------------------------------------------------------------------------
(* Collecting the parameters of the tunnel.                                *)

\* get_endp_assignment_method
Method(c) == IF c.prec = "DHCPv6" THEN "DHCPV6"
             ELSE IF c.type = "FQDN" THEN "STATIC_FQDN" ELSE "STATIC_IPV6"

Ready   == 0
Waiting == 1
Error   == -1

\* A function that returned 0 has started something that will call back.
WaitingIfStarted(s) == Return(s, IF s.rv = 0 THEN Waiting ELSE Error)

\* The STATIC_IPV6 case of get_remote_endp_addr, with
\* dslite_is_waiting_for_getaddrinfo and set_static_remote_addr.
StaticRemoteAddr(s, i) ==
    LET p == s.ptr[i]
        addr == s.conf[i].addr
    IN  IF p = None THEN {Faulted(s, "null")}
        ELSE IF Dangling(s, i) \/ s.heap[p].dns = "dangling" THEN {Faulted(s, "freed")}
        ELSE {IF addr = None THEN Return(t, Error)
              ELSE Return([t EXCEPT !.heap[p].remote = addr], Ready) :
                t \in IF s.heap[p].dns \in {"pending", "idle"}
                         THEN CloseWithTimers(s, p) ELSE {s}}

\* get_remote_endp_addr
GetRemoteEndpAddr(s, i) ==
    CASE Method(s.conf[i]) = "STATIC_IPV6" -> StaticRemoteAddr(s, i)
      [] Method(s.conf[i]) = "STATIC_FQDN" ->
           {WaitingIfStarted(t) : t \in ResolveEndpointName(s, i, s.conf[i].name)}
      [] Method(s.conf[i]) = "DHCPV6" ->
           {WaitingIfStarted(t) : t \in OpenDhcpQuery(s, i)}

\* What every caller of get_remote_endp_addr does with the answer.
UseRemote(s, i) ==
    CASE s.rv = Ready   -> Setup(s, i)
      [] s.rv = Error   -> Disable(s, i, "Error")
      [] s.rv = Waiting -> {s}

\* get_tunnel_parameters
GetTunnelParameters(s, i) ==
    UNION {IF t.rv # 0 THEN {t} ELSE GetRemoteEndpAddr(t, i) : t \in OpenAddrQuery(s, i)}

\* dslite_intf_priv_t_ctor: a block that was there before is forgotten.  No
\* block another instance still points to is used again.
AllocatePriv(s, i) ==
    {[s EXCEPT !.ptr[i] = p,
               !.heap[p] = [BlankPriv EXCEPT !.alive = TRUE, !.owner = i]] :
       p \in {q \in PrivIds : ~s.heap[q].alive /\ \A j \in Ifs \ {i} : s.ptr[j] # q}}

\* enable_interface
EnableInterface(s, i) ==
    UNION {UseRemote(t, i) :
      t \in UNION {GetTunnelParameters(u, i) : u \in AllocatePriv(s, i)}}

\* Defect: the query is closed and the pointer to it is kept.
ClearRemoteKeepingPointer(s, i) ==
    IF s.ptr[i] = None THEN {s} ELSE CloseDnsQuery(s, s.ptr[i])

\* clear_remote_endpoint_properties
ClearRemote(s, i) ==
    LET p       == s.ptr[i]
        cleared == [s EXCEPT !.heap[p].remote = None, !.heap[p].dhcpQ = None,
                             !.heap[p].dhcpRes = None]
    IN  IF p = None THEN {s}
        ELSE IF Dangling(s, i) THEN {Faulted(s, "freed")}
        ELSE {[t EXCEPT !.heap[p].dns = "none", !.heap[p].timer = "none"] :
                t \in CloseDnsQuery(cleared, p)}

\* cleanup_private_data: if_obj->priv keeps pointing to the freed block.
CleanupPriv(s, i) ==
    LET p      == s.ptr[i]
        closed == [s EXCEPT !.heap[p].addrQ = None, !.heap[p].addrRes = None,
                            !.heap[p].dhcpQ = None, !.heap[p].dhcpRes = None]
    IN  IF p = None THEN {s}
        ELSE IF Dangling(s, i) THEN {Faulted(s, "freed")}
        ELSE {[t EXCEPT !.heap[p] = BlankPriv] : t \in CloseDnsQuery(closed, p)}

\* Defect: the private data of a disabled interface is kept.
ToggleKeepingPriv(s, i, enable) ==
    IF enable THEN EnableInterface(s, i) ELSE Disable(s, i, "Disabled")

\* The two halves of _toggle_dslite and _toggle_interface.
Toggle(s, i, enable) ==
    IF enable THEN EnableInterface(s, i)
    ELSE UNION {CleanupPriv(t, i) : t \in Disable(s, i, "Disabled")}

-----------------------------------------------------------------------------
(* The handlers of the data model's events.                                *)

Listening(s, i) == s.dslEnable /\ s.conf[i].enable

\* Defect: an EndpointName that became read-only stays so.
MarkEndpointNameOnce(s, i) ==
    [s EXCEPT !.readOnly = IF Method(s.conf[i]) = "DHCPV6" THEN @ \cup {i} ELSE @]

\* What _interface_added and the precedence handler do to EndpointName.
MarkEndpointName(s, i) ==
    [s EXCEPT !.readOnly = IF Method(s.conf[i]) = "DHCPV6" THEN @ \cup {i} ELSE @ \ {i}]

\* Defect: DSLite.Enable is not looked at.
ToggleInterfaceAlways(s, i, enable) == Toggle(s, i, enable)

\* _toggle_interface
ToggleInterface(s, i, enable) == IF s.dslEnable THEN Toggle(s, i, enable) ELSE {s}

\* _endpoint_address_changed
EndpointAddressChanged(s, i) ==
    IF Listening(s, i) /\ Method(s.conf[i]) = "STATIC_IPV6"
      THEN UNION {UseRemote(t, i) : t \in GetRemoteEndpAddr(s, i)}
      ELSE {s}

\* Defect: an address that is known at once is not used at once.
RestartRemoteLater(s, i) ==
    UNION {DisableOnError(t, i) :
      t \in UNION {{IF u.rv = Ready THEN u ELSE Return(u, u.rv - Waiting) :
                       u \in GetRemoteEndpAddr(v, i)} : v \in ClearRemote(s, i)}}

\* The common end of the two precedence handlers.
RestartRemote(s, i) ==
    UNION {UseRemote(t, i) :
      t \in UNION {GetRemoteEndpAddr(u, i) : u \in ClearRemote(s, i)}}

\* _endpoint_assignment_precedence_changed
AssignmentPrecedenceChanged(s, i) ==
    LET marked == MarkEndpointName(s, i)
    IN  IF Listening(marked, i) THEN RestartRemote(marked, i) ELSE {marked}

\* _endpoint_name_changed: the name is the event's, the rest is current.
EndpointNameChanged(s, i, name) ==
    IF Listening(s, i) /\ name # None /\ Method(s.conf[i]) # "STATIC_IPV6"
      THEN UNION {DisableOnError(t, i) : t \in ResolveEndpointName(s, i, name)}
      ELSE {s}

\* _endpoint_address_type_precedence_changed
AddressTypePrecedenceChanged(s, i) ==
    IF Listening(s, i) /\ Method(s.conf[i]) # "DHCPV6" THEN RestartRemote(s, i) ELSE {s}

\* Defect: the interface is set up again, but the query of its address stays
\* on the old WAN interface.
WanInterfaceChangedOnly(s, i) == IF Listening(s, i) THEN Setup(s, i) ELSE {s}

\* _wan_interface_changed
WanInterfaceChanged(s, i) ==
    IF Listening(s, i)
      THEN UNION {IF t.rv # 0 THEN Disable(t, i, "Error") ELSE Setup(t, i) :
                    t \in OpenAddrQuery(s, i)}
      ELSE {s}

\* One dm:object-changed event of an instance: the handlers of the parameters
\* it lists run in the order in which they are subscribed.
SettingChanged(s, e) ==
    LET i == e.obj
        a == IF "enable" \in e.changed THEN ToggleInterface(s, i, e.enable) ELSE {s}
        b == IF "addr" \in e.changed
               THEN UNION {EndpointAddressChanged(t, i) : t \in a} ELSE a
        c == IF "prec" \in e.changed
               THEN UNION {AssignmentPrecedenceChanged(t, i) : t \in b} ELSE b
        d == IF "name" \in e.changed
               THEN UNION {EndpointNameChanged(t, i, e.name) : t \in c} ELSE c
        f == IF "type" \in e.changed
               THEN UNION {AddressTypePrecedenceChanged(t, i) : t \in d} ELSE d
    IN  IF "wan" \in e.changed THEN UNION {WanInterfaceChanged(t, i) : t \in f} ELSE f

\* An event whose instance was deleted meanwhile: three handlers read a
\* parameter of the object they did not find, the others do nothing.
InstanceGone(s, e) ==
    IF e.changed \cap {"prec", "name", "type"} # {} THEN {Faulted(s, "null")} ELSE {s}

-----------------------------------------------------------------------------
(* The event loop.                                                         *)

Running == fault = None /\ todo = {}

\* The event at the head of the queue is handled.
HandleAdded ==
    /\ Running /\ queue # <<>> /\ Head(queue).kind = "added"
    /\ queue' = Tail(queue)
    /\ readOnly' = IF Head(queue).obj = None THEN readOnly
                   ELSE MarkEndpointName(State, Head(queue).obj).readOnly
    /\ UNCHANGED <<dslEnable, present, conf, oper, ptr, heap, envVars,
                   todo, todoEnable, fault>>

HandleSetting ==
    /\ Running /\ queue # <<>> /\ Head(queue).kind = "setting"
    /\ LET e == Head(queue)
           s == [State EXCEPT !.queue = Tail(queue)]
       IN  \E t \in IF e.obj = None THEN InstanceGone(s, e) ELSE SettingChanged(s, e) :
             Become(t)

\* Defect: _toggle_dslite visits every instance.
HandleDsliteForAll ==
    /\ Running /\ queue # <<>> /\ Head(queue).kind = "dslite"
    /\ queue' = Tail(queue) /\ todo' = present /\ todoEnable' = Head(queue).enable
    /\ UNCHANGED <<dmVars, ptr, heap, envVars, fault>>

\* _toggle_dslite visits the instances that are enabled, in the order of their
\* indexes; nothing else happens until it has visited all of them.
HandleDslite ==
    /\ Running /\ queue # <<>> /\ Head(queue).kind = "dslite"
    /\ queue' = Tail(queue)
    /\ todo' = {i \in present : conf[i].enable}
    /\ todoEnable' = Head(queue).enable
    /\ UNCHANGED <<dmVars, ptr, heap, envVars, fault>>

ToggleDslite ==
    /\ fault = None
    /\ \E i \in todo :
         /\ \A j \in todo : i <= j
         /\ \E t \in Toggle([State EXCEPT !.todo = todo \ {i}], i, todoEnable) : Become(t)

\* dns_timer_cb: the timer belongs to a private data block, but its argument
\* is the instance, whose current block is the one that is used.
TimerFires(p) ==
    /\ Running /\ heap[p].timer = "armed"
    /\ LET i == heap[p].owner
           s == [State EXCEPT !.heap[p].timer = "off"]
       IN  \E t \in IF i = None THEN {Faulted(s, "freed")}
                    ELSE ResolveEndpointName(s, i, s.conf[i].name) : Become(t)

\* The resolver answers, with an address or with a failure (None).
DnsAnswers(p, address) ==
    /\ Running /\ heap[p].dns = "pending"
    /\ \E t \in QueryAnswered([State EXCEPT !.heap[p].dns = "idle"], p, address) : Become(t)

\* The timer that destroys the channel of a query that was answered.
DnsChannelExpires(p) ==
    /\ Running /\ heap[p].dns = "idle"
    /\ heap' = [heap EXCEPT ![p].dns = "dead"]
    /\ UNCHANGED <<dmVars, ptr, envVars, loopVars>>

\* NetModel reports another address, or none, of the WAN interface.
AddrChanges(p, a) ==
    /\ Running /\ heap[p].addrQ # None
    /\ a \in AddrResults(heap[p].addrQ) \ {heap[p].addrRes}
    /\ \E t \in AddrReported([State EXCEPT !.heap[p].addrRes = a], p, a) : Become(t)

\* NetModel reports another name, or none, from the DHCPv6 server.
DhcpChanges(p, name) ==
    /\ Running /\ heap[p].dhcpQ # None /\ Len(queue) < MaxQueue
    /\ name # heap[p].dhcpRes
    /\ \E t \in DhcpReported([State EXCEPT !.heap[p].dhcpRes = name], p, name) : Become(t)

-----------------------------------------------------------------------------
(* The users of the data model, and restarts.                              *)

MayWrite == Running /\ Len(queue) < Overlap

WriteDslite ==
    /\ MayWrite
    /\ dslEnable' = ~dslEnable
    /\ queue' = Append(queue, DsliteEvent(~dslEnable))
    /\ UNCHANGED <<present, conf, readOnly, oper, ptr, heap, envVars,
                   todo, todoEnable, fault>>

\* What a transaction on the parameters T may write in place of c: each of
\* them changes, the others do not.
Rewritten(c, T) ==
    LET New(q, values) == IF q \in T THEN values \ {c[q]} ELSE {c[q]}
    IN  [enable : New("enable", BOOLEAN),
         prec   : New("prec", {"Static", "DHCPv6"}),
         type   : New("type", {"IPv6Address", "FQDN"}),
         name   : New("name", Names \cup {None}),
         addr   : New("addr", StaticAddrs \cup {None}),
         wan    : New("wan", AnyWAN \cup {None})]

WriteSetting(i, T) ==
    /\ MayWrite /\ i \in present
    /\ "name" \in T => i \notin readOnly
    /\ \E c \in Rewritten(conf[i], T) :
         /\ conf' = [conf EXCEPT ![i] = c]
         /\ queue' = Append(queue, SettingEvent(i, T, c))
    /\ UNCHANGED <<dslEnable, present, readOnly, oper, ptr, heap, envVars,
                   todo, todoEnable, fault>>

\* An instance is added with the defaults of the data model, but for Enable.
AddInstance(i) ==
    /\ MayWrite /\ i \in Ifs \ present
    /\ \E enable \in (IF "add" \in Churn THEN {FALSE} ELSE {})
                     \cup (IF "addEnabled" \in Churn THEN {TRUE} ELSE {}) :
         conf' = [conf EXCEPT ![i] = [DefaultConf EXCEPT !.enable = enable]]
    /\ present' = present \cup {i}
    /\ readOnly' = readOnly \cup {i}
    /\ oper' = [oper EXCEPT ![i] = DefaultOper]
    /\ ptr' = [ptr EXCEPT ![i] = None]
    /\ queue' = Append(queue, AddedEvent(i))
    /\ UNCHANGED <<dslEnable, heap, envVars, todo, todoEnable, fault>>

\* No handler is subscribed to the deletion of an instance: its private data
\* outlives the object it points to.
DeleteInstance(i) ==
    /\ MayWrite /\ "delete" \in Churn /\ i \in present
    /\ present' = present \ {i}
    /\ readOnly' = readOnly \ {i}
    /\ conf' = [conf EXCEPT ![i] = DefaultConf]
    /\ oper' = [oper EXCEPT ![i] = DefaultOper]
    /\ ptr' = [ptr EXCEPT ![i] = None]
    /\ heap' = [p \in PrivIds |->
                  IF heap[p].owner = i THEN [heap[p] EXCEPT !.owner = None] ELSE heap[p]]
    /\ queue' = [k \in 1..Len(queue) |->
                   IF queue[k].obj = i THEN [queue[k] EXCEPT !.obj = None] ELSE queue[k]]
    /\ UNCHANGED <<dslEnable, envVars, todo, todoEnable, fault>>

\* The process ends and starts again.  dslite_cleanup leaves the tunnel, the
\* firewall and the IP interfaces as they are; the saved parameters are loaded
\* again (EndpointName only where it is persistent), with one event for each
\* instance and one for DSLite.Enable if it is set.
Boot(S, enable) ==
    {[k \in 1..Cardinality(S) |-> AddedEvent(order[k])]
       \o (IF enable THEN <<DsliteEvent(TRUE)>> ELSE <<>>) :
     order \in {f \in [1..Cardinality(S) -> S] :
                \A j, k \in 1..Cardinality(S) : j < k => f[j] < f[k]}}

Restart ==
    /\ "restart" \in Churn
    /\ conf' = [i \in Ifs |-> IF i \in readOnly THEN [conf[i] EXCEPT !.name = None]
                                               ELSE conf[i]]
    /\ readOnly' = present
    /\ oper' = [i \in Ifs |-> DefaultOper]
    /\ ptr' = [i \in Ifs |-> None]
    /\ heap' = [p \in PrivIds |-> BlankPriv]
    /\ queue' \in Boot(present, dslEnable)
    /\ todo' = {} /\ todoEnable' = FALSE /\ fault' = None
    /\ UNCHANGED <<dslEnable, present, envVars>>

-----------------------------------------------------------------------------
Init ==
    /\ dslEnable = FALSE
    /\ present = Provisioned
    /\ conf = [i \in Ifs |-> [DefaultConf EXCEPT !.enable = i \in Provisioned]]
    /\ readOnly = Provisioned
    /\ oper = [i \in Ifs |-> DefaultOper]
    /\ ptr = [i \in Ifs |-> None]
    /\ heap = [p \in PrivIds |-> BlankPriv]
    /\ tunnel = None
    /\ firewall = None
    /\ ip = [tunneled |-> FALSE, lower |-> None, tunnel |-> FALSE]
    /\ queue \in Boot(Provisioned, FALSE)
    /\ todo = {} /\ todoEnable = FALSE
    /\ fault = None

Loop == HandleAdded \/ HandleSetting \/ HandleDslite \/ ToggleDslite

Timers == \E p \in PrivIds : TimerFires(p) \/ DnsChannelExpires(p)

Resolver == \E p \in PrivIds, a \in DnsAddrs \cup {None} : DnsAnswers(p, a)

NetModel == \E p \in PrivIds :
              \/ \E a \in LocalAddrs \cup {None} : AddrChanges(p, a)
              \/ \E n \in Names \cup {None} : DhcpChanges(p, n)

Users == \/ WriteDslite
         \/ \E i \in Ifs :
              \/ \E T \in Transactions : WriteSetting(i, T)
              \/ AddInstance(i) \/ DeleteInstance(i)

Next == Loop \/ Timers \/ Resolver \/ NetModel \/ Users \/ Restart

Spec == Init /\ [][Next]_vars

-----------------------------------------------------------------------------
(* Types.                                                                  *)

\* Every variable has the type its declaration describes.
TypeOK ==
    /\ dslEnable \in BOOLEAN
    /\ present \subseteq Ifs
    /\ conf \in [Ifs -> Conf]
    /\ readOnly \subseteq Ifs
    /\ oper \in [Ifs -> Oper]
    /\ ptr \in [Ifs -> PrivIds \cup {None}]
    /\ heap \in [PrivIds -> Priv]
    /\ tunnel \in Tunnel \cup {None}
    /\ firewall \in AnyWAN \cup {None}
    /\ ip \in IpIfs
    /\ queue \in Seq(Event)
    /\ todo \subseteq Ifs
    /\ todoEnable \in BOOLEAN
    /\ fault \in {None, "null", "freed"}

-----------------------------------------------------------------------------
(* Safety.                                                                 *)

\* With one instance, whatever fails outside and however writes and callbacks
\* interleave: while Status is Enabled, the kernel's tunnel is up between the
\* two addresses the data model shows, and both IP interfaces are enabled, the
\* tunneled one on top of that instance.
EnabledMeansTunnel ==
    \A i \in Ifs : oper[i].status = "Enabled" =>
        /\ tunnel = [remote |-> oper[i].inUse, local |-> oper[i].local, up |-> TRUE]
        /\ ip = [tunneled |-> TRUE, lower |-> i, tunnel |-> TRUE]

\* No handler, and no callback that NetModel, the resolver or the retry timer
\* makes, dereferences NULL or uses private data, an instance or a query that
\* was freed.  This is without the two timers of a query ("stray"): those do
\* use it after it was freed, see DnsQuery.
NoFault == fault = None

Quiet == queue = <<>> /\ todo = {} /\ fault = None

Active(i) == dslEnable /\ i \in present /\ conf[i].enable

\* Once the events are handled, an instance has live private data exactly when
\* it and the plug-in are enabled, and no other private data is left: no query
\* or timer of an instance that was disabled, or enabled twice, remains.
PrivOnlyWhileActive ==
    Quiet =>
        /\ \A i \in present : Active(i) <=> (ptr[i] # None /\ heap[ptr[i]].alive)
        /\ \A p \in PrivIds : heap[p].alive => \E i \in present : ptr[i] = p

\* Once the events are handled, an Enabled instance that is configured with a
\* static address uses that address, and not one left from a name.
StaticAddressInUse ==
    Quiet => \A i \in present :
        /\ oper[i].status = "Enabled" /\ Method(conf[i]) = "STATIC_IPV6"
        /\ conf[i].addr # None
        => oper[i].inUse = conf[i].addr

\* Once the events are handled, EndpointName can be written exactly when the
\* assignment precedence is Static.
NameWritableWhenStatic ==
    Quiet => \A i \in present : (i \in readOnly) <=> (conf[i].prec = "DHCPv6")

\* Where the firewall never fails: once the events are handled, the service is
\* open on the WAN interface of the Enabled instance.
FirewallOnWan ==
    Quiet => \A i \in present : oper[i].status = "Enabled" => firewall = conf[i].wan

-----------------------------------------------------------------------------
(* What the documentation, the tests and the release notes say of it.      *)

\* test_events.c: after Enable is written false, Status is Disabled.  Here: once
\* the events are handled, an instance that is not active is Disabled.
InactiveMeansDisabled ==
    Quiet => \A i \in present : ~Active(i) => oper[i].status = "Disabled"

\* CHANGELOG.md, v0.5.4: the tunnel interface is removed when Status is Error.
ErrorMeansNoTunnel ==
    Quiet => \A i \in present : oper[i].status = "Error" => tunnel = None

\* The data model: WANInterface is the interface that sends and receives the
\* traffic of the tunnel, and LocalAddress the address currently in use.  Here:
\* once the events are handled, the local end of the tunnel of an Enabled
\* instance is the address its WANInterface has, as NetModel last reported it.
LocalAddressReported ==
    Quiet => \A i \in present :
        oper[i].status = "Enabled" /\ ptr[i] # None =>
            oper[i].local = heap[ptr[i]].addrRes

\* The data model: EndpointAddressInUse is derived from the parameters, and
\* empty if no endpoint address is known.  Here: once the events are handled,
\* an instance that uses the static address has none in use when none is given.
NoAddressNoEndpoint ==
    Quiet => \A i \in present :
        /\ Active(i) /\ Method(conf[i]) = "STATIC_IPV6" /\ conf[i].addr = None
        => oper[i].inUse = None

\* While no event is queued, no callback brings up an instance that is disabled
\* or whose plug-in is disabled.
NotEnabledWhileInactive ==
    [][\A i \in Ifs :
         /\ oper[i].status # "Enabled" /\ oper'[i].status = "Enabled"
         /\ queue = <<>> /\ todo = {}
         => Active(i)]_vars

-----------------------------------------------------------------------------
(* Liveness.                                                               *)

\* The loop handles its events and fires its timers; a resolver that is asked
\* again and again answers with an address some time.
FairSpec ==
    /\ Spec
    /\ WF_vars(Loop)
    /\ \A p \in PrivIds :
         /\ WF_vars(TimerFires(p))
         /\ SF_vars(\E a \in DnsAddrs : DnsAnswers(p, a))

\* Everything instance i needs to open its tunnel is there: the WAN interface
\* has an address and the endpoint is given by the method configured.
Wanted(i) ==
    /\ Active(i) /\ ptr[i] # None
    /\ heap[ptr[i]].addrRes # None
    /\ CASE Method(conf[i]) = "STATIC_IPV6" -> conf[i].addr \notin BadAddrs \cup {None}
         [] Method(conf[i]) = "STATIC_FQDN" -> conf[i].name # None
         [] Method(conf[i]) = "DHCPV6"      -> heap[ptr[i]].dhcpRes # None

\* Instance i is Enabled on the WAN interface it is configured with: from an
\* address of that interface, and with the firewall open there.
EnabledOnWan(i) ==
    /\ oper[i].status = "Enabled" /\ oper[i].local # None
    /\ Home[oper[i].local] = conf[i].wan /\ firewall = conf[i].wan

\* An instance for which everything is there in the end is Enabled again and
\* again, on the WAN interface it has in the end: however often a lookup fails,
\* WANInterface is changed and the old interface still reports addresses.  Once
\* WANInterface was empty, this is so of an endpoint that was found; one that
\* was not is not looked for again.
EventuallyEnabled ==
    \A i \in Ifs :
        /\ <>[](Wanted(i) /\ conf[i].wan # None)
        /\ [](conf[i].wan # None) \/ <>[](ptr[i] # None /\ heap[ptr[i]].remote # None)
        => []<>EnabledOnWan(i)
=============================================================================
