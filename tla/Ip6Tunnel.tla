------------------------------ MODULE Ip6Tunnel ------------------------------
(***************************************************************************)
(* mod-dslite-ioctl: the controller module that makes, changes and removes *)
(* the kernel's tunnel dslite0, one ioctl after the other.                 *)
(*                                                                         *)
(* The plug-in waits while the module runs, the kernel does not: a net     *)
(* device of a WAN interface may vanish, and come back with another index, *)
(* between any two system calls, and each of them may fail.  Nobody but    *)
(* this module touches dslite0.                                            *)
(*                                                                         *)
(* call is the control state of add_or_modify_tunnel or delete_tunnel.     *)
(* before, reply and owner are history variables: the properties and the   *)
(* refinement mapping read them, the module does not.                      *)
(***************************************************************************)
EXTENDS Integers

CONSTANTS
    None,
    WANs,        \* the net devices of WAN interfaces
    LocalAddrs,  \* addresses of WAN interfaces ...
    Home,        \* ... and the net device of each
    Remotes,     \* addresses of tunnel concentrators
    BadRemotes,  \* other texts EndpointAddress may have: no IPv6 addresses
    MaxIndex,    \* the kernel hands out fewer interface indexes (a bound)
    Faults       \* system calls that may fail for a reason of their own

ASSUME TunnelAssumption ==
    /\ Home \in [LocalAddrs -> WANs]
    /\ None \notin WANs \cup LocalAddrs \cup Remotes
    /\ BadRemotes \cap Remotes = {}
    /\ MaxIndex \in Nat \ {0}
    /\ Faults \subseteq {"socket", "index", "command", "flags"}

VARIABLES
    device,   \* the interface index of each net device, 0 when it is gone
    owner,    \* the net device each index was given to
    tunnel,   \* the kernel's dslite0
    call,     \* the call the module is in
    fds,      \* how many sockets the module has open
    before,   \* dslite0 when the call was made
    reply     \* the last call and what it returned

kernelVars == <<device, owner>>
vars       == <<kernelVars, tunnel, call, fds, before, reply>>

Indexes == 1..MaxIndex

Tunnel == [remote : Remotes, local : LocalAddrs, link : Indexes, up : BOOLEAN]

\* The arguments of a call (dslite_build_ctrlr_args_from_object): the net
\* device and the local address are known, the remote one need not be, and need
\* not be an address: of EndpointAddress only the length is checked.
Request == {r \in [fn     : {"add_or_modify_tunnel", "delete_tunnel"},
                   netdev : WANs,
                   local  : LocalAddrs,
                   remote : Remotes \cup BadRemotes \cup {None}] :
                r.netdev = Home[r.local]}

\* link is the index the net device had; clean is a history: no system call
\* failed for a reason of its own, and the net device was there all the time.
Call == [request : Request,
         pc      : {"exists", "look", "operate", "index", "command", "up", "flags"},
         cmd     : {"SIOCADDTUNNEL", "SIOCCHGTUNNEL", "SIOCDELTUNNEL"},
         link    : 0..MaxIndex,
         clean   : BOOLEAN]

Reply == [request : Request, rv : {0, -1}, clean : BOOLEAN]

\* The tunnel as the plug-in sees it.
Shown == [remote : Remotes, local : LocalAddrs, up : BOOLEAN]

ASSUME NoneAssumption == None \notin Tunnel \cup Shown \cup Request \cup Call \cup Reply

-----------------------------------------------------------------------------
(* The kernel.                                                             *)

Unused == {x \in Indexes : owner[x] = None}

\* A net device is made; indexes are not used twice.
NetdevAppears(w) ==
    /\ device[w] = 0
    /\ \E x \in Unused :
         /\ \A y \in Unused : x <= y
         /\ device' = [device EXCEPT ![w] = x]
         /\ owner' = [owner EXCEPT ![x] = w]
    /\ UNCHANGED <<tunnel, call, fds, before, reply>>

\* A net device vanishes.  The tunnel on top of it stays.
NetdevVanishes(w) ==
    /\ device[w] # 0
    /\ device' = [device EXCEPT ![w] = 0]
    /\ call' = IF call # None /\ call.request.netdev = w
                 THEN [call EXCEPT !.clean = FALSE] ELSE call
    /\ UNCHANGED <<owner, tunnel, fds, before, reply>>

-----------------------------------------------------------------------------
(* The module.                                                             *)

Goto(pc) == call' = [call EXCEPT !.pc = pc] /\ UNCHANGED <<before, reply>>

\* The function returns.
Return(rv, clean) ==
    /\ call' = None
    /\ reply' = [request |-> call.request, rv |-> rv, clean |-> clean]
    /\ UNCHANGED before

\* A system call that fails although nothing is wrong with its arguments.
Fail(fault) == fault \in Faults /\ Return(-1, FALSE)

\* cfgctrlr_execute_function calls add_or_modify_tunnel or delete_tunnel.
Execute(r) ==
    /\ call = None
    /\ call' = [request |-> r,
                pc      |-> IF r.fn = "delete_tunnel" THEN "operate" ELSE "exists",
                cmd     |-> "SIOCDELTUNNEL",
                link    |-> 0,
                clean   |-> device[r.netdev] # 0]
    /\ before' = tunnel
    /\ UNCHANGED <<kernelVars, tunnel, fds, reply>>

In(pc) == call # None /\ call.pc = pc

\* The socket of tunnel_exists.
TunnelExists ==
    /\ In("exists")
    /\ \/ Fail("socket") /\ UNCHANGED fds
       \/ fds' = fds + 1 /\ Goto("look")
    /\ UNCHANGED <<kernelVars, tunnel>>

\* What add_or_modify_tunnel makes of the answer of tunnel_exists.
Found(there, clean) ==
    /\ call' = [call EXCEPT !.pc    = "operate",
                            !.cmd   = IF there THEN "SIOCCHGTUNNEL" ELSE "SIOCADDTUNNEL",
                            !.clean = clean]
    /\ UNCHANGED <<kernelVars, tunnel, before, reply>>

\* Defect: what the ioctl returns is not looked at.
LookForTunnelNever == In("look") /\ fds' = fds - 1 /\ Found(FALSE, call.clean)

\* Defect: without a tunnel, the function ends before it closes its socket.
LookForTunnelLeaking ==
    /\ In("look") /\ fds' = (IF tunnel = None THEN fds ELSE fds - 1)
    /\ Found(tunnel # None, call.clean)

\* SIOCGIFINDEX on dslite0, and the end of tunnel_exists: whatever the ioctl
\* fails for is read as no tunnel.
LookForTunnel ==
    /\ In("look") /\ fds' = fds - 1
    /\ \/ Found(tunnel # None, call.clean)
       \/ "index" \in Faults /\ Found(FALSE, FALSE)

\* get_tunnel_params: both endpoints have to be given, and inet_pton has to
\* read them as addresses.
HasParams == call.request.remote \in Remotes

\* tunnel_operate up to its socket; a deletion needs no addresses.
Operate ==
    LET ready == call.cmd = "SIOCDELTUNNEL" \/ HasParams
    IN  /\ In("operate")
        /\ \/ ~ready /\ Return(-1, call.clean) /\ UNCHANGED fds
           \/ ready /\ Fail("socket") /\ UNCHANGED fds
           \/ ready /\ fds' = fds + 1 /\ Goto("index")
        /\ UNCHANGED <<kernelVars, tunnel>>

\* The index of the tunneled net device; without one there is no operation at
\* all, not even the deletion.
GetIndex ==
    LET index == device[call.request.netdev]
    IN  /\ In("index")
        /\ \/ index = 0 /\ Return(-1, call.clean) /\ fds' = fds - 1
           \/ Fail("index") /\ fds' = fds - 1
           \/ /\ index # 0
              /\ call' = [call EXCEPT !.pc = "command", !.link = index]
              /\ UNCHANGED <<fds, before, reply>>
        /\ UNCHANGED <<kernelVars, tunnel>>

\* Defect: a tunnel that is changed keeps its link.
OperatedKeepingLink(t) ==
    [remote |-> call.request.remote, local |-> call.request.local,
     link |-> IF t = None THEN call.link ELSE t.link, up |-> t # None /\ t.up]

\* The parameters given to the kernel: what it makes of a new tunnel (t is
\* None), or of the one there is, whose flags it keeps.
Operated(t) == [remote |-> call.request.remote, local |-> call.request.local,
                link |-> call.link, up |-> t # None /\ t.up]

\* The kernel makes no second dslite0 and removes none that is not there.
Refused == CASE call.cmd = "SIOCADDTUNNEL" -> tunnel # None
             [] call.cmd = "SIOCDELTUNNEL" -> tunnel = None
             [] call.cmd = "SIOCCHGTUNNEL" -> FALSE

\* The ioctl on ip6tnl0 (a new tunnel) or on dslite0 (change and delete); an
\* update goes on to set_if_up.
Command ==
    /\ In("command")
    /\ \/ Fail("command") /\ fds' = fds - 1 /\ UNCHANGED tunnel
       \/ Refused /\ Return(-1, call.clean) /\ fds' = fds - 1 /\ UNCHANGED tunnel
       \/ /\ ~Refused /\ call.cmd = "SIOCDELTUNNEL"
          /\ tunnel' = None /\ Return(0, call.clean) /\ fds' = fds - 1
       \/ /\ ~Refused /\ call.cmd # "SIOCDELTUNNEL"
          /\ tunnel' = Operated(tunnel) /\ Goto("up") /\ UNCHANGED fds
    /\ UNCHANGED kernelVars

\* The socket of set_if_up; without it tunnel_operate closes its own and ends.
SetIfUp ==
    /\ In("up")
    /\ \/ Fail("socket") /\ fds' = fds - 1
       \/ fds' = fds + 1 /\ Goto("flags")
    /\ UNCHANGED <<kernelVars, tunnel>>

\* Defect: the result of set_if_up is not looked at.
SetFlagsIgnored ==
    /\ In("flags")
    /\ \/ "flags" \in Faults /\ Return(0, FALSE) /\ UNCHANGED tunnel
       \/ tunnel' = [tunnel EXCEPT !.up = TRUE] /\ Return(0, call.clean)
    /\ fds' = fds - 2
    /\ UNCHANGED kernelVars

\* Defect: set_if_up does not close its socket when the ioctl fails.
SetFlagsLeaking ==
    /\ In("flags")
    /\ \/ Fail("flags") /\ fds' = fds - 1 /\ UNCHANGED tunnel
       \/ tunnel' = [tunnel EXCEPT !.up = TRUE] /\ Return(0, call.clean) /\ fds' = fds - 2
    /\ UNCHANGED kernelVars

\* SIOCSIFFLAGS: set_if_up ends and closes its socket, and so does
\* tunnel_operate.
SetFlags ==
    /\ In("flags")
    /\ \/ Fail("flags") /\ UNCHANGED tunnel
       \/ tunnel' = [tunnel EXCEPT !.up = TRUE] /\ Return(0, call.clean)
    /\ fds' = fds - 2
    /\ UNCHANGED kernelVars

-----------------------------------------------------------------------------
\* dslite_ioctl_start: no function runs yet.  dslite_ioctl_stop removes nothing,
\* so that an earlier process may have left a tunnel.
Init ==
    /\ owner \in [Indexes -> WANs \cup {None}]
    /\ \A x \in Indexes : x > 1 => owner[x] = None
    /\ device \in [WANs -> {0, 1}]
    /\ \A w \in WANs : device[w] = 1 => owner[1] = w
    /\ \/ tunnel = None
       \/ tunnel \in Tunnel /\ owner[tunnel.link] = Home[tunnel.local]
    /\ call = None
    /\ fds = 0
    /\ before = tunnel
    /\ reply = None

Next ==
    \/ \E w \in WANs : NetdevAppears(w) \/ NetdevVanishes(w)
    \/ \E r \in Request : Execute(r)
    \/ TunnelExists \/ LookForTunnel
    \/ Operate \/ GetIndex \/ Command \/ SetIfUp \/ SetFlags

Spec == Init /\ [][Next]_vars

-----------------------------------------------------------------------------
(* Properties.                                                             *)

\* Every variable has the type its declaration describes.
TypeOK ==
    /\ device \in [WANs -> 0..MaxIndex]
    /\ owner \in [Indexes -> WANs \cup {None}]
    /\ tunnel \in Tunnel \cup {None}
    /\ call \in Call \cup {None}
    /\ fds \in 0..2
    /\ before \in Tunnel \cup {None}
    /\ reply \in Reply \cup {None}

\* Whatever failed on the way, tunnel_exists, set_if_up and tunnel_operate have
\* closed their sockets when the function the plug-in called has returned.
SocketsClosed == call = None => fds = 0

\* The tunnel is linked to an index that the net device of its local address
\* had: never to that of another WAN interface, however devices come and go
\* between two system calls and however often the tunnel was changed.
LinkOnWan == tunnel # None => owner[tunnel.link] = Home[tunnel.local]

\* A call fails only for a reason: a system call failed, the net device was
\* gone at some time, or there is nothing it could do: no tunnel to delete, or
\* no address for its remote end.  So a tunnel whose net device is there can
\* always be changed and removed, also one that could not be brought up before,
\* or that an earlier process left.
FailureHasCause ==
    call = None /\ reply # None /\ reply.rv = -1 /\ reply.clean =>
        IF reply.request.fn = "delete_tunnel" THEN before = None
        ELSE reply.request.remote \notin Remotes

\* The tunnel as the plug-in can find it: between two calls.
Seen(t) == IF t = None THEN None
           ELSE [remote |-> t.remote, local |-> t.local, up |-> t.up]

Service == INSTANCE TunnelService
             WITH tunnel   <- Seen(IF call = None THEN tunnel ELSE before),
                  request  <- IF call = None THEN None ELSE call.request,
                  rv       <- IF reply = None THEN 0 ELSE reply.rv,
                  Requests <- Request,
                  Addresses <- Remotes

\* dslite_ioctl.c provides what TunnelService asks of it.
ServiceSpec == Service!Spec
=============================================================================
