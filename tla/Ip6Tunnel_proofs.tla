-------------------------- MODULE Ip6Tunnel_proofs --------------------------
(***************************************************************************)
(* Theorems about the tunnel controller module, for any WAN interfaces,    *)
(* addresses and failing system calls: its invariants, and that it         *)
(* implements TunnelService.                                               *)
(***************************************************************************)
EXTENDS Ip6Tunnel, TLAPS

-----------------------------------------------------------------------------
(* The inductive invariant.                                                *)

Places == {"exists", "look", "operate", "index", "command", "up", "flags"}

\* A socket is open exactly between its making and the end of the function that
\* made it: that of set_if_up beside that of tunnel_operate.
SocketInUse ==
    fds = IF call = None THEN 0
          ELSE IF call.pc \in {"exists", "operate"} THEN 0
          ELSE IF call.pc = "flags" THEN 2 ELSE 1

\* The command fits the function and what it found, unless an ioctl misled it,
\* and whoever needs the remote address has it.
CommandFits ==
    call # None =>
        /\ call.pc \in {"exists", "look"} => call.request.fn = "add_or_modify_tunnel"
        /\ call.pc \notin {"exists", "look"} =>
             /\ call.cmd = "SIOCDELTUNNEL" <=> call.request.fn = "delete_tunnel"
             /\ call.cmd = "SIOCADDTUNNEL" /\ call.clean => before = None
             /\ call.cmd = "SIOCCHGTUNNEL" => before # None
        /\ /\ call.pc \in {"index", "command", "up", "flags"}
           /\ call.cmd # "SIOCDELTUNNEL"
           => call.request.remote \in Remotes
        /\ call.pc \in {"up", "flags"} => call.cmd # "SIOCDELTUNNEL"

\* The tunnel is the one there was until the command, then the one asked for.
TunnelSoFar ==
    call # None =>
        /\ call.pc \notin {"up", "flags"} => tunnel = before
        /\ call.pc \in {"up", "flags"} =>
             /\ tunnel # None
             /\ tunnel.remote = call.request.remote /\ tunnel.local = call.request.local
             /\ tunnel.up = (before # None /\ before.up)

\* An index stays with the net device it was given to.
IndexesKept ==
    /\ \A w \in WANs : device[w] # 0 => owner[device[w]] = w
    /\ In("command") => call.link \in Indexes /\ owner[call.link] = call.request.netdev

\* As long as nothing went wrong the net device is there.
DeviceThere == call # None /\ call.clean => device[call.request.netdev] # 0

IInv == /\ TypeOK /\ SocketInUse /\ CommandFits /\ TunnelSoFar
        /\ IndexesKept /\ LinkOnWan /\ DeviceThere /\ FailureHasCause

-----------------------------------------------------------------------------
(* Records and None.                                                       *)

\* What the constants are not.
LEMMA NotNone ==
    /\ \A c \in Call : c # None
    /\ \A t \in Tunnel : t # None
    /\ \A r \in Request : r # None
    /\ \A r \in Reply : r # None
    /\ \A t \in Shown : t # None
  BY NoneAssumption

\* The fields of a request, a call and a tunnel.
LEMMA Fields ==
    /\ \A r \in Request : /\ r.fn \in {"add_or_modify_tunnel", "delete_tunnel"}
                          /\ r.netdev \in WANs /\ r.local \in LocalAddrs
                          /\ r.remote \in Remotes \cup BadRemotes \cup {None}
                          /\ r.netdev = Home[r.local]
    /\ \A c \in Call : /\ c.request \in Request
                       /\ c.pc \in Places
                       /\ c.cmd \in {"SIOCADDTUNNEL", "SIOCCHGTUNNEL", "SIOCDELTUNNEL"}
                       /\ c.link \in 0..MaxIndex /\ c.clean \in BOOLEAN
    /\ \A t \in Tunnel : /\ t.remote \in Remotes /\ t.local \in LocalAddrs
                         /\ t.link \in Indexes /\ t.up \in BOOLEAN
  BY DEF Request, Call, Tunnel, Places

\* Where a call goes next changes nothing else in it.
LEMMA PcTyped ==
    ASSUME NEW c \in Call, NEW pc \in Places
    PROVE  LET d == [c EXCEPT !.pc = pc]
           IN  /\ d \in Call /\ d.request = c.request /\ d.pc = pc /\ d.cmd = c.cmd
               /\ d.link = c.link /\ d.clean = c.clean
  BY DEF Call, Places

\* Neither does a net device that vanishes.
LEMMA CleanTyped ==
    ASSUME NEW c \in Call
    PROVE  LET d == [c EXCEPT !.clean = FALSE]
           IN  /\ d \in Call /\ d.request = c.request /\ d.pc = c.pc /\ d.cmd = c.cmd
               /\ d.link = c.link /\ ~d.clean
  BY DEF Call

-----------------------------------------------------------------------------
(* The steps.                                                              *)

\* At first nothing was called.
LEMMA InitInv == Init => IInv
  <1> SUFFICES ASSUME Init PROVE IInv OBVIOUS
  <1>1. device \in [WANs -> 0..MaxIndex] /\ \A w \in WANs : device[w] # 0 => owner[device[w]] = w
    BY TunnelAssumption DEF Init
  <1> QED
    BY <1>1, NotNone DEF Init, IInv, TypeOK, SocketInUse, CommandFits, TunnelSoFar,
       IndexesKept, In, LinkOnWan, DeviceThere, FailureHasCause

\* Devices come with an index nobody had, so no index changes its device.
LEMMA NetdevAppearsStep ==
    ASSUME IInv, NEW w \in WANs, NetdevAppears(w) PROVE IInv'
  <1> USE DEF IInv, TypeOK
  <1>1. PICK x \in Unused : /\ device' = [device EXCEPT ![w] = x]
                            /\ owner' = [owner EXCEPT ![x] = w]
    BY DEF NetdevAppears
  <1>2. x \in Indexes /\ owner[x] = None /\ x # 0 BY DEF Unused, Indexes
  <1>3. UNCHANGED <<tunnel, call, fds, before, reply>> BY DEF NetdevAppears
  <1>4. TypeOK'
    <2>1. device' \in [WANs -> 0..MaxIndex] BY <1>1, <1>2, TunnelAssumption DEF Indexes
    <2>2. owner' \in [Indexes -> WANs \cup {None}] BY <1>1, <1>2
    <2> QED BY <2>1, <2>2, <1>3
  <1>5. \A y \in Indexes : owner[y] # None => owner'[y] = owner[y] BY <1>1, <1>2
  <1>6. IndexesKept'
    <2>1. ASSUME NEW v \in WANs, device'[v] # 0 PROVE owner'[device'[v]] = v
      <3>1. CASE v = w BY <3>1, <1>1, <1>2
      <3>2. CASE v # w
        <4>1. device'[v] = device[v] BY <3>2, <1>1
        <4>2. owner[device[v]] = v BY <4>1, <2>1 DEF IndexesKept
        <4>3. device[v] \in Indexes BY <4>1, <2>1, TunnelAssumption DEF Indexes
        <4>4. v # None BY TunnelAssumption
        <4> QED BY <4>1, <4>2, <4>3, <4>4, <1>5
      <3> QED BY <3>1, <3>2
    <2>2. ASSUME In("command") PROVE owner'[call.link] = call.request.netdev
      <3>1. call.request.netdev \in WANs BY <2>2, Fields DEF In
      <3> QED BY <2>2, <3>1, <1>5, TunnelAssumption DEF IndexesKept
    <2> QED BY <2>1, <2>2, <1>3 DEF IndexesKept, In
  <1>7. LinkOnWan'
    <2>1. ASSUME tunnel # None PROVE owner'[tunnel.link] = Home[tunnel.local]
      <3>1. tunnel.link \in Indexes /\ tunnel.local \in LocalAddrs BY <2>1, Fields
      <3>2. Home[tunnel.local] \in WANs BY <3>1, TunnelAssumption
      <3> QED BY <2>1, <3>1, <3>2, <1>5, TunnelAssumption DEF LinkOnWan
    <2> QED BY <2>1, <1>3 DEF LinkOnWan
  <1>8. DeviceThere' BY <1>1, <1>2, <1>3, Fields DEF DeviceThere
  <1>9. (SocketInUse /\ CommandFits /\ TunnelSoFar /\ FailureHasCause)'
    BY <1>3 DEF SocketInUse, CommandFits, TunnelSoFar, FailureHasCause
  <1> QED BY <1>4, <1>6, <1>7, <1>8, <1>9

\* A device that vanishes leaves the tunnel and spoils the call that needs it.
LEMMA NetdevVanishesStep ==
    ASSUME IInv, NEW w \in WANs, NetdevVanishes(w) PROVE IInv'
  <1> USE DEF IInv, TypeOK
  <1>1. /\ device' = [device EXCEPT ![w] = 0]
        /\ UNCHANGED <<owner, tunnel, fds, before, reply>>
    BY DEF NetdevVanishes
  <1>2. \/ call' = call /\ (call # None => call.request.netdev # w)
        \/ call # None /\ call' = [call EXCEPT !.clean = FALSE]
    BY DEF NetdevVanishes
  <1>3. call' \in Call \cup {None} /\ (call' = None <=> call = None)
        /\ (call # None => /\ call'.request = call.request /\ call'.pc = call.pc
                           /\ call'.cmd = call.cmd /\ call'.link = call.link
                           /\ (call'.clean => call.clean))
    <2>1. ASSUME call # None, call' = [call EXCEPT !.clean = FALSE]
          PROVE  /\ call' \in Call /\ call'.request = call.request /\ call'.pc = call.pc
                 /\ call'.cmd = call.cmd /\ call'.link = call.link /\ ~call'.clean
      <3>1. call \in Call BY <2>1
      <3> QED BY <2>1, <3>1, CleanTyped
    <2> QED BY <1>2, <2>1, NotNone
  <1>4. TypeOK' BY <1>1, <1>3, TunnelAssumption
  <1>5. IndexesKept' BY <1>1, <1>3 DEF IndexesKept, In
  <1>6. DeviceThere'
    <2>1. ASSUME call # None, call'.clean PROVE device'[call.request.netdev] # 0
      <3>1. call' = call /\ call.request.netdev # w BY <2>1, <1>2 DEF Call
      <3> QED BY <2>1, <3>1, <1>1, Fields DEF DeviceThere
    <2> QED BY <2>1, <1>3 DEF DeviceThere
  <1>7. (SocketInUse /\ CommandFits /\ TunnelSoFar /\ LinkOnWan)'
    BY <1>1, <1>3 DEF SocketInUse, CommandFits, TunnelSoFar, LinkOnWan
  <1>8. FailureHasCause' BY <1>1, <1>3 DEF FailureHasCause
  <1> QED BY <1>4, <1>5, <1>6, <1>7, <1>8

\* A call begins.
LEMMA ExecuteStep == ASSUME IInv, NEW r \in Request, Execute(r) PROVE IInv'
  <1> USE DEF IInv, TypeOK
  <1>1. /\ call' \in Call /\ call'.request = r /\ call'.link = 0
        /\ call'.pc = IF r.fn = "delete_tunnel" THEN "operate" ELSE "exists"
        /\ call'.cmd = "SIOCDELTUNNEL" /\ call'.clean = (device[r.netdev] # 0)
    BY TunnelAssumption DEF Execute, Call
  <1>2. call' # None BY <1>1, NotNone
  <1>3. call = None /\ before' = tunnel /\ UNCHANGED <<device, owner, tunnel, fds, reply>>
    BY DEF Execute, kernelVars
  <1>4. TypeOK' BY <1>1, <1>3
  <1>5. (SocketInUse /\ CommandFits /\ TunnelSoFar)'
    BY <1>1, <1>2, <1>3, Fields DEF SocketInUse, CommandFits, TunnelSoFar
  <1>6. (IndexesKept /\ LinkOnWan /\ DeviceThere /\ FailureHasCause)'
    BY <1>1, <1>2, <1>3, Fields DEF IndexesKept, In, LinkOnWan, DeviceThere, FailureHasCause
  <1> QED BY <1>4, <1>5, <1>6

\* What a return from the module has to show: the tunnel and its link are kept
\* or replaced, the sockets are closed, and a failure has a cause.
LEMMA ReturnStep ==
    ASSUME IInv, call # None,
           NEW rv \in {0, -1}, NEW clean \in BOOLEAN, Return(rv, clean),
           UNCHANGED kernelVars, fds' = 0,
           tunnel' \in Tunnel \cup {None}, LinkOnWan',
           rv = -1 /\ clean =>
             IF call.request.fn = "delete_tunnel" THEN before = None
             ELSE call.request.remote \notin Remotes
    PROVE  IInv'
  <1> USE DEF IInv, TypeOK
  <1>1. /\ call' = None /\ before' = before
        /\ reply' = [request |-> call.request, rv |-> rv, clean |-> clean]
        /\ UNCHANGED <<device, owner>>
    BY DEF Return, kernelVars
  <1>2. reply' \in Reply BY <1>1, Fields DEF Reply
  <1>3. TypeOK' BY <1>1, <1>2
  <1>4. (SocketInUse /\ CommandFits /\ TunnelSoFar /\ IndexesKept /\ DeviceThere)'
    BY <1>1 DEF SocketInUse, CommandFits, TunnelSoFar, IndexesKept, In, DeviceThere
  <1>5. FailureHasCause' BY <1>1 DEF FailureHasCause
  <1> QED BY <1>3, <1>4, <1>5

\* A system call that fails by itself ends the call; the tunnel is as it was.
LEMMA FailStep ==
    ASSUME IInv, call # None, NEW kind, Fail(kind), UNCHANGED kernelVars, fds' = 0,
           UNCHANGED tunnel
    PROVE  IInv'
  <1>1. Return(-1, FALSE) BY DEF Fail
  <1>2. tunnel' \in Tunnel \cup {None} BY DEF IInv, TypeOK
  <1>3. LinkOnWan' BY DEF IInv, LinkOnWan, kernelVars
  <1> QED BY <1>1, <1>2, <1>3, ReturnStep

\* Goto changes where the call is.
LEMMA GotoCall ==
    ASSUME call \in Call, NEW pc \in Places, Goto(pc)
    PROVE  /\ call' \in Call /\ call' # None /\ call'.pc = pc /\ call'.cmd = call.cmd
           /\ call'.request = call.request /\ call'.clean = call.clean
           /\ call'.link = call.link /\ UNCHANGED <<before, reply>>
  <1>1. call' = [call EXCEPT !.pc = pc] BY DEF Goto
  <1>2. /\ call' \in Call /\ call'.pc = pc /\ call'.cmd = call.cmd
        /\ call'.request = call.request /\ call'.clean = call.clean /\ call'.link = call.link
    BY <1>1, PcTyped
  <1> QED BY <1>2, NotNone DEF Goto

\* A step to another place in the code, with a socket that was made there.
LEMMA GotoStep ==
    ASSUME IInv, call # None, NEW pc \in Places, Goto(pc), UNCHANGED <<kernelVars, tunnel>>,
           <<call.pc, pc>> \in {<<"exists", "look">>, <<"operate", "index">>, <<"up", "flags">>},
           fds' = fds + 1,
           pc = "index" => call.cmd = "SIOCDELTUNNEL" \/ HasParams
    PROVE  IInv'
  <1> USE DEF IInv, TypeOK
  <1>1. call \in Call OBVIOUS
  <1>2. /\ call' \in Call /\ call' # None /\ call'.pc = pc /\ call'.cmd = call.cmd
        /\ call'.request = call.request /\ call'.clean = call.clean
        /\ UNCHANGED <<before, reply>>
    BY <1>1, GotoCall
  <1>3. UNCHANGED <<device, owner, tunnel>> BY DEF kernelVars
  <1>4. fds \in 0..1 BY DEF SocketInUse
  <1>5. TypeOK' BY <1>2, <1>3, <1>4
  <1>6. SocketInUse' BY <1>2, <1>3 DEF SocketInUse
  <1>7. CommandFits' BY <1>2, <1>3 DEF CommandFits, HasParams
  <1>8. TunnelSoFar' BY <1>2, <1>3 DEF TunnelSoFar
  <1>9. (IndexesKept /\ LinkOnWan /\ DeviceThere /\ FailureHasCause)'
    BY <1>2, <1>3 DEF IndexesKept, In, LinkOnWan, DeviceThere, FailureHasCause
  <1> QED BY <1>5, <1>6, <1>7, <1>8, <1>9

\* tunnel_exists opens its socket.
LEMMA TunnelExistsStep == ASSUME IInv, TunnelExists PROVE IInv'
  <1>1. call # None /\ call \in Call /\ call.pc = "exists" /\ fds = 0
    BY DEF TunnelExists, In, IInv, TypeOK, SocketInUse
  <1>2. UNCHANGED <<kernelVars, tunnel>> BY DEF TunnelExists
  <1>3. CASE Fail("socket") /\ UNCHANGED fds BY <1>1, <1>2, <1>3, FailStep
  <1>4. CASE fds' = fds + 1 /\ Goto("look")
    BY <1>1, <1>2, <1>4, GotoStep DEF Places
  <1> QED BY <1>3, <1>4 DEF TunnelExists

\* What a call is after tunnel_exists.
LEMMA FoundCall ==
    ASSUME call \in Call, NEW there \in BOOLEAN, NEW clean \in BOOLEAN, Found(there, clean)
    PROVE  /\ call' \in Call /\ call' # None /\ call'.pc = "operate"
           /\ call'.cmd = IF there THEN "SIOCCHGTUNNEL" ELSE "SIOCADDTUNNEL"
           /\ call'.request = call.request /\ call'.clean = clean
           /\ UNCHANGED <<before, reply>>
  <1> DEFINE cmd == IF there THEN "SIOCCHGTUNNEL" ELSE "SIOCADDTUNNEL"
  <1>1. /\ call' = [call EXCEPT !.pc = "operate", !.cmd = cmd, !.clean = clean]
        /\ UNCHANGED <<before, reply>>
    BY DEF Found
  <1>2. cmd \in {"SIOCADDTUNNEL", "SIOCCHGTUNNEL", "SIOCDELTUNNEL"} OBVIOUS
  <1> HIDE DEF cmd
  <1>3. /\ call' \in Call /\ call'.pc = "operate" /\ call'.cmd = cmd
        /\ call'.request = call.request /\ call'.clean = clean
    BY <1>1, <1>2 DEF Call
  <1> QED BY <1>1, <1>3, NotNone DEF cmd

\* tunnel_exists ends, and the command is the one that fits, or the ioctl failed
\* for a reason of its own.
LEMMA LookForTunnelStep == ASSUME IInv, LookForTunnel PROVE IInv'
  <1> USE DEF IInv, TypeOK
  <1>1. call # None /\ call \in Call /\ call.pc = "look" BY DEF LookForTunnel, In
  <1>2. fds' = 0 BY <1>1 DEF SocketInUse, LookForTunnel
  <1>3. PICK there \in BOOLEAN : \E clean \in BOOLEAN :
          /\ Found(there, clean) /\ (there => tunnel # None)
          /\ clean => call.clean /\ (there <=> tunnel # None)
    <2>1. call.clean \in BOOLEAN BY <1>1, Fields
    <2>2. (tunnel # None) \in BOOLEAN OBVIOUS
    <2> QED BY <2>1, <2>2 DEF LookForTunnel
  <1>4. PICK clean \in BOOLEAN :
          Found(there, clean) /\ (clean => call.clean /\ (there <=> tunnel # None))
    BY <1>3
  <1>5. /\ call' \in Call /\ call' # None /\ call'.pc = "operate"
        /\ call'.cmd = IF there THEN "SIOCCHGTUNNEL" ELSE "SIOCADDTUNNEL"
        /\ call'.request = call.request /\ call'.clean = clean
        /\ UNCHANGED <<before, reply>>
    BY <1>1, <1>4, FoundCall
  <1>6. UNCHANGED <<device, owner, tunnel>> BY <1>4 DEF Found, kernelVars
  <1>7. TypeOK' BY <1>2, <1>5, <1>6
  <1>8. (SocketInUse /\ TunnelSoFar)' BY <1>1, <1>2, <1>5, <1>6 DEF SocketInUse, TunnelSoFar
  <1>9. CommandFits'
    <2>1. tunnel = before BY <1>1 DEF TunnelSoFar
    <2>2. call.request.fn # "delete_tunnel" BY <1>1 DEF CommandFits
    <2> QED BY <1>3, <1>4, <1>5, <1>6, <2>1, <2>2 DEF CommandFits
  <1>10. (IndexesKept /\ LinkOnWan /\ DeviceThere /\ FailureHasCause)'
    BY <1>1, <1>4, <1>5, <1>6 DEF IndexesKept, In, LinkOnWan, DeviceThere, FailureHasCause
  <1> QED BY <1>7, <1>8, <1>9, <1>10

\* tunnel_operate opens its socket once the arguments are complete.
LEMMA OperateStep == ASSUME IInv, Operate PROVE IInv'
  <1> USE DEF IInv, TypeOK
  <1> DEFINE ready == call.cmd = "SIOCDELTUNNEL" \/ HasParams
  <1>1. call # None /\ call \in Call /\ call.pc = "operate" BY DEF Operate, In
  <1>2. fds = 0 /\ UNCHANGED kernelVars /\ UNCHANGED tunnel BY <1>1 DEF SocketInUse, Operate
  <1>3. CASE ~ready /\ Return(-1, call.clean) /\ UNCHANGED fds
    <2>1. call.request.fn # "delete_tunnel" /\ call.request.remote \notin Remotes
      BY <1>1, <1>3 DEF CommandFits, HasParams
    <2>2. LinkOnWan' BY <1>2 DEF LinkOnWan, kernelVars
    <2>3. call.clean \in BOOLEAN BY <1>1, Fields
    <2> QED BY <1>1, <1>2, <1>3, <2>1, <2>2, <2>3, ReturnStep
  <1>4. CASE Fail("socket") /\ UNCHANGED fds BY <1>1, <1>2, <1>4, FailStep
  <1>5. CASE ready /\ fds' = fds + 1 /\ Goto("index") BY <1>1, <1>2, <1>5, GotoStep DEF Places
  <1> QED BY <1>3, <1>4, <1>5 DEF Operate

\* A net device that is gone ends the call; one that is there has an index.
LEMMA GetIndexStep == ASSUME IInv, GetIndex PROVE IInv'
  <1> USE DEF IInv, TypeOK
  <1> DEFINE index == device[call.request.netdev]
  <1>1. call # None /\ call \in Call /\ call.pc = "index" BY DEF GetIndex, In
  <1>2. fds = 1 /\ UNCHANGED kernelVars /\ UNCHANGED tunnel BY <1>1 DEF SocketInUse, GetIndex
  <1>3. CASE index = 0 /\ Return(-1, call.clean) /\ fds' = fds - 1
    <2>1. ~call.clean BY <1>1, <1>3 DEF DeviceThere
    <2>2. LinkOnWan' BY <1>2 DEF LinkOnWan, kernelVars
    <2>3. call.clean \in BOOLEAN /\ fds' = 0 BY <1>1, <1>2, <1>3, Fields
    <2> QED BY <1>1, <1>2, <1>3, <2>1, <2>2, <2>3, ReturnStep
  <1>4. CASE Fail("index") /\ fds' = fds - 1
    <2>1. fds' = 0 BY <1>2, <1>4
    <2> QED BY <1>1, <1>2, <1>4, <2>1, FailStep
  <1>5. CASE /\ index # 0
             /\ call' = [call EXCEPT !.pc = "command", !.link = index]
             /\ UNCHANGED <<fds, before, reply>>
    <2>1. call.request.netdev \in WANs BY <1>1, Fields
    <2>2. index \in Indexes /\ index \in 0..MaxIndex /\ owner[index] = call.request.netdev
      BY <1>5, <2>1, TunnelAssumption DEF Indexes, IndexesKept
    <2>3. /\ call' \in Call /\ call'.pc = "command" /\ call'.cmd = call.cmd
          /\ call'.request = call.request /\ call'.clean = call.clean
          /\ call'.link = index
      <3> HIDE DEF index
      <3> QED BY <1>1, <1>5, <2>2 DEF Call
    <2>4. call' # None BY <2>3, NotNone
    <2>5. UNCHANGED <<device, owner, tunnel, fds, before, reply>> BY <1>2, <1>5 DEF kernelVars
    <2>6. TypeOK' BY <2>3, <2>5
    <2>7. (SocketInUse /\ CommandFits /\ TunnelSoFar)'
      BY <1>1, <1>2, <2>3, <2>4, <2>5 DEF SocketInUse, CommandFits, TunnelSoFar
    <2>8. (IndexesKept /\ LinkOnWan /\ DeviceThere /\ FailureHasCause)'
      BY <1>1, <2>2, <2>3, <2>4, <2>5
      DEF IndexesKept, In, LinkOnWan, DeviceThere, FailureHasCause
    <2> QED BY <2>6, <2>7, <2>8
  <1> QED BY <1>3, <1>5, <1>4 DEF GetIndex

\* The command fails, removes the tunnel, or makes it what was asked for, with
\* the index the right net device had.
LEMMA CommandStep == ASSUME IInv, Command PROVE IInv'
  <1> USE DEF IInv, TypeOK
  <1>1. call # None /\ call \in Call /\ call.pc = "command" BY DEF Command, In
  <1>2. fds = 1 /\ UNCHANGED kernelVars /\ fds - 1 = 0 BY <1>1 DEF SocketInUse, Command
  <1>3. call.clean \in BOOLEAN /\ call.request \in Request BY <1>1, Fields
  <1>4. CASE Fail("command") /\ fds' = fds - 1 /\ UNCHANGED tunnel
    BY <1>1, <1>2, <1>4, FailStep
  <1>5. CASE Refused /\ Return(-1, call.clean) /\ fds' = fds - 1 /\ UNCHANGED tunnel
    <2>1. call.clean => call.request.fn = "delete_tunnel" /\ before = None
      <3>1. tunnel = before BY <1>1 DEF TunnelSoFar
      <3>2. CASE call.cmd = "SIOCADDTUNNEL" BY <1>1, <1>5, <3>1, <3>2 DEF Refused, CommandFits
      <3>3. CASE call.cmd = "SIOCDELTUNNEL" BY <1>1, <1>5, <3>1, <3>3 DEF Refused, CommandFits
      <3>4. CASE call.cmd = "SIOCCHGTUNNEL" BY <1>5, <3>4 DEF Refused
      <3> QED BY <1>1, <3>2, <3>3, <3>4, Fields
    <2>2. LinkOnWan' BY <1>2, <1>5 DEF LinkOnWan, kernelVars
    <2> QED BY <1>1, <1>2, <1>3, <1>5, <2>1, <2>2, ReturnStep
  <1>6. CASE /\ call.cmd = "SIOCDELTUNNEL"
             /\ tunnel' = None /\ Return(0, call.clean) /\ fds' = fds - 1
    <2>1. LinkOnWan' BY <1>6 DEF LinkOnWan
    <2> QED BY <1>1, <1>2, <1>3, <1>6, <2>1, ReturnStep
  <1>7. CASE /\ call.cmd # "SIOCDELTUNNEL"
             /\ tunnel' = Operated(tunnel) /\ Goto("up") /\ UNCHANGED fds
    <2>1. /\ call' \in Call /\ call' # None /\ call'.pc = "up" /\ call'.cmd = call.cmd
          /\ call'.request = call.request /\ call'.clean = call.clean
          /\ UNCHANGED <<before, reply>>
      BY <1>1, <1>7, GotoCall DEF Places
    <2>2. UNCHANGED <<device, owner, fds>> BY <1>2, <1>7 DEF kernelVars
    <2>3. tunnel = before BY <1>1 DEF TunnelSoFar
    <2>4. call.request.remote \in Remotes /\ call.request.local \in LocalAddrs
          /\ call.link \in Indexes /\ owner[call.link] = call.request.netdev
          /\ call.request.netdev = Home[call.request.local]
      BY <1>1, <1>7, Fields DEF CommandFits, IndexesKept, In
    <2>5. /\ tunnel'.remote = call.request.remote /\ tunnel'.local = call.request.local
          /\ tunnel'.link = call.link /\ tunnel'.up = (tunnel # None /\ tunnel.up)
      BY <1>7 DEF Operated
    <2>6. tunnel' \in Tunnel
      <3>1. (tunnel # None /\ tunnel.up) \in BOOLEAN OBVIOUS
      <3> QED BY <1>7, <2>4, <3>1 DEF Operated, Tunnel
    <2>7. tunnel' # None BY <2>6, NotNone
    <2>8. TypeOK' BY <2>1, <2>2, <2>6
    <2>9. (SocketInUse /\ CommandFits)'
      BY <1>1, <1>2, <1>7, <2>1, <2>2 DEF SocketInUse, CommandFits
    <2>10. TunnelSoFar' BY <2>1, <2>3, <2>5, <2>7 DEF TunnelSoFar
    <2>11. LinkOnWan' BY <2>2, <2>4, <2>5 DEF LinkOnWan
    <2>12. (IndexesKept /\ DeviceThere /\ FailureHasCause)'
      BY <1>1, <2>1, <2>2 DEF IndexesKept, In, DeviceThere, FailureHasCause
    <2> QED BY <2>8, <2>9, <2>10, <2>11, <2>12
  <1> QED BY <1>4, <1>5, <1>6, <1>7 DEF Command

\* set_if_up opens its socket, or fails to.
LEMMA SetIfUpStep == ASSUME IInv, SetIfUp PROVE IInv'
  <1>1. call # None /\ call \in Call /\ call.pc = "up" /\ fds = 1
    BY DEF SetIfUp, In, IInv, TypeOK, SocketInUse
  <1>2. UNCHANGED <<kernelVars, tunnel>> BY DEF SetIfUp
  <1>3. CASE Fail("socket") /\ fds' = fds - 1
    <2>1. fds' = 0 BY <1>1, <1>3
    <2> QED BY <1>1, <1>2, <1>3, <2>1, FailStep
  <1>4. CASE fds' = fds + 1 /\ Goto("flags")
    BY <1>1, <1>2, <1>4, GotoStep DEF Places
  <1> QED BY <1>3, <1>4 DEF SetIfUp

\* An update ends, with the tunnel up or as it was changed.
LEMMA SetFlagsStep == ASSUME IInv, SetFlags PROVE IInv'
  <1> USE DEF IInv, TypeOK
  <1>1. call # None /\ call \in Call /\ call.pc = "flags" BY DEF SetFlags, In
  <1>2. fds' = 0 /\ UNCHANGED kernelVars BY <1>1 DEF SocketInUse, SetFlags
  <1>3. CASE Fail("flags") /\ UNCHANGED tunnel
    BY <1>1, <1>2, <1>3, FailStep
  <1>4. CASE tunnel' = [tunnel EXCEPT !.up = TRUE] /\ Return(0, call.clean)
    <2>1. tunnel \in Tunnel BY <1>1 DEF TunnelSoFar
    <2>2. tunnel' \in Tunnel /\ tunnel'.link = tunnel.link /\ tunnel'.local = tunnel.local
      BY <1>4, <2>1 DEF Tunnel
    <2>3. LinkOnWan' BY <1>1, <1>2, <2>1, <2>2, NotNone DEF LinkOnWan, kernelVars
    <2>4. call.clean \in BOOLEAN BY <1>1, Fields
    <2>5. Return(0, call.clean) /\ tunnel' \in Tunnel \cup {None} BY <1>4, <2>2
    <2> HIDE DEF IInv, TypeOK
    <2> QED BY <1>1, <1>2, <2>3, <2>4, <2>5, ReturnStep
  <1> QED BY <1>3, <1>4 DEF SetFlags

\* Every step keeps the invariant.
LEMMA NextInv == IInv /\ [Next]_vars => IInv'
  <1> SUFFICES ASSUME IInv, [Next]_vars PROVE IInv' OBVIOUS
  <1>1. CASE \E w \in WANs : NetdevAppears(w) \/ NetdevVanishes(w)
    BY <1>1, NetdevAppearsStep, NetdevVanishesStep
  <1>2. CASE \E r \in Request : Execute(r) BY <1>2, ExecuteStep
  <1>3. CASE \/ TunnelExists \/ LookForTunnel
             \/ Operate \/ GetIndex \/ Command \/ SetIfUp \/ SetFlags
    BY <1>3, TunnelExistsStep, LookForTunnelStep, OperateStep, GetIndexStep, CommandStep,
       SetIfUpStep, SetFlagsStep
  <1>4. CASE UNCHANGED vars
    BY <1>4 DEF IInv, TypeOK, SocketInUse, CommandFits, TunnelSoFar, IndexesKept, In,
       LinkOnWan, DeviceThere, FailureHasCause, vars, kernelVars
  <1> QED BY <1>1, <1>2, <1>3, <1>4 DEF Next

-----------------------------------------------------------------------------
(* The invariants.                                                         *)

\* The invariant holds in every state of every behaviour.
LEMMA Invariance == Spec => []IInv
  BY InitInv, NextInv, PTL DEF Spec

\* Every reachable state of the module and the kernel is well typed.
THEOREM TypeCorrect == Spec => []TypeOK
  <1>1. IInv => TypeOK BY DEF IInv
  <1> QED BY <1>1, Invariance, PTL

\* When a function of the module has returned, tunnel_exists, tunnel_operate and
\* set_if_up have closed their sockets, whichever system call failed and whatever
\* became of the net device.
THEOREM NoSocketLeaks == Spec => []SocketsClosed
  <1>1. IInv => SocketsClosed BY DEF IInv, SocketInUse, SocketsClosed
  <1> QED BY <1>1, Invariance, PTL

\* The tunnel is never linked to an index of another WAN interface than that
\* of its local address, for any number of WAN interfaces and of changes.
THEOREM LinkedToWan == Spec => []LinkOnWan
  <1>1. IInv => LinkOnWan BY DEF IInv
  <1> QED BY <1>1, Invariance, PTL

\* A call fails only when a system call failed, the net device was gone, there
\* was no tunnel to delete, or the text given for the remote end is missing or is
\* no IPv6 address.
THEOREM FailuresExplained == Spec => []FailureHasCause
  <1>1. IInv => FailureHasCause BY DEF IInv
  <1> QED BY <1>1, Invariance, PTL

-----------------------------------------------------------------------------
(* The refinement.                                                         *)

AbstractTunnel == Seen(IF call = None THEN tunnel ELSE before)
AbstractRequest == IF call = None THEN None ELSE call.request
AbstractRv == IF reply = None THEN 0 ELSE reply.rv

\* What the plug-in sees of a tunnel.
LEMMA SeenTunnel ==
    /\ Seen(None) = None
    /\ \A t \in Tunnel : /\ Seen(t) # None
                         /\ Seen(t) = [remote |-> t.remote, local |-> t.local, up |-> t.up]
  <1>1. ASSUME NEW t \in Tunnel
        PROVE  [remote |-> t.remote, local |-> t.local, up |-> t.up] \in Shown
    BY Fields DEF Shown
  <1> QED BY <1>1, NotNone DEF Seen

\* At first there is no tunnel, or one an earlier process left.
LEMMA ServiceInit == Init => Service!Init
  <1> SUFFICES ASSUME Init PROVE Service!Init OBVIOUS
  <1>1. CASE tunnel = None
    BY <1>1, SeenTunnel DEF Init, Service!Init
  <1>2. CASE tunnel \in Tunnel
    <2> DEFINE r == [fn |-> "add_or_modify_tunnel", netdev |-> Home[tunnel.local],
                     local |-> tunnel.local, remote |-> tunnel.remote]
    <2>1. r \in Request BY <1>2, Fields, TunnelAssumption DEF Request
    <2>2. r.remote \in Remotes BY <1>2, Fields
    <2>3. Seen(tunnel) = Service!Between(r, tunnel.up) BY <1>2, SeenTunnel DEF Service!Between
    <2>4. tunnel.up \in BOOLEAN BY <1>2, Fields
    <2> QED BY <2>1, <2>2, <2>3, <2>4 DEF Init, Service!Init
  <1> QED BY <1>1, <1>2 DEF Init

\* The outcome of a call that returns now.
LEMMA ServiceAnswer ==
    ASSUME IInv, IInv', call # None, NEW rv \in {0, -1}, NEW clean \in BOOLEAN,
           Return(rv, clean),
           <<Seen(tunnel'), rv>> \in Service!Outcomes(Seen(before), call.request)
    PROVE  Service!Answer
  <1>1. call.request \in Request BY Fields DEF IInv, TypeOK
  <1>2. /\ call' = None
        /\ reply' = [request |-> call.request, rv |-> rv, clean |-> clean]
    BY DEF Return
  <1>3. reply' \in Reply BY <1>1, <1>2 DEF Reply
  <1>4. reply' # None /\ call.request # None BY <1>1, <1>3, NotNone
  <1>5. reply'.rv = rv BY <1>2
  <1> QED BY <1>2, <1>4, <1>5 DEF Service!Answer

\* A call that fails before the command leaves the tunnel as it was.
LEMMA ServiceRefused ==
    ASSUME IInv, call # None, UNCHANGED tunnel, call.pc \notin {"up", "flags"}
    PROVE  <<Seen(tunnel'), -1>> \in Service!Outcomes(Seen(before), call.request)
  <1>1. tunnel' = before BY DEF IInv, TunnelSoFar
  <1> QED BY <1>1 DEF Service!Outcomes, Service!Deletions, Service!Updates

\* Where the tunnel is only read, the call goes on or fails.
LEMMA EarlyStep ==
    ASSUME IInv, IInv', TunnelExists \/ LookForTunnel \/ Operate \/ GetIndex
    PROVE  Service!Answer \/ UNCHANGED <<AbstractTunnel, AbstractRequest, AbstractRv>>
  <1>1. /\ call # None /\ call.pc \notin {"up", "flags"} /\ call \in Call /\ UNCHANGED tunnel
        /\ call.clean \in BOOLEAN
    BY Fields DEF TunnelExists, LookForTunnel, Found, Operate, GetIndex, In, IInv, TypeOK
  <1>2. ASSUME NEW clean \in BOOLEAN, Return(-1, clean) PROVE Service!Answer
    BY <1>1, <1>2, ServiceRefused, ServiceAnswer
  <1>3. CASE \E clean \in BOOLEAN : Return(-1, clean) BY <1>2, <1>3
  <1>4. CASE /\ call' # None /\ call'.request = call.request
             /\ UNCHANGED <<before, reply>>
    BY <1>1, <1>4 DEF AbstractTunnel, AbstractRequest, AbstractRv
  <1>5. CASE TunnelExists
    <2>1. CASE Fail("socket") BY <1>3, <2>1 DEF Fail
    <2>2. CASE Goto("look") BY <1>1, <1>4, <2>2, GotoCall DEF Places
    <2> QED BY <1>5, <2>1, <2>2 DEF TunnelExists
  <1>6. CASE LookForTunnel
    <2>1. PICK there \in BOOLEAN : \E clean \in BOOLEAN : Found(there, clean)
      <3>1. (tunnel # None) \in BOOLEAN OBVIOUS
      <3> QED BY <1>1, <1>6, <3>1 DEF LookForTunnel
    <2>2. PICK clean \in BOOLEAN : Found(there, clean) BY <2>1
    <2> QED BY <1>1, <1>4, <2>2, FoundCall
  <1>7. CASE Operate
    <2>1. CASE Return(-1, call.clean) \/ Fail("socket") BY <1>1, <1>3, <2>1 DEF Fail
    <2>2. CASE Goto("index") BY <1>1, <1>4, <2>2, GotoCall DEF Places
    <2> QED BY <1>7, <2>1, <2>2 DEF Operate
  <1>8. CASE GetIndex
    <2>1. CASE Return(-1, call.clean) \/ Fail("index") BY <1>1, <1>3, <2>1 DEF Fail
    <2>2. CASE /\ call' = [call EXCEPT !.pc = "command", !.link = device[call.request.netdev]]
               /\ UNCHANGED <<before, reply>>
      <3>1. device[call.request.netdev] \in 0..MaxIndex BY <1>1, Fields DEF IInv, TypeOK
      <3>2. call' \in Call /\ call'.request = call.request BY <1>1, <2>2, <3>1 DEF Call
      <3> QED BY <1>4, <2>2, <3>2, NotNone
    <2> QED BY <1>8, <2>1, <2>2 DEF GetIndex
  <1> QED BY <1>5, <1>6, <1>7, <1>8

\* The command ends a deletion, or fails; an update goes on.
LEMMA CommandAnswer ==
    ASSUME IInv, IInv', Command
    PROVE  Service!Answer \/ UNCHANGED <<AbstractTunnel, AbstractRequest, AbstractRv>>
  <1>1. /\ call # None /\ call \in Call /\ call.pc = "command" /\ tunnel = before
        /\ call.clean \in BOOLEAN
    BY Fields DEF Command, In, IInv, TypeOK, TunnelSoFar
  <1>2. CASE (Fail("command") \/ Return(-1, call.clean)) /\ UNCHANGED tunnel
    <2>1. PICK clean \in BOOLEAN : Return(-1, clean) BY <1>1, <1>2 DEF Fail
    <2> QED BY <1>1, <1>2, <2>1, ServiceRefused, ServiceAnswer
  <1>3. CASE /\ ~Refused /\ call.cmd = "SIOCDELTUNNEL"
             /\ tunnel' = None /\ Return(0, call.clean)
    <2>1. call.request.fn = "delete_tunnel" BY <1>1, <1>3 DEF IInv, CommandFits
    <2>2. tunnel # None BY <1>3 DEF Refused
    <2>3. Seen(before) # None /\ Seen(tunnel') = None
      BY <1>1, <1>3, <2>2, SeenTunnel DEF IInv, TypeOK
    <2>4. <<Seen(tunnel'), 0>> \in Service!Outcomes(Seen(before), call.request)
      BY <2>1, <2>3 DEF Service!Outcomes, Service!Deletions
    <2> QED BY <1>1, <1>3, <2>4, ServiceAnswer
  <1>4. CASE Goto("up")
    <2>1. call' # None /\ call'.request = call.request /\ UNCHANGED <<before, reply>>
      BY <1>1, <1>4, GotoCall DEF Places
    <2> QED BY <1>1, <2>1 DEF AbstractTunnel, AbstractRequest, AbstractRv
  <1> QED BY <1>2, <1>3, <1>4 DEF Command

\* The end of an update, brought up or not.
LEMMA UpAnswer ==
    ASSUME IInv, IInv', SetIfUp \/ SetFlags
    PROVE  Service!Answer \/ UNCHANGED <<AbstractTunnel, AbstractRequest, AbstractRv>>
  <1> DEFINE r == call.request
             wasUp == before # None /\ before.up
  <1>1. /\ call # None /\ call \in Call /\ call.pc \in {"up", "flags"}
        /\ call.clean \in BOOLEAN
        /\ r.fn # "delete_tunnel" /\ r.remote \in Remotes
        /\ tunnel \in Tunnel
        /\ tunnel.remote = r.remote /\ tunnel.local = r.local /\ tunnel.up = wasUp
    BY Fields DEF SetIfUp, SetFlags, In, IInv, TypeOK, CommandFits, TunnelSoFar
  <1>2. Service!IsUp(Seen(before)) = wasUp
    <2>1. CASE before = None BY <2>1, SeenTunnel DEF Service!IsUp
    <2>2. CASE before \in Tunnel
      <3>1. before # None /\ Seen(before) # None /\ Seen(before).up = before.up
        BY <2>2, SeenTunnel, NotNone
      <3> QED BY <3>1 DEF Service!IsUp
    <2> QED BY <2>1, <2>2 DEF IInv, TypeOK
  <1>3. Service!Outcomes(Seen(before), r) =
          {<<Seen(before), -1>>, <<Service!Between(r, wasUp), -1>>, <<Service!Between(r, TRUE), 0>>}
    BY <1>1, <1>2 DEF Service!Outcomes, Service!Updates
  <1>4. CASE (Fail("socket") \/ Fail("flags")) /\ UNCHANGED tunnel
    <2>1. Seen(tunnel') = Service!Between(r, wasUp)
      BY <1>1, <1>4, SeenTunnel DEF Service!Between
    <2>2. Return(-1, FALSE) BY <1>4 DEF Fail
    <2>3. <<Seen(tunnel'), -1>> \in Service!Outcomes(Seen(before), r) BY <1>3, <2>1
    <2> QED BY <1>1, <2>2, <2>3, ServiceAnswer
  <1>5. CASE Goto("flags")
    <2>1. call' # None /\ call'.request = call.request /\ UNCHANGED <<before, reply>>
      BY <1>1, <1>5, GotoCall DEF Places
    <2> QED BY <1>1, <2>1 DEF AbstractTunnel, AbstractRequest, AbstractRv
  <1>6. CASE tunnel' = [tunnel EXCEPT !.up = TRUE] /\ Return(0, call.clean)
    <2>1. /\ tunnel' \in Tunnel /\ tunnel'.remote = r.remote /\ tunnel'.local = r.local
          /\ tunnel'.up = TRUE
      BY <1>1, <1>6 DEF Tunnel
    <2>2. Seen(tunnel') = Service!Between(r, TRUE) BY <2>1, SeenTunnel DEF Service!Between
    <2>3. <<Seen(tunnel'), 0>> \in Service!Outcomes(Seen(before), r) BY <1>3, <2>2
    <2> QED BY <1>1, <1>6, <2>3, ServiceAnswer
  <1> QED BY <1>4, <1>6, <1>5 DEF SetIfUp, SetFlags

\* Net devices that come and go are nothing the plug-in sees.
LEMMA NetdevUnseen ==
    ASSUME IInv, IInv', NEW w \in WANs, NetdevAppears(w) \/ NetdevVanishes(w)
    PROVE  UNCHANGED <<AbstractTunnel, AbstractRequest, AbstractRv>>
  <1>1. UNCHANGED <<tunnel, before, reply>> BY DEF NetdevAppears, NetdevVanishes
  <1>2. CASE call' = call BY <1>1, <1>2 DEF AbstractTunnel, AbstractRequest, AbstractRv
  <1>3. CASE call # None /\ call' = [call EXCEPT !.clean = FALSE]
    <2>1. call \in Call BY <1>3 DEF IInv, TypeOK
    <2>2. call' \in Call /\ call'.request = call.request BY <1>3, <2>1, CleanTyped
    <2> QED BY <1>1, <1>3, <2>2, NotNone DEF AbstractTunnel, AbstractRequest, AbstractRv
  <1> QED BY <1>2, <1>3 DEF NetdevAppears, NetdevVanishes

\* A call that begins is what the plug-in asks for.
LEMMA ExecuteAsks == ASSUME IInv, NEW r \in Request, Execute(r) PROVE Service!Ask
  <1>1. call = None /\ before' = tunnel /\ UNCHANGED reply BY DEF Execute
  <1>2. call' \in Call /\ call'.request = r
    BY TunnelAssumption DEF Execute, Call, IInv, TypeOK
  <1> QED BY <1>1, <1>2, NotNone DEF Service!Ask

\* Every step is one of TunnelService, or none that the plug-in sees.
LEMMA ServiceNext ==
    IInv /\ IInv' /\ [Next]_vars => [Service!Next]_Service!vars
  <1> SUFFICES ASSUME IInv, IInv', [Next]_vars PROVE [Service!Next]_Service!vars OBVIOUS
  <1>1. UNCHANGED <<AbstractTunnel, AbstractRequest, AbstractRv>> => UNCHANGED Service!vars
    BY DEF Service!vars, AbstractTunnel, AbstractRequest, AbstractRv
  <1>2. CASE \E w \in WANs : NetdevAppears(w) \/ NetdevVanishes(w)
    BY <1>1, <1>2, NetdevUnseen
  <1>3. CASE \E r \in Request : Execute(r) BY <1>3, ExecuteAsks DEF Service!Next
  <1>4. CASE TunnelExists \/ LookForTunnel \/ Operate \/ GetIndex
    BY <1>1, <1>4, EarlyStep DEF Service!Next
  <1>5. CASE Command BY <1>1, <1>5, CommandAnswer DEF Service!Next
  <1>6. CASE SetIfUp \/ SetFlags BY <1>1, <1>6, UpAnswer DEF Service!Next
  <1>7. CASE UNCHANGED vars
    BY <1>1, <1>7 DEF vars, AbstractTunnel, AbstractRequest, AbstractRv
  <1> QED BY <1>2, <1>3, <1>4, <1>5, <1>6, <1>7 DEF Next

\* dslite_ioctl.c implements TunnelService: for the plug-in, a call is one step
\* that changes the tunnel as TunnelService says, whatever happens between the
\* system calls it is made of.
THEOREM Implements == Spec => ServiceSpec
  BY Invariance, ServiceInit, ServiceNext, PTL DEF Spec, ServiceSpec, Service!Spec
=============================================================================
