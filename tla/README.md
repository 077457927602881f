# A verification project for tr181-dslite

`tr181-dslite` (v0.10.6) is the DS-Lite plug-in of a home gateway: it opens an
IPv4-in-IPv6 tunnel (`dslite0`) from the gateway to an AFTR, a tunnel
concentrator of the operator. The endpoint is a static IPv6 address, a static
name, or a name a DHCPv6 server provides. This directory holds TLA+ modules of
the plug-in, the TLC runs that check them on small instances, and theorems
checked by TLAPS. `PROJECT.json` lists components, runs, hazards, findings,
theorems and the source lines every definition stands for.

Paths below are relative to `src/tr181-dslite-v0.10.6/`.

## 1. The system

| Component | Source | State | Operations |
|---|---|---|---|
| Event handlers | `src/dm_dslite_events.c`, subscriptions in `odl/tr181-dslite_definition.odl:219-239` | the data model `DSLite.`: Enable, the instances of InterfaceSetting with their parameters and Status | eight handlers: instance added, DSLite.Enable, and one for each writable parameter |
| Interface state machine | `src/dslite_interface.c` | `dslite_intf_priv_t`: addresses, queries, timer | enable, disable, setup, collect the parameters, clean up |
| Utilities | `src/dslite_utils.c` | the retry timer | resolve a name, handle its answer, toggle the IP interfaces |
| NetModel queries | `src/dslite_netmodel.c` | one address and one DHCPv6 query per instance | open, close, two result callbacks |
| DNS query | `src/dslite_cares.c` | `dns_query_t`: channel, list of sockets, two timers | open, close, callbacks of c-ares, of the event loop and of the timers |
| Controller calls | `src/dslite_controller.c` | loaded modules | build the arguments, call a module |
| Firewall client | `src/firewall.c` | one service, `dslite` | set, delete |
| Tunnel controller | `mod-dslite-ioctl/src/dslite_ioctl.c` | the kernel's tunnel | exists, add, change, bring up, delete |
| Entry point | `src/dslite_main.c`, `odl/tr181-dslite.odl`, `odl/dslite_defaults/` | the saved parameters | start, save, stop |
| Validation | `src/dm_dslite_validate.c` | none | check one value |

How they interact: a user's write changes the data model at once and queues an
event; the event's handler runs later. Handlers open NetModel queries, whose
first result is reported before the open call returns, and DNS queries, whose
answer comes from the event loop (or from inside the call, or from inside the
call that closes the query). Callbacks and handlers end in
`setup_dslite_interface` or `disable_interface`, which call the controller, the
firewall and the IP manager and write Status.

What is hard: the process has one thread, so a handler is never interrupted, but
the *order* of handlers, callbacks and timers is open; handlers read the data
model as it is when they run, not as it was when the event was made; calls
outside fail in the middle of a sequence; objects are freed while pointers,
timers or queries refer to them; all instances share one tunnel, one firewall
service and two IP interfaces; a restart forgets everything but the kernel.

What makes each component correct:

- *handlers and state machine*: Status tells the truth about the tunnel; private
  data, and with it queries and timers, exists exactly for the instances that are
  enabled; the tunnel goes to the endpoint that is configured; an instance whose
  parameters are known is enabled in the end; a disabled one stays disabled.
- *name resolution and DNS query*: one answer for each lookup; a failed lookup is
  retried; nothing calls back after an object is freed; sockets and timers end
  with the query.
- *controllers and firewall*: what the kernel has is what was asked last, also
  when a step in the middle fails.
- *tunnel controller*: to the plug-in, a call is one step; it closes its sockets,
  links the tunnel to the right net device, and fails only for a reason.
- *start-up*: controllers are there before the first parameter is applied; no
  write is lost but in the second before it is saved; the next process comes up
  from whatever the last one left.

## 2. The modules

| Module | What it is |
|---|---|
| `DSLite` | the core: handlers, state machine, utilities, NetModel, and as much of the resolver, controller, firewall, IP manager and kernel as they need |
| `DSLiteBoot` | `DSLite` with its entry point: starts, saved parameters, stops, crashes, reboots |
| `Ip6Tunnel` | the tunnel controller module `mod-dslite-ioctl`, system call by system call |
| `TunnelService` | what the plug-in relies on when it calls that module; `Ip6Tunnel` implements it |
| `DnsQuery` | the DNS query object of `dslite_cares.c` in detail |
| `DnsLookup` | what the rest of the plug-in relies on when it opens a DNS query; `DnsQuery` implements it |
| `DSLite_proofs`, `DSLiteBoot_proofs`, `Ip6Tunnel_proofs`, `DnsQuery_proofs` | theorems about these modules |
| `DSLiteCalm_proofs`, `DSLiteBootCalm_proofs` | `DSLite` and `DSLiteBoot` under a user who waits (`CalmUser`) |
| `DSLiteBootTunnel_proofs` | the tunnel between processes, under such a user |
| `TunnelCall_proofs` | the calls `DSLite` makes are those of `TunnelService` |
| `MCDSLite`, `MCDSLiteBoot`, `MCIp6Tunnel`, `MCDnsQuery` | values of the constants for TLC |

`DSLiteBoot` extends `DSLite`. The tunnel is composed by contract: `DSLite` makes
a call in one step with the outcomes of `TunnelService` (`TunnelCall_proofs`), and
`Ip6Tunnel`, in which the call takes many steps, implements `TunnelService`
(`Ip6Tunnel_proofs`). The DNS query is tied more loosely, see below.

### DSLite

State: `conf`, `oper`, `readOnly` and `present` are the data model; `ptr` is
`if_obj->priv` and `heap` the private data blocks, a freed block being not
`alive` while `ptr` may still point to it, as `cleanup_private_data` leaves it;
`tunnel`, `firewall` and `ip` are the world outside; `queue` holds the events not
handled yet; `todo` is the loop of `_toggle_dslite` over the instances; `fault`
is a memory error, which ends a run (`Become` keeps nothing else of such a step).

Actions: `HandleAdded`, `HandleSetting`, `HandleDslite` and `ToggleDslite` are
the handlers, `TimerFires` is `dns_timer_cb`, `DnsAnswers` and
`DnsChannelExpires` come from the DNS query, `AddrChanges` and `DhcpChanges` from
NetModel, the others are users and restarts. Each is a whole handler. The
functions handlers call are operators from a state record to the set of states
they may end in, named after the functions (`Setup`, `Disable`, `CleanupPriv`,
`ResolveEndpointName`, ...), so a call made from several handlers is written once
and a failure inside a call leaves exactly what the code has done until then.

Abstractions: `local_addr` and `netdev` are one field, as they are written
together; IP addresses, names and interfaces are model values; the 5 s and 10 s
retry timers are one, since nothing depends on which is running; an event of an
instance lists the parameters one transaction changed and the handlers run in
the order of their subscriptions; transactions of the plug-in itself succeed; an
`EndpointAddress` that is no IPv6 address (the data model checks only its length)
is a member of `BadAddrs`, with which the controller module fails;
`TunnelInterface`, `TunneledInterface` and `Controller` keep their defaults;
`_toggle_dslite` visits one instance per step while nothing else may happen; a
freed block is reused only by the instance that pointed to it. What may go wrong
outside is the constant `Quirks`, which instances come and go and whether the
process restarts is `Churn`. One of the `Quirks`, `"stray"`, is about the two
timers of a DNS query that `resolve_endpoint_name` or the STATIC_IPV6 case frees
without deleting them first (`CloseWithTimers`): with it they end the run in a
memory error, as they may at any time until their memory is used again; without
it they do no harm. Either way such a query may be freed without an answer, when
its last socket was just closed. `Restart` is a stop that saves everything and a
start that succeeds, in one step; `DSLiteBoot` takes it apart.

NetModel, the kernel, the firewall, the IP manager and libamxd are not part of
the repository; they are modelled by what the calls to them may do.

### DSLiteBoot

State, beside that of `DSLite`: the `phase` of the process, the modules it has
`opened`, the parameters on `disk`, whether the timer that saves them runs
(`saving`), and, as history, the tunnel there was when the process started
(`left`).

`Start` is `dslite_init`: the bus context, the modules of
`DSLite.SupportedControllers`, those of `SupportedFWControllers`, then the saved
parameters, which queue the events `DSLite` handles. `InitOutcomes` follows its
early returns: the first step that fails ends it, and what was opened before
stays open. `Run(A)` is a step of `DSLite`, which starts the save timer when a
persistent parameter changes. `Save` writes `disk`; `Stop` is `dslite_cleanup`
and an orderly end; `Crash` may come at any time, also between two visits of
`_toggle_dslite`; `Reboot` clears the kernel's tunnel and perhaps the firewall.

The runtime (`amxrt`) is external. Assumed of it: it saves at an orderly stop and
not after a failed start (nothing was loaded that could be saved); the timer of
one second outlasts the events queued before it; a read-only `EndpointName` is
not persistent, as `dm_dslite_events.c:90` sets it.

### Ip6Tunnel and TunnelService

State: the interface index of each net device (`device`), whom each index was
given to (`owner`), the kernel's `tunnel`, the function the module is in with its
local variables (`call`), and how many sockets it has open (`fds`). `before` and
`reply` are history.

A function is a sequence of actions, one per system call but for `close`, which
belongs to the call before it: `TunnelExists` (its socket) and `LookForTunnel`
(its ioctl), `Operate` (the socket of `tunnel_operate`), `GetIndex`, `Command`
(the ioctl that adds, changes or deletes), `SetIfUp` (its socket) and `SetFlags`
(its ioctl). Each may fail for a reason of its own (`Faults`). A failure ends the
function (`Return`), except that of `LookForTunnel`, which the code reads as no
tunnel. An update also ends at `HasParams` when its remote address is missing or,
one of `BadRemotes`, no IPv6 address. Between any two actions a net device of a
WAN interface may vanish or appear with a new index. Assumed of the kernel: it makes no second `dslite0`, deletes none that is
not there, keeps the flags of a tunnel that is changed, keeps a tunnel whose
lower device vanished, and gives no index twice; nobody else touches `dslite0`.

`TunnelService` makes a call of two steps, `Ask` and `Answer`: an update that
returns 0 has the tunnel up between the addresses it was given; one that fails
leaves the old tunnel or the new addresses, no more up than before.
`ServiceSpec` is the refinement; its mapping shows the tunnel as it was before
the call until the call returns.

### DnsQuery and DnsLookup

A query object with its two timers, its list of sockets, and the channel of
c-ares behind it. c-ares is external: it may answer inside
`ares_getaddrinfo`, open a socket per server, time out, close the socket of a
server that refuses and go on with the next, ask for another name on the same
socket when it was configured with search domains (`search`, chosen when the
channel is made), and it ends a lookup (callback first, sockets closed
afterwards) when it is destroyed. `ResolveEndpointName` and `Clear` are the two
ways `dslite_utils.c` and `dslite_interface.c` use the object: the first closes a
query without deleting its timers, the second (also `cleanup_private_data`)
deletes them first. `Replacing = FALSE` restricts the first to a query at rest,
which the retry after 5 or 10 seconds finds. `answers` is a history variable.

`DnsLookup` has the phases of the field `dns` in `DSLite`. The two modules are
not composed: what the two timers of a freed query do is worked out in `DnsQuery`
(`FreedLeavesNothing`, `CallbackHasQuery`), and `DSLite` has only the outcome, the
quirk `"stray"`.

## 3. What the runs check

All bounds are in the `.cfg` files. `CHECK_DEADLOCK FALSE` is set where a run
really ends, after a fault or when no user writes any more; the passing runs of
`DnsQuery` and `Ip6Tunnel` check for deadlock.

| Run | Instance | Shows |
|---|---|---|
| `sequential` | one interface, one write at a time, everything but the firewall failing at will, an unknown WAN interface, an address that is none, restarts; 1.3 million states | `TypeOK`, `EnabledMeansTunnel`, `NoFault`, `PrivOnlyWhileActive`, `StaticAddressInUse`, `FirewallOnWan`, `NotEnabledWhileInactive` |
| `reliable` | one interface, nothing fails but lookups, WANInterface changed and emptied, two WAN interfaces whose addresses come and go, an EndpointAddress that is none; 307,000 states | under fairness `EventuallyEnabled` |
| `overlap` | a second write while an event is queued, the instance deleted and added again enabled, stray timers; 1.7 million states | `EnabledMeansTunnel` |
| `two_instances` | a second instance added, restarts; 198,000 states | `NoFault`, `PrivOnlyWhileActive`, `NameWritableWhenStatic` |
| `boot` | every failure of the start-up, stops, crashes and reboots, one interface with a static address or DHCPv6; 219,000 states | `BootTypeOK`, `ControllersFirst`, `SavedWhenIdle`, `OnlyLeftTunnel`, `PrivOnlyWhileActive`, and under fairness `ComesUpAgain` |
| `tunnel_calls` | two WAN interfaces, two addresses at each end, a remote one that is none, three interface indexes, every system call failing at will; 1.1 million states | `TypeOK`, `SocketsClosed`, `LinkOnWan`, `FailureHasCause`, and that `Ip6Tunnel` implements `TunnelService` (`ServiceSpec`) |
| `dns_query` | two allocations, three servers and sockets, with and without search domains, fair timers; 4,900 states | `TypeOK`, `SocketsWatched`, `FreedLeavesNothing`, that `DnsQuery` implements `DnsLookup` (`LookupSpec`), and `LookupAnswered` |

Bounds and why they are enough:

- `PrivIds`: two private data blocks, since an instance uses one at a time unless
  it is enabled twice, and a second one tells a freed block from its successor.
  `reliable`, where the user waits and no memory error is asked about, has one.
- `Overlap` bounds the events queued while a user writes: 1 means the user waits
  until the event was handled, 2 that a second write meets a queued event.
  `MaxQueue` bounds what DHCP adds to the queue.
- One value of each kind (name, static address, DNS answer) is enough where a
  property only compares it with none or with one of another kind; the runs about
  the WAN interface have two of them with an address each, and `sequential` and
  `reliable` a second static address, which is no IPv6 address.
- `MaxIndex`: with three indexes both net devices can be there and one of them
  come back with a new index, during a call and between two. A run ends up with
  no index to give, but calls go on.
- Three servers let a lookup time out, be refused and go on in every order; two
  allocations let a query be replaced by another one, or by one at its own address.
- `boot` has one module in each list; the theorem `ControllersAlwaysFirst` is
  about lists of any length.

`Permutations(PrivIds)` is used as symmetry in safety runs only: the blocks
differ only in who points to them.

Fairness. `reliable` assumes that the loop handles its events and fires the
retry timer (weak fairness: one thread, nothing starves another
handler), and that a resolver that is asked for ever answers with an address some
time (strong fairness, because each retry makes a new lookup and a failure ends
it). Users and NetModel owe nothing: `Wanted` says the parameters stay known.
`boot` assumes the same of the steps of a process that runs, and nothing of
starts: `ComesUpAgain` is about a plug-in that stays running in the end.
`dns_query` assumes only that the event loop fires timers; no server ever has to
answer. `tunnel_calls` needs no fairness.

Where a property does not hold the code decides it, and the limits are
deliberate:

- `EnabledMeansTunnel` is about one instance, because a second enabled one takes
  `dslite0` over.
- `PrivOnlyWhileActive` and `NoFault` need a user who waits and changes one
  parameter per transaction. Even for such a user `NoFault` is about everything
  but the timers of a freed DNS query: with the quirk `"stray"` switched on in
  `sequential` TLC violates it, for two names a DHCPv6 server reports, or a user
  writes, while a lookup is pending, are enough.
- `FirewallOnWan` needs a firewall that does not fail, because `open_firewall`'s
  result is ignored.
- Once WANInterface was empty, `EventuallyEnabled` is about an endpoint that was
  found: one that was not known then is not looked for when WANInterface is set
  again, because `_wan_interface_changed` opens only the address query.
- `SavedWhenIdle` speaks of an idle plug-in whose timer has fired, and leaves out
  names that are not persistent yet.
- `OnlyLeftTunnel` lets the tunnel of an earlier process stay, because
  `disable_interface` takes down only what this process set up.
- `LookupAnswered` needs a lookup without search domains, because `timer_dns` is
  started only for a new socket.

The hazards in `PROJECT.json` give the line of each. Some have no property, as
what can go wrong does go wrong and nothing in the repository says that it should
not; the note of each says which property leaves it out. In the plug-in these
are: a transaction that makes two handlers close one query, the private data that
two Enable writes leak, a lookup that is never retried when c-ares cannot make a
channel, the endpoint that stays unknown after WANInterface was empty, the
firewall that fails, two enabled instances, instances added enabled, deleted
instances, a process that stops right after it started and loses a static name,
and the tunnel of an earlier process. In the DNS query: the lookup that the
destroy timer ends early, and the one with search domains that is lost. In the
tunnel controller: the tunnel that cannot be deleted without its net device, and
the failing ioctl that is read as no tunnel.

Runs that find a violation compare the code with what the repository says:

- `dns_replaced`: `resolve_endpoint_name` closes a query whose lookup is pending
  without deleting its timers; the destroy timer then runs on freed memory
  (writing EndpointName twice within five seconds is enough), although its
  callback asserts that it has a query (`dslite_cares.c:89`).
- `release_note`: v0.5.4 removes `dslite0` when Status is Error; a setup that
  fails on an Enabled interface leaves it.
- `disabled_status`: the event test expects Disabled after Enable is written
  false; with a lookup pending, closing it writes Error afterwards.
- `local_address`: LocalAddress is the address in use; after the WAN interface
  lost its address, an answer of the resolver (or a write of WANInterface) enables
  the tunnel from the address that was lost.
- `no_address`: EndpointAddressInUse is empty if no address is known; an address
  report brings the removed static address back.

Each property of a passing run has a mutant, an operator next to the original
that changes it as a plausible defect would, under which the run fails.

## 4. What is proved

For all values of the constants that satisfy the assumption of the module:

| Module | Theorem | States |
|---|---|---|
| `DSLite_proofs` | `TypeCorrect` | `Spec => []TypeOK` |
| | `SoleInterfaceTunnel` | with one instance, `Spec => []EnabledMeansTunnel` |
| `DSLiteBoot_proofs` | `BootTypeCorrect` | `BootSpec => []BootTypeOK` |
| | `ControllersAlwaysFirst` | `BootSpec => []ControllersFirst` |
| | `TunnelThroughRestarts` | with one instance, `BootSpec => []EnabledMeansTunnel` |
| `DSLiteCalm_proofs` | `CalmNoFault`, `CalmPrivOnlyWhileActive`, `CalmStaticAddressInUse`, `CalmNameWritable` | under `CalmUser` and `NoStray`, `Spec => []` of `NoFault`, `PrivOnlyWhileActive`, `StaticAddressInUse`, `NameWritableWhenStatic` |
| | `CalmFirewallOnWan` | under `CalmUser` and `NoStray`, with one instance and a firewall that does not fail, `Spec => []FirewallOnWan` |
| | `CalmNotEnabledWhileInactive` | under `CalmUser` and `NoStray`, `Spec => NotEnabledWhileInactive`, an action property |
| `DSLiteBootCalm_proofs` | `CalmThroughRestarts` | under `CalmUser` and `NoStray`, `BootSpec => []` of the first four of these |
| | `SavedOnceIdle` | under `CalmUser` and `NoStray`, `BootSpec => []SavedWhenIdle` |
| `DSLiteBootTunnel_proofs` | `OnlyTheTunnelLeft` | under `CalmUser`, `NoStray`, `KernelWorks` and `SteadyWan`, `BootSpec => []OnlyLeftTunnel` |
| `Ip6Tunnel_proofs` | `TypeCorrect`, `NoSocketLeaks`, `LinkedToWan`, `FailuresExplained` | `Spec => []` of `TypeOK`, `SocketsClosed`, `LinkOnWan`, `FailureHasCause` |
| | `Implements` | `Spec => ServiceSpec` |
| `DnsQuery_proofs` | `TypeCorrect` | `Spec => []TypeOK` |
| | `Watching`, `NothingLeft`, `CallbackSafe` | where the caller waits (`~Replacing`), `Spec => []` of `SocketsWatched`, `FreedLeavesNothing`, `CallbackHasQuery` |
| | `Implements` | where the caller waits, `Spec => LookupSpec` |
| `TunnelCall_proofs` | `UpdateAsServed`, `DeleteAsServed` | the outcomes of `UpdateTunnel` and `DeleteTunnel` are those of `TunnelService` |

**DSLite.** `EnabledMeansTunnel` is not inductive. `disable_interface` takes the
tunnel down and then writes Status, but writes nothing when the instance has no
private data; an Enabled instance without private data would be left with its
Status. The invariant `IInv` therefore adds (`TunnelLinked`) that an Enabled
instance has private data. Each function of the model gets one lemma: applied to
a state that satisfies `IInv` (or the part of it the function needs) it yields
only such states, or a fault. One lemma per action lifts them to steps, and the
temporal step closes the induction. The proof does not use what is in the
private data, only that it is there. It holds for any number of allocations, any
transactions, any failures, deletions, restarts and overlapping events, and needs
from the constants only that the names of things are not `None`, that `Home` maps
addresses to WAN interfaces, and that `Ifs` is a finite set of numbers (the
events of a start-up are ordered by them).

**DSLiteBoot.** `BootInv` is `IInv`, `BootTypeOK`, and two facts: a process that
is not running has forgotten everything (`Forgotten`: no event, no instance, no
live block, no Enabled Status), and one that is running has opened every module.
The first is why a reboot may take the tunnel away and a start may find any
tunnel; the second follows from `InitOutcomesResult`, by cases on the step of
`dslite_init` that failed. `NextInv` of `DSLite_proofs` covers the steps of `Run`.

**Ip6Tunnel.** `IInv` adds to the properties what relates the place in the code
to the rest: how many sockets are open where, one in `tunnel_exists` and in
`tunnel_operate` and two while `set_if_up` has its own (`SocketInUse`), the command fits the function and what `tunnel_exists` found,
and who needs the remote address has it (`CommandFits`), the tunnel is the old one
before the command and the new one after it (`TunnelSoFar`), an index once given
stays with its device (`IndexesKept`), and a call that nothing disturbed has its
net device (`DeviceThere`). The refinement uses `TunnelSoFar` for the mapping:
only the step that returns changes what the plug-in sees, all others stutter.

**TunnelCall.** Both inclusions: no outcome of `DSLite` is impossible for the
module, and with the failures switched on (`Quirks`) none the module may have is
left out, so that what is checked and proved of `DSLite` covers the module.

**DSLite under a calm user.** The properties that relate the private data and
the data model once the events are handled (`Quiet`) say nothing of the states
between; the invariant `CalmInv` (`IInv`, and `Calm` of the state) does. Its base
says that what is queued fits what the data model has now (`QueueCalm`), that the
live blocks and the instances point to each other and a freed block holds nothing
(`Owned`), and what is left of a loop of `_toggle_dslite` (`Visiting`). On top of
it each instance has four facts, each relaxed by the events it still waits for:
it has private data exactly when the values of the two Enables *as the handlers
have seen them so far* are true (`LifetimeAt`); where its address is static,
nothing is left of a lookup, a DHCP query or a timer, and the address is used
(`StaticAt`); the firewall is open on its WAN interface (`WanAt`); EndpointName is
read-only exactly for DHCPv6 (`AccessAt`). When the queue is empty nothing is
relaxed, which gives the properties. Each function gets lemmas on what it may
change (`Within`: one instance and its block, and events of that instance's name
at the end of the queue), so that a handler is reasoned about by what it calls;
callbacks are steps `ByOne` and cannot give an instance private data, which is why
they enable nobody who is not active: the action property. At a start the queue
is `Boot`, whose events are those of all saved instances: an increasing sequence
as long as the set is finite meets every member (`OrderComplete`).

`CalmUser` is three conditions on the constants: no write while an event is
queued, one parameter in a transaction, no instance deleted or added enabled.
None can be left out: with any one of them dropped, and the other two kept, TLC
finds a state that violates `NoFault`. (The event of a parameter that is handled
after DSLite.Enable was written, but before that event, finds no private data;
a transaction on the precedence and the address has the first handler free a DNS
query and the second close it again; NetModel calls back for a deleted instance;
an instance that is added enabled gets no private data, and the next write of a
parameter needs it.) `NoStray` is a fourth condition, on the world outside: the
timers of a freed DNS query do no harm. A calm user does not ensure it, and
without it `NoFault` is false; what the theorems say of such a user is that
nothing else goes wrong. Nothing more is assumed: all other `Quirks`, restarts,
any number of instances and blocks, any lists of addresses and names.

**DSLiteBoot under a calm user.** `CalmBootInv`: a process that runs satisfies
`CalmInv`, one that does not run knows nothing (`Blank`), and no instance that is
not saved is saved as enabled, which is what a start needs for `CalmInv`. For
`SavedWhenIdle` the invariant `SavingInv` adds what is true while the plug-in is
*not* idle. EndpointName becomes persistent when the event of its instance, or of
its precedence, is handled, and a change of what is persistent starts no timer by
itself; so the invariant says that an instance still to be added has no private
data (`Fresh`: nobody but a user writes its parameters) and the same name as on
disk, and that with no save due no event of a precedence is queued. `Unwritten`
is what a step of anybody but a user preserves of this.

**The tunnel between processes.** `TunnelInv` adds to `CalmBootInv` that in a
process that runs the tunnel is either gone, or the one that was `left`, or there
is an Enabled instance; that an Enabled instance has the net device of its WAN
interface, without which `delete_dslite_tunnel` does nothing (`Traced`); that no
event of WANInterface is queued (`NoWan`); and that no WANInterface is empty, here
or on disk. `KernelWorks` lets no ioctl and no call of the IP manager fail:
`setup_dslite_interface` and `disable_interface` give up at the first error and
leave what the calls before it did; for the same reason it asks that an
`EndpointAddress` be an address. `SteadyWan`: an emptied WANInterface takes the
net device away. None can be left out: TLC violates `OnlyLeftTunnel` with any
single one of the four `Quirks` switched on, with an address that is none, and
with writes of WANInterface. The
firewall, NetModel and the resolver may fail as they like.

**DnsQuery.** The invariant is `TypeOK`, `Clean` and `Owned`. `Clean` says of
each query (`QueryOK`) how its state, its channel, the lookup, the sockets and the
two timers fit together: a query that was freed or never made has no channel, no
socket and no destroy timer that runs; the list of a live one is what its channel
has open; a lookup that runs has a channel and no answer yet, and one that is over
has no socket and no running timer for the answer; and of the event loop
(`WatchedOK`) that it watches a socket for a query exactly when that query's
channel has it open. `Owned` says that the live query is the current one.
`FreedLeavesNothing` is not inductive alone: what a callback may still do after
`free` depends on the lookup, the sockets and the timers at the moment before. Hypothesis `~Replacing`, that
`resolve_endpoint_name` finds a query at rest, is needed: without it the run
`dns_replaced` violates `CallbackHasQuery`. `TypeCorrect` holds without it, and
says that even then no query is answered twice. The refinement shows of each
action which step of `DnsLookup` it is; closing a query that is pending, with
the answer c-ares gives inside, is one.

These inductive invariants were checked with TLC before they were proved:
`CalmInv` on the instances of `sequential` and `two_instances`; `CalmBootInv` and
`SavingInv` on that of `boot`, there also with `Quirks` and with other writes
and two names; `TunnelInv` with the `Quirks` it allows and transactions of the
precedence, address, Enable, type and name.

Only model-checked: liveness under fairness (`EventuallyEnabled`, `ComesUpAgain`,
`LookupAnswered`), which is beyond TLAPS, as is ENABLED. `EnabledMeansTunnel` with
overlapping writes, deletions and instances added enabled is proved, as it needs
no calm user. Every safety property and the action property of a passing run is
stated by a theorem. Those with a hypothesis are checked by runs whose constants
satisfy it: `sequential` and `two_instances` are calm and without stray timers,
`boot` is so, too, and satisfies `KernelWorks` and `SteadyWan`, `dns_query` has no `Replacing`.

## 5. Not modelled

- *Parameter validation* (`dm_dslite_validate.c`): a pure check of one value
  against a fixed format; the model writes only values that pass.
- *Data model mapping, capabilities, packaging, init script*: declarations and
  build files without behaviour of their own.
- The parameter `Controller` and the two IP interface parameters keep their
  defaults; the module a call is made to is therefore always the same.
- `DSLite` and `DnsQuery` as one state machine, see section 2.
- Two plug-ins, or another program, that touch `dslite0`.
- Formatting and logging throughout.

## 6. Plan

1. `DSLite`, `DnsQuery`, `DnsLookup`, their runs and the first two theorems: done.
2. `Ip6Tunnel`, `TunnelService` and the proofs that tie them to `DSLite`: done.
3. `DSLiteBoot`, its run and theorems; liveness over
   changes of WANInterface: done.
4. Proofs: `DnsQuery` and its refinement of `DnsLookup`; the remaining safety
   properties of `DSLite` and `DSLiteBoot` under a calm user: done.
5. `DSLite` with `DnsQuery` as its resolver, so that a freed query is one error
   in the whole plug-in.
