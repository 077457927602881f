----------------------------- MODULE DSLiteBoot -----------------------------
(***************************************************************************)
(* The plug-in from its start to its end, over and over: DSLite with the   *)
(* entry point of dslite_main.c, the controllers it opens, and the file    *)
(* its parameters are saved in.                                            *)
(*                                                                         *)
(* dslite_init opens the configuration controllers and the firewall        *)
(* controllers and then loads the saved parameters, or the defaults when   *)
(* there are none; it stops at the first step that fails.  While the       *)
(* plug-in runs, a change of a persistent parameter starts a timer of one  *)
(* second (dm-save-delay) that saves all of them; an orderly stop saves    *)
(* them, too.  A crash does not, and a reboot of the gateway takes the     *)
(* tunnel with it, which the plug-in alone never does.                     *)
(*                                                                         *)
(* The runtime that saves is external.  It ends a process whose start      *)
(* failed, without saving what was never loaded.                           *)
(***************************************************************************)
EXTENDS DSLite

CONSTANTS
    Controllers,    \* DSLite.SupportedControllers, in their order
    FWControllers,  \* DSLite.SupportedFWControllers, in their order
    StartFaults     \* what may fail when the plug-in starts

ASSUME BootAssumption ==
    /\ Controllers \in Seq(STRING) /\ FWControllers \in Seq(STRING)
    /\ StartFaults \subseteq {"bus", "open", "load"}

VARIABLES
    phase,    \* "stopped", "failed" (the start did) or "running"
    opened,   \* the modules that are open
    disk,     \* the saved parameters
    saving,   \* the timer that saves them is running
    left      \* history: the tunnel that was there when the process started

bootVars == <<phase, opened, disk, saving, left>>
allVars  == <<vars, bootVars>>

Stored(i, c) == IF i \in readOnly THEN [c EXCEPT !.name = None] ELSE c

\* The persistent parameters: EndpointName where it was made persistent.
Persistent == [enable |-> dslEnable, present |-> present,
               conf |-> [i \in Ifs |-> Stored(i, conf[i])]]

-----------------------------------------------------------------------------
(* Starting.                                                               *)

Elements(list) == {list[k] : k \in DOMAIN list}

\* load_controllers, with dslite_open_controllers: the modules before the
\* first one that cannot be opened stay open.
OpenControllers(list) ==
    {[opened |-> Elements(SubSeq(list, 1, k)), rv |-> IF k = Len(list) THEN 0 ELSE -1] :
       k \in IF "open" \in StartFaults THEN 0..Len(list) ELSE {Len(list)}}

Failing(kind, outcome) == IF kind \in StartFaults THEN {outcome} ELSE {}

\* Defect: the result of opening the firewall controllers is not looked at.
InitOutcomesUnchecked ==
    UNION {IF c.rv # 0 THEN {c}
           ELSE {[opened |-> c.opened \cup f.opened, rv |-> 0] :
                    f \in OpenControllers(FWControllers)} :
             c \in OpenControllers(Controllers)}

\* dslite_init: the bus context, the configuration controllers, the firewall
\* controllers, the saved parameters.  What was done before a failure stays.
InitOutcomes ==
    Failing("bus", [opened |-> {}, rv |-> -1])
    \cup UNION {IF c.rv # 0 THEN {c}
                ELSE UNION {LET both(rv) == [opened |-> c.opened \cup f.opened, rv |-> rv]
                            IN  IF f.rv # 0 THEN {both(-1)}
                                ELSE {both(0)} \cup Failing("load", both(-1)) :
                              f \in OpenControllers(FWControllers)} :
                  c \in OpenControllers(Controllers)}

\* Defect: the parameters are loaded without the events of their values.
LoadSilently ==
    /\ dslEnable' = disk.enable /\ present' = disk.present /\ conf' = disk.conf
    /\ readOnly' = disk.present
    /\ queue' \in Boot(disk.present, FALSE)
    /\ UNCHANGED <<oper, ptr, heap, envVars, todo, todoEnable, fault>>

\* ODL_INCLUDE: the saved file or the defaults.  EndpointName is read-only, and
\* not persistent, until the event of its instance is handled.
Load ==
    /\ dslEnable' = disk.enable /\ present' = disk.present /\ conf' = disk.conf
    /\ readOnly' = disk.present
    /\ queue' \in Boot(disk.present, disk.enable)
    /\ UNCHANGED <<oper, ptr, heap, envVars, todo, todoEnable, fault>>

Start ==
    /\ phase = "stopped"
    /\ \E o \in InitOutcomes :
         /\ opened' = o.opened
         /\ phase' = IF o.rv = 0 THEN "running" ELSE "failed"
         /\ IF o.rv = 0 THEN Load ELSE UNCHANGED vars
    /\ left' = tunnel
    /\ UNCHANGED <<disk, saving>>

-----------------------------------------------------------------------------
(* Running.                                                                *)

\* Defect: only a write of DSLite.Enable is saved.
TouchedEnable == dslEnable' # dslEnable

\* A persistent parameter changes.
Touched == \/ dslEnable' # dslEnable \/ present' # present
           \/ \E i \in present : Stored(i, conf'[i]) # Stored(i, conf[i])

Run(A) ==
    /\ phase = "running" /\ A
    /\ saving' = (saving \/ Touched)
    /\ UNCHANGED <<phase, opened, disk, left>>

\* The timer is long enough for the events queued before it to be handled.
Save ==
    /\ phase = "running" /\ Running /\ queue = <<>> /\ saving
    /\ disk' = Persistent /\ saving' = FALSE
    /\ UNCHANGED <<vars, phase, opened, left>>

-----------------------------------------------------------------------------
(* Ending.                                                                 *)

\* What the process knew is gone: its data model, private data and events.
Gone ==
    /\ phase' = "stopped" /\ saving' = FALSE
    /\ dslEnable' = FALSE /\ present' = {} /\ readOnly' = {}
    /\ conf' = [i \in Ifs |-> DefaultConf]
    /\ oper' = [i \in Ifs |-> DefaultOper]
    /\ ptr' = [i \in Ifs |-> None]
    /\ heap' = [p \in PrivIds |-> BlankPriv]
    /\ queue' = <<>> /\ todo' = {} /\ todoEnable' = FALSE /\ fault' = None
    /\ UNCHANGED left

\* Defect: the modules are not closed.
StopKeepingModules ==
    /\ phase # "stopped" /\ Running
    /\ Gone
    /\ disk' = IF phase = "running" THEN Persistent ELSE disk
    /\ UNCHANGED <<opened, envVars>>

\* dslite_cleanup, between two events, closes the modules and takes down
\* nothing else.
Stop ==
    /\ phase # "stopped" /\ Running
    /\ Gone
    /\ opened' = {}
    /\ disk' = IF phase = "running" THEN Persistent ELSE disk
    /\ UNCHANGED envVars

\* The process ends at any time, also in the middle of _toggle_dslite.
Crash == phase # "stopped" /\ Gone /\ opened' = {} /\ UNCHANGED <<disk, envVars>>

\* The gateway starts again, with or without a crash before: the kernel has no
\* tunnel, and the other services may have kept what they were told.
Reboot ==
    /\ phase = "stopped"
    /\ tunnel' = None /\ firewall' \in {None, firewall}
    /\ UNCHANGED <<dmVars, ptr, heap, ip, loopVars, bootVars>>

-----------------------------------------------------------------------------
BootInit ==
    /\ dslEnable = FALSE /\ present = {} /\ readOnly = {}
    /\ conf = [i \in Ifs |-> DefaultConf]
    /\ oper = [i \in Ifs |-> DefaultOper]
    /\ ptr = [i \in Ifs |-> None]
    /\ heap = [p \in PrivIds |-> BlankPriv]
    /\ tunnel = None /\ firewall = None
    /\ ip = [tunneled |-> FALSE, lower |-> None, tunnel |-> FALSE]
    /\ queue = <<>> /\ todo = {} /\ todoEnable = FALSE /\ fault = None
    /\ phase = "stopped" /\ opened = {} /\ saving = FALSE /\ left = None
    /\ disk = [enable |-> FALSE, present |-> Provisioned,
               conf |-> [i \in Ifs |-> [DefaultConf EXCEPT !.enable = i \in Provisioned]]]

BootNext ==
    \/ Start \/ Save \/ Stop \/ Crash \/ Reboot
    \/ Run(Loop) \/ Run(Timers) \/ Run(Resolver) \/ Run(NetModel) \/ Run(Users)

BootSpec == BootInit /\ [][BootNext]_allVars

\* What FairSpec assumes, while the plug-in runs.
FairBootSpec ==
    /\ BootSpec
    /\ WF_allVars(Run(Loop))
    /\ \A p \in PrivIds :
         /\ WF_allVars(Run(TimerFires(p)))
         /\ SF_allVars(Run(\E a \in DnsAddrs : DnsAnswers(p, a)))

-----------------------------------------------------------------------------
(* Properties.                                                             *)

\* Every variable has the type its declaration describes, and a process that
\* ended has no module open.
BootTypeOK ==
    /\ TypeOK
    /\ phase \in {"stopped", "failed", "running"}
    /\ opened \subseteq Elements(Controllers) \cup Elements(FWControllers)
    /\ disk \in [enable : BOOLEAN, present : SUBSET Ifs, conf : [Ifs -> Conf]]
    /\ saving \in BOOLEAN
    /\ left \in Tunnel \cup {None}
    /\ phase = "stopped" => opened = {}

\* dslite_main.c: the configuration is applied after the modules are loaded.
\* Here: in no process, whatever failed when it started, is an event of a
\* parameter handled, or a callback registered, before every supported
\* controller is open, so no call to one can miss it.
ControllersFirst ==
    queue # <<>> \/ (\E p \in PrivIds : heap[p].alive) \/ present # {} =>
        opened = Elements(Controllers) \cup Elements(FWControllers)

\* Once the events are handled and no save is due, a crash leaves to the next
\* process what this one has, up to names that are not persistent: no write is
\* forgotten, also when a process ends with events it did not handle.
SavedWhenIdle ==
    phase = "running" /\ Quiet /\ ~saving =>
        /\ disk.enable = dslEnable /\ disk.present = present
        /\ \A i \in present : Stored(i, disk.conf[i]) = Stored(i, conf[i])

\* Where the kernel and the firewall do not fail: a tunnel that exists while no
\* instance is Enabled was there when the process started.  However processes
\* crash and start, none leaves a tunnel of its own making but by ending.
OnlyLeftTunnel ==
    phase = "running" /\ tunnel # None =>
        tunnel = left \/ \E i \in present : oper[i].status = "Enabled"

\* However often the plug-in was stopped, crashed or was started in vain, and
\* whatever tunnel it left: an instance for which everything is there once the
\* plug-in stays running is Enabled again and again.
ComesUpAgain ==
    \A i \in Ifs : <>[](phase = "running" /\ Wanted(i))
                      => []<>(oper[i].status = "Enabled")
=============================================================================
