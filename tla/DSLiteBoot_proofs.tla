------------------------- MODULE DSLiteBoot_proofs -------------------------
(***************************************************************************)
(* Theorems about the plug-in from its start to its end, over and over:    *)
(* what DSLite_proofs shows of one process holds through all of them, and  *)
(* no process runs without its controllers.                                *)
(***************************************************************************)
EXTENDS DSLiteBoot, DSLite_proofs

\* The modules of all supported controllers.
Modules == Elements(Controllers) \cup Elements(FWControllers)

\* A process that is not running has handled nothing and left nothing behind
\* in its memory.
Forgotten ==
    /\ queue = <<>> /\ present = {}
    /\ \A p \in PrivIds : ~heap[p].alive
    /\ \A i \in Ifs : oper[i].status # "Enabled"

\* The inductive invariant: DSLite's, and a process that is running has opened
\* every controller.
BootInv ==
    /\ IInv /\ BootTypeOK
    /\ phase # "running" => Forgotten
    /\ phase = "running" => opened = Modules

-----------------------------------------------------------------------------
(* Starting.                                                               *)

\* The modules of a list, of which the first k were opened.
LEMMA OpenControllersResult ==
    ASSUME NEW list \in Seq(STRING), NEW c \in OpenControllers(list)
    PROVE  /\ c.opened \subseteq Elements(list)
           /\ c.rv \in {0, -1}
           /\ c.rv = 0 => c.opened = Elements(list)
  <1>1. Len(list) \in Nat /\ list \in [1..Len(list) -> STRING] OBVIOUS
  <1>2. PICK k \in 0..Len(list) :
               c = [opened |-> Elements(SubSeq(list, 1, k)),
                    rv |-> IF k = Len(list) THEN 0 ELSE -1]
    <2>1. 0..Len(list) \cup {Len(list)} = 0..Len(list) BY <1>1
    <2>2. PICK k \in IF "open" \in StartFaults THEN 0..Len(list) ELSE {Len(list)} :
                 c = [opened |-> Elements(SubSeq(list, 1, k)),
                      rv |-> IF k = Len(list) THEN 0 ELSE -1]
      BY Zenon DEF OpenControllers
    <2>3. k \in 0..Len(list) BY <2>1, <2>2
    <2> QED BY <2>2, <2>3
  <1>3. Elements(SubSeq(list, 1, k)) = {list[j] : j \in 1..k}
    <2>1. /\ Len(SubSeq(list, 1, k)) = k
          /\ \A j \in 1..k : SubSeq(list, 1, k)[j] = list[j]
          /\ DOMAIN SubSeq(list, 1, k) = 1..k
      BY <1>1
    <2> QED BY <2>1 DEF Elements
  <1>4. Elements(list) = {list[j] : j \in 1..Len(list)} BY <1>1 DEF Elements
  <1>5. c.opened = {list[j] : j \in 1..k} BY <1>2, <1>3
  <1>6. c.rv = IF k = Len(list) THEN 0 ELSE -1 BY <1>2
  <1>7. c.opened \subseteq Elements(list) BY <1>1, <1>4, <1>5
  <1>8. c.rv = 0 => c.opened = Elements(list) BY <1>4, <1>5, <1>6
  <1> QED BY <1>6, <1>7, <1>8

\* dslite_init succeeds only with every controller opened.
LEMMA InitOutcomesResult ==
    ASSUME NEW o \in InitOutcomes
    PROVE  o.opened \subseteq Modules /\ (o.rv = 0 => o.opened = Modules)
  <1>1. CASE o \in Failing("bus", [opened |-> {}, rv |-> -1])
    BY <1>1 DEF Failing
  <1>2. CASE o \notin Failing("bus", [opened |-> {}, rv |-> -1])
    <2>1. PICK c \in OpenControllers(Controllers) :
                 o \in IF c.rv # 0 THEN {c}
                       ELSE UNION {LET both(rv) == [opened |-> c.opened \cup f.opened, rv |-> rv]
                                   IN  IF f.rv # 0 THEN {both(-1)}
                                       ELSE {both(0)} \cup Failing("load", both(-1)) :
                                     f \in OpenControllers(FWControllers)}
      BY <1>2 DEF InitOutcomes
    <2>2. /\ c.opened \subseteq Elements(Controllers)
          /\ c.rv = 0 => c.opened = Elements(Controllers)
      BY OpenControllersResult, BootAssumption
    <2>3. CASE c.rv # 0 BY <2>1, <2>2, <2>3 DEF Modules
    <2>4. CASE c.rv = 0
      <3>1. PICK f \in OpenControllers(FWControllers) :
                   o \in LET both(rv) == [opened |-> c.opened \cup f.opened, rv |-> rv]
                         IN  IF f.rv # 0 THEN {both(-1)}
                             ELSE {both(0)} \cup Failing("load", both(-1))
        BY <2>1, <2>4
      <3>2. /\ f.opened \subseteq Elements(FWControllers)
            /\ f.rv = 0 => f.opened = Elements(FWControllers)
        BY OpenControllersResult, BootAssumption
      <3>3. CASE f.rv # 0 BY <2>2, <2>4, <3>1, <3>2, <3>3 DEF Modules
      <3>4. CASE f.rv = 0 BY <2>2, <2>4, <3>1, <3>2, <3>4 DEF Modules, Failing
      <3> QED BY <3>3, <3>4
    <2> QED BY <2>3, <2>4
  <1> QED BY <1>1, <1>2

\* The invariant of DSLite does not depend on what it leaves unchanged.
LEMMA IInvUnchanged == IInv /\ UNCHANGED vars => IInv'
  BY DEF IInv, TypeOK, TunnelLinked, vars, dmVars, envVars, loopVars

\* A process starts, or fails to.
LEMMA StartStep == ASSUME BootInv, Start PROVE BootInv'
  <1>1. PICK o \in InitOutcomes :
               /\ opened' = o.opened
               /\ phase' = IF o.rv = 0 THEN "running" ELSE "failed"
               /\ IF o.rv = 0 THEN Load ELSE UNCHANGED vars
    BY DEF Start
  <1>2. phase = "stopped" /\ left' = tunnel /\ UNCHANGED <<disk, saving>> BY DEF Start
  <1>3. opened' \subseteq Modules /\ (o.rv = 0 => opened' = Modules)
    BY <1>1, InitOutcomesResult
  <1>4. /\ IInv /\ TypeOK /\ Forgotten /\ tunnel \in Tunnel \cup {None}
        /\ disk \in [enable : BOOLEAN, present : SUBSET Ifs, conf : [Ifs -> Conf]]
        /\ saving \in BOOLEAN
    BY <1>2 DEF BootInv, BootTypeOK, TypeOK
  <1>5. IInv' /\ (phase' # "running" => Forgotten')
    <2>1. CASE o.rv = 0
      <3>1. Load /\ phase' = "running" BY <1>1, <2>1
      <3>2. queue' \in Seq(Event) BY <1>4, <3>1, BootTyped DEF Load
      <3>3. TypeOK' BY <1>4, <3>1, <3>2 DEF Load, TypeOK, envVars
      <3>4. TunnelLinked' BY <1>4, <3>1 DEF Load, TunnelLinked, Forgotten
      <3> QED BY <3>1, <3>3, <3>4 DEF IInv
    <2>2. CASE o.rv # 0
      <3>1. UNCHANGED vars BY <1>1, <2>2
      <3>2. Forgotten' BY <1>4, <3>1 DEF Forgotten, vars, dmVars, loopVars
      <3> QED BY <1>4, <3>1, <3>2, IInvUnchanged
    <2> QED BY <2>1, <2>2
  <1>6. TypeOK' BY <1>5 DEF IInv
  <1>7. BootTypeOK' BY <1>1, <1>2, <1>3, <1>4, <1>6 DEF BootTypeOK, Modules
  <1> QED BY <1>1, <1>3, <1>5, <1>7 DEF BootInv

-----------------------------------------------------------------------------
(* Running and ending.                                                     *)

\* What a running process does is a step of DSLite.
LEMMA RunStep == ASSUME BootInv, NEW ACTION A, A => Next, Run(A) PROVE BootInv'
  <1>1. /\ phase = "running" /\ Next /\ saving' = (saving \/ Touched)
        /\ UNCHANGED <<phase, opened, disk, left>>
    BY DEF Run
  <1>2. IInv' BY <1>1, NextInv DEF BootInv
  <1>3. TypeOK' BY <1>2 DEF IInv
  <1>4. (saving \/ Touched) \in BOOLEAN BY DEF Touched
  <1>5. BootTypeOK' BY <1>1, <1>3, <1>4 DEF BootInv, BootTypeOK
  <1> QED BY <1>1, <1>2, <1>5 DEF BootInv

\* What is saved of the parameters has its type.
LEMMA PersistentTyped ==
    ASSUME TypeOK
    PROVE  Persistent \in [enable : BOOLEAN, present : SUBSET Ifs, conf : [Ifs -> Conf]]
  <1>1. \A i \in Ifs : Stored(i, conf[i]) \in Conf
    <2>1. \A i \in Ifs : conf[i] \in Conf BY DEF TypeOK
    <2>2. \A i \in Ifs : [conf[i] EXCEPT !.name = None] \in Conf BY <2>1 DEF Conf
    <2> QED BY <2>1, <2>2 DEF Stored
  <1> QED BY <1>1 DEF Persistent, TypeOK

\* Saving the parameters keeps the invariant.
LEMMA SaveStep == ASSUME BootInv, Save PROVE BootInv'
  <1>1. /\ disk' = Persistent /\ saving' = FALSE /\ UNCHANGED <<phase, opened, left>>
        /\ UNCHANGED vars /\ phase = "running"
    BY DEF Save
  <1>2. IInv' BY <1>1, IInvUnchanged DEF BootInv
  <1>3. TypeOK' BY <1>2 DEF IInv
  <1>4. BootTypeOK' BY <1>1, <1>3, PersistentTyped DEF BootInv, BootTypeOK
  <1> QED BY <1>1, <1>2, <1>4 DEF BootInv

\* What a process has before it handled anything has its type.
LEMMA BlankTyped ==
    /\ [i \in Ifs |-> DefaultConf] \in [Ifs -> Conf]
    /\ [i \in Ifs |-> DefaultOper] \in [Ifs -> Oper]
    /\ [i \in Ifs |-> None] \in [Ifs -> PrivIds \cup {None}]
    /\ [p \in PrivIds |-> BlankPriv] \in [PrivIds -> Priv]
    /\ <<>> \in Seq(Event)
  <1>1. /\ DefaultConf \in Conf /\ DefaultOper \in Oper /\ BlankPriv \in Priv
    BY DefaultsTyped
  <1> QED BY <1>1

\* A process that ends leaves the world outside, and forgets the rest.
LEMMA GoneStep ==
    ASSUME BootInv, Gone, opened' = {}, UNCHANGED envVars,
           disk' \in [enable : BOOLEAN, present : SUBSET Ifs, conf : [Ifs -> Conf]]
    PROVE  BootInv'
  <1>1. TypeOK' BY BlankTyped DEF Gone, BootInv, IInv, TypeOK, envVars
  <1>2. Forgotten' BY DefaultsTyped DEF Gone, Forgotten, BlankPriv
  <1>3. TunnelLinked' BY <1>2 DEF Forgotten, TunnelLinked
  <1>4. BootTypeOK' BY <1>1 DEF Gone, BootInv, BootTypeOK
  <1> QED BY <1>1, <1>2, <1>3, <1>4 DEF BootInv, IInv, Gone

\* An orderly stop keeps the invariant: what it saves has its type.
LEMMA StopStep == ASSUME BootInv, Stop PROVE BootInv'
  <1>1. Persistent \in [enable : BOOLEAN, present : SUBSET Ifs, conf : [Ifs -> Conf]]
    BY PersistentTyped DEF BootInv, IInv
  <1>2. disk' \in [enable : BOOLEAN, present : SUBSET Ifs, conf : [Ifs -> Conf]]
    BY <1>1 DEF Stop, BootInv, BootTypeOK
  <1> QED BY <1>2, GoneStep DEF Stop

\* A crash keeps it, also in the middle of an event: the file is not touched.
LEMMA CrashStep == ASSUME BootInv, Crash PROVE BootInv'
  <1>1. disk' \in [enable : BOOLEAN, present : SUBSET Ifs, conf : [Ifs -> Conf]]
    BY DEF Crash, BootInv, BootTypeOK
  <1> QED BY <1>1, GoneStep DEF Crash

\* Where no process runs, no Status depends on the tunnel that is lost.
LEMMA RebootStep == ASSUME BootInv, Reboot PROVE BootInv'
  <1>1. /\ phase = "stopped" /\ tunnel' = None /\ firewall' \in {None, firewall}
        /\ UNCHANGED <<dmVars, ptr, heap, ip, loopVars, bootVars>>
    BY DEF Reboot
  <1>2. TypeOK' BY <1>1 DEF BootInv, IInv, TypeOK, dmVars, loopVars
  <1>3. Forgotten' BY <1>1 DEF BootInv, Forgotten, dmVars, loopVars
  <1>4. TunnelLinked' BY <1>3 DEF Forgotten, TunnelLinked
  <1>5. BootTypeOK' BY <1>1, <1>2 DEF BootInv, BootTypeOK, bootVars
  <1> QED BY <1>1, <1>2, <1>3, <1>4, <1>5 DEF BootInv, IInv, bootVars

-----------------------------------------------------------------------------
(* The theorems.                                                           *)

\* The invariant holds when the plug-in was never started ...
LEMMA BootInitInv == BootInit => BootInv
  <1> SUFFICES ASSUME BootInit PROVE BootInv OBVIOUS
  <1>1. ip \in IpIfs BY DEF BootInit, IpIfs
  <1>2. TypeOK BY <1>1, BlankTyped DEF BootInit, TypeOK
  <1>3. Forgotten BY DefaultsTyped DEF BootInit, Forgotten, BlankPriv
  <1>4. TunnelLinked BY <1>3 DEF Forgotten, TunnelLinked
  <1>5. disk \in [enable : BOOLEAN, present : SUBSET Ifs, conf : [Ifs -> Conf]]
    <2>1. \A i \in Ifs : (i \in Provisioned) \in BOOLEAN OBVIOUS
    <2>2. \A i \in Ifs : [DefaultConf EXCEPT !.enable = i \in Provisioned] \in Conf
      BY <2>1, DefaultsTyped
    <2> QED BY <2>2, ConstantsAssumption DEF BootInit
  <1>6. BootTypeOK BY <1>2, <1>5 DEF BootInit, BootTypeOK
  <1> QED BY <1>2, <1>3, <1>4, <1>6 DEF BootInit, BootInv, IInv

\* ... and every step keeps it.
LEMMA BootNextInv == BootInv /\ [BootNext]_allVars => BootInv'
  <1> SUFFICES ASSUME BootInv, [BootNext]_allVars PROVE BootInv' OBVIOUS
  <1>1. CASE Start BY <1>1, StartStep
  <1>2. CASE Save BY <1>2, SaveStep
  <1>3. CASE Stop BY <1>3, StopStep
  <1>4. CASE Crash BY <1>4, CrashStep
  <1>5. CASE Reboot BY <1>5, RebootStep
  <1>6. CASE Run(Loop) BY <1>6, RunStep DEF Next
  <1>7. CASE Run(Timers) BY <1>7, RunStep DEF Next
  <1>8. CASE Run(Resolver) BY <1>8, RunStep DEF Next
  <1>9. CASE Run(NetModel) BY <1>9, RunStep DEF Next
  <1>10. CASE Run(Users) BY <1>10, RunStep DEF Next
  <1>11. CASE UNCHANGED allVars
    <2>1. UNCHANGED vars /\ UNCHANGED bootVars BY <1>11 DEF allVars
    <2>2. IInv' BY <2>1, IInvUnchanged DEF BootInv
    <2>3. (TypeOK /\ BootTypeOK)' BY <2>1, <2>2 DEF BootInv, BootTypeOK, IInv, bootVars
    <2>4. (phase # "running" => Forgotten)'
      BY <2>1 DEF BootInv, Forgotten, bootVars, vars, dmVars, loopVars
    <2> QED BY <2>1, <2>2, <2>3, <2>4 DEF BootInv, bootVars
  <1> QED
    BY <1>1, <1>2, <1>3, <1>4, <1>5, <1>6, <1>7, <1>8, <1>9, <1>10, <1>11 DEF BootNext

\* However processes start, fail to start, stop and crash: every variable has
\* its type, and a process that ended has no module open.
THEOREM BootTypeCorrect == BootSpec => []BootTypeOK
  <1>1. BootInv => BootTypeOK BY DEF BootInv
  <1> QED BY <1>1, BootInitInv, BootNextInv, PTL DEF BootSpec

\* dslite_init applies no parameter before all controllers are open, whichever
\* step of it fails and however many controllers there are.
THEOREM ControllersAlwaysFirst == BootSpec => []ControllersFirst
  <1>1. BootInv => ControllersFirst
    BY DEF BootInv, BootTypeOK, Forgotten, ControllersFirst, Modules
  <1> QED BY <1>1, BootInitInv, BootNextInv, PTL DEF BootSpec

\* With one instance, Status Enabled means that the tunnel is up as the data
\* model shows it in every process, whatever the processes before it left in
\* the kernel, lost or saved.
THEOREM TunnelThroughRestarts ==
    ASSUME SoleInterface PROVE BootSpec => []EnabledMeansTunnel
  <1>1. BootInv => EnabledMeansTunnel
    BY DEF BootInv, IInv, TunnelLinked, EnabledMeansTunnel
  <1> QED BY <1>1, BootInitInv, BootNextInv, PTL DEF BootSpec
=============================================================================
