------------------------ MODULE DSLiteBootCalm_proofs ------------------------
(***************************************************************************)
(* The plug-in from its start to its end, over and over, under a calm user:*)
(* in every process, whatever the one before it saved, lost or left in the *)
(* kernel, what DSLiteCalm_proofs shows of one process holds, as there as  *)
(* long as the timers of freed DNS queries do no harm; and what is saved is*)
(* what the process has once it is idle.                                   *)
(***************************************************************************)
EXTENDS DSLiteBoot_proofs, DSLiteCalm_proofs

\* A process that does not run yet, or no more, knows nothing.
Blank ==
    /\ oper = [i \in Ifs |-> DefaultOper] /\ ptr = [i \in Ifs |-> None]
    /\ heap = [p \in PrivIds |-> BlankPriv]
    /\ todo = {} /\ fault = None

\* The inductive invariant: a process that runs is calm, and what is saved is
\* what a calm process can start from.
CalmBootInv ==
    /\ BootInv
    /\ phase = "running" => CalmInv
    /\ phase # "running" => Blank
    /\ \A i \in Ifs : i \notin disk.present => ~disk.conf[i].enable

-----------------------------------------------------------------------------
(* In every process the plug-in is calm.                                   *)

\* Saving does not switch instances on.
LEMMA PersistentCalm ==
    ASSUME CalmInv
    PROVE  \A i \in Ifs : i \notin Persistent.present => ~Persistent.conf[i].enable
  <1>1. \A i \in Ifs : i \notin present => ~conf[i].enable
    BY Before, StateFields DEF Calm, Base, Owned, Owner
  <1>2. \A i \in Ifs : conf[i] \in Conf BY DEF CalmInv, IInv, TypeOK
  <1>3. \A i \in Ifs : [conf[i] EXCEPT !.name = None].enable = conf[i].enable
    BY <1>2 DEF Conf
  <1>4. \A i \in Ifs : Stored(i, conf[i]).enable = conf[i].enable BY <1>3 DEF Stored
  <1> QED BY <1>1, <1>4 DEF Persistent

\* What a process starts with is calm.
LEMMA LoadCalm == ASSUME CalmBootInv, Blank, Load, IInv' PROVE CalmInv'
  <1> DEFINE v == State'
  <1>1. /\ v \in States /\ v.fault = None /\ v.present = disk.present
        /\ v.dslEnable = disk.enable /\ v.queue = queue' /\ v.todo = {}
        /\ v.oper = [i \in Ifs |-> DefaultOper] /\ v.ptr = [i \in Ifs |-> None]
        /\ v.heap = [p \in PrivIds |-> BlankPriv] /\ v.conf = disk.conf
    BY NextFields DEF Load, Blank
  <1>2. queue' \in Boot(disk.present, disk.enable) BY DEF Load
  <1>3. \A i \in Ifs : i \notin v.present => ~v.conf[i].enable BY <1>1 DEF CalmBootInv
  <1>4. \A i \in Ifs : v.oper[i] = DefaultOper /\ v.ptr[i] = None BY <1>1
  <1>5. \A p \in PrivIds : v.heap[p] = BlankPriv BY <1>1
  <1> HIDE DEF v
  <1>6. Calm(v) BY <1>1, <1>2, <1>3, <1>4, <1>5, BootCalm
  <1> QED BY <1>6, CalmPrimed DEF CalmInv, v

\* The invariant of a process does not depend on what it leaves unchanged.
LEMMA CalmUnchanged == CalmInv /\ UNCHANGED vars => CalmInv'
  <1> SUFFICES ASSUME CalmInv, UNCHANGED vars PROVE CalmInv' OBVIOUS
  <1>1. State' = State BY DEF State, vars, dmVars, envVars, loopVars
  <1>2. Calm(State') BY <1>1 DEF CalmInv
  <1>3. IInv' BY IInvUnchanged DEF CalmInv
  <1> QED BY <1>2, <1>3, CalmPrimed DEF CalmInv

\* It holds when the plug-in was never started ...
LEMMA CalmBootInit == BootInit => CalmBootInv
  <1> SUFFICES ASSUME BootInit PROVE CalmBootInv OBVIOUS
  <1>1. BootInv BY BootInitInv
  <1>2. phase = "stopped" /\ Blank BY DEF BootInit, Blank
  <1>3. \A i \in Ifs : [DefaultConf EXCEPT !.enable = i \in Provisioned].enable
                         = (i \in Provisioned)
    BY DEF DefaultConf
  <1>4. \A i \in Ifs : i \notin disk.present => ~disk.conf[i].enable
    BY <1>3 DEF BootInit
  <1> QED BY <1>1, <1>2, <1>4 DEF CalmBootInv

\* ... and every step keeps it.
LEMMA CalmBootStep ==
    ASSUME CalmUser, NoStray PROVE CalmBootInv /\ [BootNext]_allVars => CalmBootInv'
  <1> SUFFICES ASSUME CalmBootInv, [BootNext]_allVars PROVE CalmBootInv' OBVIOUS
  <1>1. BootInv /\ BootInv' BY BootNextInv DEF CalmBootInv
  <1>2. IInv /\ IInv' BY <1>1 DEF BootInv
  <1>3. CASE Start
    <2>1. PICK o \in InitOutcomes :
                 /\ phase' = IF o.rv = 0 THEN "running" ELSE "failed"
                 /\ IF o.rv = 0 THEN Load ELSE UNCHANGED vars
      BY <1>3 DEF Start
    <2>2. Blank /\ disk' = disk BY <1>3 DEF Start, CalmBootInv
    <2>3. CASE o.rv = 0
      <3>1. CalmInv' BY <1>2, <2>1, <2>2, <2>3, LoadCalm
      <3> QED BY <1>1, <2>1, <2>2, <2>3, <3>1 DEF CalmBootInv
    <2>4. CASE o.rv # 0
      <3>1. Blank' BY <2>1, <2>2, <2>4 DEF Blank, vars, dmVars, loopVars
      <3> QED BY <1>1, <2>1, <2>2, <2>4, <3>1 DEF CalmBootInv
    <2> QED BY <2>3, <2>4
  <1>4. ASSUME NEW ACTION A, A => Next, Run(A) PROVE CalmBootInv'
    <2>1. phase = "running" /\ phase' = phase /\ disk' = disk /\ Next
      BY <1>4 DEF Run
    <2>2. CalmInv' BY <2>1, CalmStep DEF CalmBootInv
    <2> QED BY <1>1, <2>1, <2>2 DEF CalmBootInv
  <1>5. CASE Save
    <2>1. phase = "running" /\ phase' = phase /\ disk' = Persistent /\ UNCHANGED vars
      BY <1>5 DEF Save
    <2>2. CalmInv /\ CalmInv' BY <2>1, CalmUnchanged DEF CalmBootInv
    <2> QED BY <1>1, <2>1, <2>2, PersistentCalm DEF CalmBootInv
  <1>6. ASSUME Gone, disk' = disk \/ (phase = "running" /\ disk' = Persistent)
        PROVE  CalmBootInv'
    <2>1. phase' = "stopped" /\ Blank' BY <1>6 DEF Gone, Blank
    <2>2. \A i \in Ifs : i \notin disk'.present => ~disk'.conf[i].enable
      BY <1>6, PersistentCalm DEF CalmBootInv
    <2> QED BY <1>1, <2>1, <2>2 DEF CalmBootInv
  <1>7. CASE Stop BY <1>6, <1>7 DEF Stop
  <1>8. CASE Crash BY <1>6, <1>8 DEF Crash
  <1>9. CASE Reboot
    <2>1. phase = "stopped" /\ UNCHANGED <<dmVars, ptr, heap, ip, loopVars, bootVars>>
      BY <1>9 DEF Reboot
    <2>2. Blank /\ phase' = "stopped" /\ disk' = disk
      BY <2>1 DEF CalmBootInv, bootVars
    <2>3. Blank' BY <2>1, <2>2 DEF Blank, dmVars, loopVars
    <2> QED BY <1>1, <2>2, <2>3 DEF CalmBootInv
  <1>10. CASE UNCHANGED allVars
    <2>1. UNCHANGED vars /\ UNCHANGED bootVars BY <1>10 DEF allVars
    <2>2. phase' = phase /\ disk' = disk BY <2>1 DEF bootVars
    <2>3. CalmInv => CalmInv' BY <2>1, CalmUnchanged
    <2>4. Blank => Blank' BY <2>1 DEF Blank, vars, dmVars, loopVars
    <2> QED BY <1>1, <2>2, <2>3, <2>4 DEF CalmBootInv
  <1>11. CASE Run(Loop) BY <1>4, <1>11 DEF Next
  <1>12. CASE Run(Timers) BY <1>4, <1>12 DEF Next
  <1>13. CASE Run(Resolver) BY <1>4, <1>13 DEF Next
  <1>14. CASE Run(NetModel) BY <1>4, <1>14 DEF Next
  <1>15. CASE Run(Users) BY <1>4, <1>15 DEF Next
  <1> QED
    BY <1>3, <1>5, <1>7, <1>8, <1>9, <1>10, <1>11, <1>12, <1>13, <1>14, <1>15 DEF BootNext

\* Every reachable state satisfies it.
LEMMA CalmBootHolds == ASSUME CalmUser, NoStray PROVE BootSpec => []CalmBootInv
  <1>1. CalmBootInv /\ [BootNext]_allVars => CalmBootInv' BY CalmBootStep
  <1> QED BY <1>1, CalmBootInit, PTL DEF BootSpec

\* In every process, also after crashes, failed starts and reboots: no handler or
\* callback ends in a memory error, the timers of freed DNS queries aside, and once the events are handled the private
\* data are those of the active instances, a static address that is given is in
\* use, and EndpointName can be written where the precedence is Static.
THEOREM CalmThroughRestarts ==
    ASSUME CalmUser, NoStray
    PROVE  BootSpec => [](/\ NoFault /\ PrivOnlyWhileActive
                          /\ StaticAddressInUse /\ NameWritableWhenStatic)
  <1>1. ASSUME CalmBootInv
        PROVE  NoFault /\ PrivOnlyWhileActive /\ StaticAddressInUse /\ NameWritableWhenStatic
    <2>1. CASE phase = "running"
      BY <1>1, <2>1, CalmSafe, QuietPrivs, QuietStatic, QuietNames DEF CalmBootInv
    <2>2. CASE phase # "running"
      <3>1. present = {} /\ fault = None /\ \A p \in PrivIds : ~heap[p].alive
        BY <1>1, <2>2 DEF CalmBootInv, BootInv, Forgotten, Blank
      <3> QED BY <3>1 DEF NoFault, PrivOnlyWhileActive, StaticAddressInUse,
                         NameWritableWhenStatic
    <2> QED BY <2>1, <2>2
  <1>2. CalmBootInv => /\ NoFault /\ PrivOnlyWhileActive
                       /\ StaticAddressInUse /\ NameWritableWhenStatic
    BY <1>1
  <1> QED BY <1>2, CalmBootHolds, PTL


-----------------------------------------------------------------------------
(* What is saved.                                                          *)

\* An instance whose event of being added is not handled has no private data.
Fresh(s) == \A i \in Ifs : AddedAwaits(s, i) => ~On(s, i)

\* While no save is due, the saved parameters are those of the process; where
\* the name will become persistent when the event of the instance is handled,
\* the name, too.  What is saved waits for no event of a precedence, whose
\* handler would make a name persistent that is not saved.
SavedInv ==
    phase = "running" /\ ~saving =>
        /\ disk.enable = dslEnable /\ disk.present = present
        /\ \A i \in present : Stored(i, disk.conf[i]) = Stored(i, conf[i])
        /\ \A i \in present : AddedAwaits(State, i) => disk.conf[i].name = conf[i].name
        /\ \A i \in Ifs : ~Awaits(State, i, "prec")

FreshInv == phase = "running" => Fresh(State)

\* The inductive invariant of what is saved.
SavingInv == CalmBootInv /\ FreshInv /\ SavedInv

\* What a step that no user makes does to what is saved: it queues no event but
\* of names; it changes the parameters of no instance that is still to be added;
\* and EndpointName becomes persistent, or no more, by an event only.
Unwritten(s, t) ==
    \A j \in Ifs :
        /\ Awaits(t, j, "prec") => Awaits(s, j, "prec")
        /\ AddedAwaits(t, j) => /\ AddedAwaits(s, j)
                                /\ On(t, j) => On(s, j)
                                /\ t.conf[j] = s.conf[j]
        /\ \/ j \in t.readOnly <=> j \in s.readOnly
           \/ \E k \in Ifs : Awaits(s, k, "prec")
           \/ AddedAwaits(s, j) /\ t.conf[j] = s.conf[j]

\* A step of a handler that leaves only events of names.
LEMMA PlainUnwritten ==
    ASSUME NEW s, NEW t, Plain(t),
           t.readOnly = s.readOnly \/ \E k \in Ifs : Awaits(s, k, "prec")
    PROVE  Unwritten(s, t)
  BY PlainAwaits DEF Unwritten

\* A callback.
LEMMA ByOneUnwritten ==
    ASSUME NEW s, Calm(s), Fresh(s), NEW t, ByOne(s, t)
    PROVE  Unwritten(s, t)
  <1>1. PICK i \in Ifs, p \in PrivIds : Holds(s, i, p) /\ Within(s, t, i, p) BY DEF ByOne
  <1>2. s \in States /\ Base(s) BY DEF Calm, Base
  <1>3. On(s, i) /\ i \in s.present BY <1>1, <1>2, HoldsOn
  <1>4. SameAwaits(s, t) BY <1>1, <1>2, <1>3, WithinQueue DEF Base
  <1>5. SameOn(s, t) BY <1>2, ByOneSameOn
  <1>6. t.readOnly = s.readOnly /\ \A j \in Ifs \ {i} : t.conf[j] = s.conf[j]
    BY <1>1 DEF Within, Around
  <1>7. ~AddedAwaits(s, i) BY <1>3 DEF Fresh
  <1> QED BY <1>4, <1>5, <1>6, <1>7 DEF Unwritten, SameAwaits, SameOn

\* _interface_added.
LEMMA HandleAddedUnwritten ==
    ASSUME CalmInv, IInv', HandleAdded PROVE Unwritten(State, State')
  <1> DEFINE s == State
             h == Head(queue)
             t == Popped(s)
             v == State'
  <1>1. s \in States /\ QueueCalm(s) BY Before DEF Calm, Base
  <1>2. s.queue # <<>> /\ h = Head(s.queue) /\ h.kind = "added"
    BY StateFields DEF HandleAdded
  <1>3. /\ v.conf = s.conf /\ v.ptr = s.ptr /\ v.heap = s.heap
        /\ v.queue = Tail(s.queue) /\ v.readOnly = readOnly'
    BY NextFields, StateFields DEF HandleAdded
  <1>4. \A j \in Ifs : j = h.obj \/ (j \in readOnly' <=> j \in s.readOnly)
    BY StateFields DEF HandleAdded, MarkEndpointName
  <1> HIDE DEF s, h, v
  <1>5. /\ t.queue = Tail(s.queue)
        /\ \A j, x : Awaits(t, j, x) => Awaits(s, j, x)
        /\ \A j : AddedAwaits(s, j) <=> AddedAwaits(t, j) \/ h.obj = j
    BY <1>1, <1>2, PoppedQueue, PoppedFields
  <1> HIDE DEF t
  <1>6. SameAwaits(t, v) BY <1>3, <1>5, SameQueue
  <1>7. \A j : On(v, j) <=> On(s, j) BY <1>3 DEF On
  <1>8. \A j : Awaits(v, j, "prec") => Awaits(s, j, "prec") BY <1>5, <1>6 DEF SameAwaits
  <1>9. \A j : AddedAwaits(v, j) => AddedAwaits(s, j) BY <1>5, <1>6 DEF SameAwaits
  <1> QED BY <1>3, <1>4, <1>5, <1>7, <1>8, <1>9 DEF Unwritten, s, v

\* The other handlers.
LEMMA HandlersUnwritten ==
    ASSUME NoStray, CalmInv, IInv', HandleSetting \/ HandleDslite \/ ToggleDslite
    PROVE  Unwritten(State, State')
  <1>1. State \in States /\ QueueCalm(State) BY Before DEF Calm, Base
  <1>2. State'.readOnly = readOnly' /\ State'.queue = queue' BY NextFields
  <1>3. CASE HandleSetting
    <2>1. Plain(State') /\ ("prec" \notin Head(queue).changed => readOnly' = readOnly)
      BY <1>3, HandleSettingCalm
    <2>2. CASE "prec" \notin Head(queue).changed
      BY <1>2, <2>1, <2>2, PlainUnwritten, StateFields
    <2>3. CASE "prec" \in Head(queue).changed
      <3> DEFINE s == State
                 h == Head(queue)
                 t == Popped(s)
      <3>1. s.queue # <<>> /\ h = Head(s.queue) /\ h.kind = "setting"
        BY <1>3, StateFields DEF HandleSetting
      <3> HIDE DEF h
      <3>2. EventCalm(s, h) /\ Awaits(s, h.obj, "prec")
        BY <1>1, <2>3, <3>1, PoppedQueue DEF h
      <3>3. h.obj \in Ifs BY <1>1, <3>1, <3>2 DEF EventCalm, States
      <3> QED BY <2>1, <3>2, <3>3, PlainUnwritten
    <2> QED BY <2>2, <2>3
  <1>4. CASE HandleDslite
    <2>1. queue # <<>> /\ Head(queue).kind = "dslite" /\ queue' = Tail(queue)
          /\ readOnly' = readOnly
      BY <1>4 DEF HandleDslite, dmVars
    <2> DEFINE t == Popped(State)
    <2>2. Plain(t) /\ t.queue = Tail(queue)
      BY <1>1, <2>1, PoppedQueue, PoppedFields, StateFields
    <2> HIDE DEF t
    <2>3. Plain(State') BY <1>2, <2>1, <2>2 DEF Plain
    <2> QED BY <1>2, <2>1, <2>3, PlainUnwritten, StateFields
  <1>5. CASE ToggleDslite
    BY <1>2, <1>5, ToggleDsliteCalm, PlainUnwritten, StateFields
  <1> QED BY <1>3, <1>4, <1>5

\* A step of the loop, of a timer, of the resolver or of NetModel.
LEMMA StepUnwritten ==
    ASSUME NoStray, CalmInv, IInv', Fresh(State), Loop \/ Timers \/ Resolver \/ NetModel
    PROVE  Unwritten(State, State')
  <1>1. Calm(State) BY Before
  <1>2. CASE Loop BY <1>2, HandleAddedUnwritten, HandlersUnwritten DEF Loop
  <1>3. ASSUME ByOne(State, State') PROVE Unwritten(State, State')
    BY <1>1, <1>3, ByOneUnwritten
  <1>4. CASE Timers
    <2>1. PICK p \in PrivIds : TimerFires(p) \/ DnsChannelExpires(p) BY <1>4 DEF Timers
    <2>2. CASE TimerFires(p) BY <1>3, <2>2, TimerFiresCalm
    <2>3. CASE DnsChannelExpires(p)
      <3> DEFINE s == State
                 v == State'
      <3>1. /\ v.conf = s.conf /\ v.ptr = s.ptr /\ v.queue = s.queue
            /\ v.readOnly = s.readOnly /\ v.heap = [s.heap EXCEPT ![p].dns = "dead"]
        BY <2>3, NextFields, StateFields DEF DnsChannelExpires, dmVars, loopVars
      <3>2. s \in States BY Before
      <3> HIDE DEF s, v
      <3>3. \A q \in PrivIds : v.heap[q].alive = s.heap[q].alive
        BY <3>1, <3>2 DEF States, Priv
      <3>4. \A j \in Ifs : On(v, j) <=> On(s, j) BY <3>1, <3>2, <3>3 DEF On, States
      <3>5. SameAwaits(s, v) BY <3>1, SameQueue
      <3> QED BY <3>1, <3>4, <3>5 DEF Unwritten, SameAwaits, s, v
    <2> QED BY <2>1, <2>2, <2>3
  <1>5. CASE Resolver BY <1>3, <1>5, DnsAnswersCalm DEF Resolver
  <1>6. CASE NetModel BY <1>3, <1>6, AddrChangesCalm, DhcpChangesCalm DEF NetModel
  <1> QED BY <1>2, <1>4, <1>5, <1>6

\* Two sets of parameters that are saved alike differ in the name at most.
LEMMA SavedAlike ==
    ASSUME NEW c \in Conf, NEW d \in Conf,
           [c EXCEPT !.name = None] = [d EXCEPT !.name = None]
    PROVE  SameButName(c, d) /\ (c.name = d.name => c = d)
  <1> DEFINE e == [c EXCEPT !.name = None]
             f == [d EXCEPT !.name = None]
  <1>1. /\ e.enable = c.enable /\ e.prec = c.prec /\ e.type = c.type
        /\ e.addr = c.addr /\ e.wan = c.wan
    BY DEF Conf
  <1>2. /\ f.enable = d.enable /\ f.prec = d.prec /\ f.type = d.type
        /\ f.addr = d.addr /\ f.wan = d.wan
    BY DEF Conf
  <1>3. e = f OBVIOUS
  <1> HIDE DEF e, f
  <1>4. SameButName(c, d) BY <1>1, <1>2, <1>3 DEF SameButName
  <1> QED BY <1>4 DEF SameButName, Conf

\* It keeps what is saved, unless a parameter is to be saved again.
LEMMA StepSaved ==
    ASSUME CalmInv, IInv', SavedInv, phase = "running", Unwritten(State, State'),
           ~saving, ~Touched, disk' = disk,
           disk.conf \in [Ifs -> Conf]
    PROVE  /\ disk'.enable = dslEnable' /\ disk'.present = present'
           /\ \A i \in present' : Stored(i, disk.conf[i])' = Stored(i, conf[i])'
           /\ \A i \in present' : AddedAwaits(State', i) => disk'.conf[i].name = conf'[i].name
           /\ \A i \in Ifs : ~Awaits(State', i, "prec")
  <1>1. /\ disk.enable = dslEnable /\ disk.present = present
        /\ \A i \in present : Stored(i, disk.conf[i]) = Stored(i, conf[i])
        /\ \A i \in present : AddedAwaits(State, i) => disk.conf[i].name = conf[i].name
        /\ \A i \in Ifs : ~Awaits(State, i, "prec")
    BY DEF SavedInv
  <1>2. /\ dslEnable' = dslEnable /\ present' = present
        /\ \A i \in present : Stored(i, conf'[i]) = Stored(i, conf[i])
    BY DEF Touched
  <1>3. /\ present \subseteq Ifs /\ conf \in [Ifs -> Conf] /\ conf' \in [Ifs -> Conf]
    BY DEF CalmInv, IInv, TypeOK
  <1>4. /\ State'.readOnly = readOnly' /\ State'.conf = conf'
        /\ State.readOnly = readOnly /\ State.conf = conf
    BY NextFields, StateFields
  <1>5. \A i \in Ifs : ~Awaits(State', i, "prec") BY <1>1 DEF Unwritten
  <1>6. ASSUME NEW i \in present
        PROVE  /\ AddedAwaits(State', i) => disk.conf[i].name = conf'[i].name
               /\ Stored(i, disk.conf[i])' = Stored(i, conf[i])'
    <2>1. /\ i \in Ifs /\ conf[i] \in Conf /\ conf'[i] \in Conf /\ disk.conf[i] \in Conf
      BY <1>3
    <2>2. /\ AddedAwaits(State', i) => AddedAwaits(State, i) /\ conf'[i] = conf[i]
          /\ \/ i \in readOnly' <=> i \in readOnly
             \/ AddedAwaits(State, i) /\ conf'[i] = conf[i]
      BY <1>1, <1>4, <2>1 DEF Unwritten
    <2>3. Stored(i, disk.conf[i]) = Stored(i, conf'[i]) BY <1>1, <1>2
    <2>4. CASE i \in readOnly' <=> i \in readOnly
      BY <1>1, <2>2, <2>3, <2>4 DEF Stored
    <2>5. CASE AddedAwaits(State, i) /\ conf'[i] = conf[i]
      <3>1. disk.conf[i].name = conf'[i].name BY <1>1, <2>5
      <3>2. disk.conf[i] = conf'[i]
        BY <2>1, <2>3, <3>1, SavedAlike DEF Stored
      <3> QED BY <3>1, <3>2 DEF Stored
    <2> QED BY <2>2, <2>4, <2>5
  <1> QED BY <1>1, <1>2, <1>5, <1>6

\* It keeps that instances still to be added have no private data.
LEMMA StepFresh ==
    ASSUME Fresh(State), Unwritten(State, State') PROVE Fresh(State')
  BY DEF Fresh, Unwritten

\* What a calm user writes: the event is the only one.
LEMMA UsersQueue ==
    ASSUME CalmUser, CalmInv, IInv', Users
    PROVE  /\ Fresh(State')
           /\ \/ Touched
              \/ /\ UNCHANGED <<dslEnable, present, readOnly>>
                 /\ \A j \in Ifs : ~AddedAwaits(State', j) /\ ~Awaits(State', j, "prec")
  <1>1. State'.queue = queue' /\ State'.ptr = ptr' BY NextFields
  <1>2. CASE WriteDslite
    <2>1. State'.queue = <<DsliteEvent(~dslEnable)>>
      BY <1>1, <1>2, CalmWrites DEF WriteDslite
    <2>2. \A j : ~AddedAwaits(State', j) BY <2>1, OneEvent DEF DsliteEvent
    <2>3. dslEnable' # dslEnable BY <1>2 DEF WriteDslite, CalmInv, IInv, TypeOK
    <2> QED BY <2>2, <2>3 DEF Fresh, Touched
  <1>3. ASSUME NEW i \in Ifs, NEW T \in Transactions, WriteSetting(i, T)
        PROVE  /\ Fresh(State')
               /\ \/ Touched
                  \/ /\ UNCHANGED <<dslEnable, present, readOnly>>
                     /\ \A j \in Ifs : ~AddedAwaits(State', j) /\ ~Awaits(State', j, "prec")
    <2>1. PICK x \in Params : T = {x} BY <1>3 DEF CalmUser
    <2>2. PICK c \in Rewritten(conf[i], T) :
                 /\ conf' = [conf EXCEPT ![i] = c]
                 /\ queue' = Append(queue, SettingEvent(i, T, c))
      BY <1>3 DEF WriteSetting
    <2> DEFINE e == SettingEvent(i, T, c)
    <2>3. e.kind = "setting" /\ e.obj = i /\ e.changed = {x} BY <2>1 DEF SettingEvent
    <2>4. queue' = Append(queue, e) BY <2>2
    <2> HIDE DEF e
    <2>5. State'.queue = <<e>> BY <1>1, <1>3, <2>4, CalmWrites DEF WriteSetting
    <2>6. \A j : ~AddedAwaits(State', j) BY <2>3, <2>5, OneEvent
    <2>7. CASE x # "prec"
      <3>1. \A j : ~Awaits(State', j, "prec") BY <2>3, <2>5, <2>7, OneEvent DEF Tells
      <3>2. UNCHANGED <<dslEnable, present, readOnly>> BY <1>3 DEF WriteSetting
      <3> QED BY <2>6, <3>1, <3>2 DEF Fresh
    <2>8. CASE x = "prec"
      <3>1. i \in present /\ conf[i] \in Conf /\ conf'[i] = c
        BY <1>3, <2>2 DEF WriteSetting, CalmInv, IInv, TypeOK
      <3>2. c \in Conf /\ c.prec # conf[i].prec
        BY <2>1, <2>2, <2>8, <3>1 DEF Rewritten, Params, Conf
      <3>3. Stored(i, c) # Stored(i, conf[i])
        BY <3>1, <3>2, SavedAlike DEF Stored, SameButName
      <3>4. Touched BY <3>1, <3>3 DEF Touched
      <3> QED BY <2>6, <3>4 DEF Fresh
    <2> QED BY <2>7, <2>8
  <1>4. ASSUME NEW i \in Ifs, AddInstance(i) PROVE Fresh(State') /\ Touched
    <2>1. /\ State'.queue = <<AddedEvent(i)>>
          /\ ptr' = [ptr EXCEPT ![i] = None] /\ present' = present \cup {i}
          /\ i \notin present
      BY <1>1, <1>4, CalmWrites DEF AddInstance
    <2>2. \A j : AddedAwaits(State', j) => j = i BY <2>1, OneEvent DEF AddedEvent
    <2>3. ~On(State', i) BY <1>1, <2>1 DEF On, CalmInv, IInv, TypeOK
    <2> QED BY <2>1, <2>2, <2>3 DEF Fresh, Touched
  <1>5. ASSUME NEW i \in Ifs, DeleteInstance(i) PROVE FALSE
    BY <1>5 DEF DeleteInstance, CalmUser
  <1> QED BY <1>2, <1>3, <1>4, <1>5 DEF Users

\* A step of the plug-in that runs.
LEMMA RunSaved ==
    ASSUME CalmUser, NoStray, SavingInv, CalmBootInv',
           Run(Loop) \/ Run(Timers) \/ Run(Resolver) \/ Run(NetModel) \/ Run(Users)
    PROVE  SavedInv' /\ FreshInv'
  <1>1. /\ phase = "running" /\ phase' = phase /\ disk' = disk
        /\ saving' = (saving \/ Touched)
        /\ Loop \/ Timers \/ Resolver \/ NetModel \/ Users
    BY DEF Run
  <1>2. CalmInv /\ IInv' /\ Fresh(State) /\ SavedInv /\ disk.conf \in [Ifs -> Conf]
    BY <1>1 DEF SavingInv, CalmBootInv, FreshInv, BootInv, BootTypeOK
  <1>3. SUFFICES /\ Fresh(State')
                 /\ ~saving /\ ~Touched =>
                    /\ disk'.enable = dslEnable' /\ disk'.present = present'
                    /\ \A i \in present' : Stored(i, disk.conf[i])' = Stored(i, conf[i])'
                    /\ \A i \in present' :
                         AddedAwaits(State', i) => disk'.conf[i].name = conf'[i].name
                    /\ \A i \in Ifs : ~Awaits(State', i, "prec")
    <2>1. /\ Fresh(State)' <=> Fresh(State')
          /\ \A i \in Ifs : AddedAwaits(State, i)' <=> AddedAwaits(State', i)
          /\ \A i \in Ifs : Awaits(State, i, "prec")' <=> Awaits(State', i, "prec")
      BY DEF Fresh, AddedAwaits, Awaits, On
    <2>2. present' \subseteq Ifs BY <1>2 DEF IInv, TypeOK
    <2> QED BY <1>1, <2>1, <2>2 DEF SavedInv, FreshInv
  <1>4. CASE Loop \/ Timers \/ Resolver \/ NetModel
    <2>1. Unwritten(State, State') BY <1>2, <1>4, StepUnwritten
    <2> QED BY <1>1, <1>2, <2>1, StepFresh, StepSaved
  <1>5. CASE Users
    <2>1. /\ Fresh(State')
          /\ \/ Touched
             \/ /\ UNCHANGED <<dslEnable, present, readOnly>>
                /\ \A j \in Ifs : ~AddedAwaits(State', j) /\ ~Awaits(State', j, "prec")
      BY <1>2, <1>5, UsersQueue
    <2>2. ASSUME ~saving, ~Touched
          PROVE  /\ disk'.enable = dslEnable' /\ disk'.present = present'
                 /\ \A i \in present' : Stored(i, disk.conf[i])' = Stored(i, conf[i])'
                 /\ \A i \in present' :
                      AddedAwaits(State', i) => disk'.conf[i].name = conf'[i].name
                 /\ \A i \in Ifs : ~Awaits(State', i, "prec")
      <3>1. /\ disk.enable = dslEnable /\ disk.present = present
            /\ \A i \in present : Stored(i, disk.conf[i]) = Stored(i, conf[i])
        BY <1>1, <1>2, <2>2 DEF SavedInv
      <3>2. \A i \in present : Stored(i, conf'[i]) = Stored(i, conf[i])
        BY <2>2 DEF Touched
      <3>3. \A i \in present : Stored(i, disk.conf[i])' = Stored(i, conf[i])'
        BY <1>1, <2>1, <2>2, <3>1, <3>2 DEF Stored
      <3>4. present \subseteq Ifs BY <1>2 DEF CalmInv, IInv, TypeOK
      <3> QED BY <1>1, <2>1, <2>2, <3>1, <3>3, <3>4
    <2> QED BY <2>1, <2>2
  <1> QED BY <1>1, <1>4, <1>5

\* The invariant of the next state is about the next state.
LEMMA SavingPrimed ==
    /\ Fresh(State)' <=> Fresh(State')
    /\ \A i \in Ifs : AddedAwaits(State, i)' <=> AddedAwaits(State', i)
    /\ \A i \in Ifs : Awaits(State, i, "prec")' <=> Awaits(State', i, "prec")
  BY DEF Fresh, AddedAwaits, Awaits, On

\* What a process starts with is what was saved.
LEMMA LoadSaved ==
    ASSUME IInv', Blank, Load, disk' = disk,
           disk.present \in SUBSET Ifs, disk.enable \in BOOLEAN
    PROVE  SavedInv' /\ FreshInv'
  <1>1. /\ dslEnable' = disk.enable /\ present' = disk.present /\ conf' = disk.conf
        /\ queue' \in Boot(disk.present, disk.enable) /\ ptr' = ptr
    BY DEF Load
  <1>2. State'.queue = queue' /\ State'.ptr = ptr' BY NextFields
  <1>3. \A i \in Ifs : ~On(State', i) BY <1>1, <1>2 DEF Blank, On
  <1>4. \A k \in 1..Len(State'.queue) : State'.queue[k].kind # "setting"
    <2>1. StartEvents(queue', disk.present, disk.enable) BY <1>1, BootQueue
    <2> QED BY <1>2, <2>1 DEF StartEvents
  <1>5. \A i \in Ifs : ~Awaits(State', i, "prec") BY <1>4 DEF Awaits
  <1>6. Fresh(State') BY <1>3 DEF Fresh
  <1>7. /\ disk'.enable = dslEnable' /\ disk'.present = present'
        /\ \A i \in present' : Stored(i, disk.conf[i])' = Stored(i, conf[i])'
        /\ \A i \in present' : disk'.conf[i].name = conf'[i].name
    BY <1>1
  <1> QED BY <1>5, <1>6, <1>7, SavingPrimed DEF SavedInv, FreshInv

\* What is saved is what the process has.
LEMMA SaveSaved ==
    ASSUME SavingInv, Save, IInv' PROVE SavedInv' /\ FreshInv'
  <1>1. /\ phase = "running" /\ queue = <<>> /\ disk' = Persistent /\ UNCHANGED vars
    BY DEF Save
  <1>2. /\ dslEnable' = dslEnable /\ present' = present /\ conf' = conf
        /\ readOnly' = readOnly /\ queue' = <<>> /\ ptr' = ptr
    BY <1>1 DEF vars, dmVars, loopVars
  <1>3. State'.queue = <<>> BY <1>2, NextFields
  <1>4. \A i \in Ifs : ~AddedAwaits(State', i) /\ ~Awaits(State', i, "prec")
    BY <1>3 DEF AddedAwaits, Awaits
  <1>5. Fresh(State') BY <1>4 DEF Fresh
  <1>6. present \subseteq Ifs /\ \A i \in Ifs : conf[i] \in Conf
    BY <1>1 DEF SavingInv, CalmBootInv, CalmInv, IInv, TypeOK
  <1>7. ASSUME NEW i \in present PROVE Stored(i, disk.conf[i])' = Stored(i, conf[i])'
    <2>1. disk'.conf[i] = Stored(i, conf[i]) BY <1>1, <1>6 DEF Persistent
    <2>2. [[conf[i] EXCEPT !.name = None] EXCEPT !.name = None]
            = [conf[i] EXCEPT !.name = None]
      BY <1>6 DEF Conf
    <2> QED BY <1>2, <2>1, <2>2 DEF Stored
  <1>8. disk'.enable = dslEnable' /\ disk'.present = present'
    BY <1>1, <1>2 DEF Persistent
  <1>9. \A i \in present' : Stored(i, disk.conf[i])' = Stored(i, conf[i])'
    BY <1>2, <1>7
  <1>10. present' \subseteq Ifs BY <1>2, <1>6
  <1>11. FreshInv' BY <1>5, SavingPrimed DEF FreshInv
  <1> QED BY <1>4, <1>8, <1>9, <1>10, <1>11, SavingPrimed DEF SavedInv

\* It holds at first, as no process runs, and every step keeps it.
LEMMA SavingInit == BootInit => SavingInv
  <1> SUFFICES ASSUME BootInit PROVE SavingInv OBVIOUS
  <1>1. phase = "stopped" BY DEF BootInit
  <1> QED BY <1>1, CalmBootInit DEF SavingInv, SavedInv, FreshInv

LEMMA SavingStep ==
    ASSUME CalmUser, NoStray PROVE SavingInv /\ [BootNext]_allVars => SavingInv'
  <1> SUFFICES ASSUME SavingInv, [BootNext]_allVars PROVE SavingInv' OBVIOUS
  <1>1. CalmBootInv /\ CalmBootInv' BY CalmBootStep DEF SavingInv
  <1>2. /\ IInv' /\ disk.present \in SUBSET Ifs /\ disk.enable \in BOOLEAN
        /\ phase # "running" => Blank
    BY <1>1 DEF CalmBootInv, BootInv, BootTypeOK
  <1>3. SUFFICES SavedInv' /\ FreshInv' BY <1>1 DEF SavingInv
  <1>4. CASE Start
    <2>1. PICK o \in InitOutcomes :
                 /\ phase' = IF o.rv = 0 THEN "running" ELSE "failed"
                 /\ IF o.rv = 0 THEN Load ELSE UNCHANGED vars
      BY <1>4 DEF Start
    <2>2. Blank /\ disk' = disk BY <1>2, <1>4 DEF Start
    <2>3. CASE o.rv = 0 BY <1>2, <2>1, <2>2, <2>3, LoadSaved
    <2>4. CASE o.rv # 0
      <3>1. phase' # "running" BY <2>1, <2>4
      <3> QED BY <3>1 DEF SavedInv, FreshInv
    <2> QED BY <2>3, <2>4
  <1>5. CASE Run(Loop) \/ Run(Timers) \/ Run(Resolver) \/ Run(NetModel) \/ Run(Users)
    BY <1>1, <1>5, RunSaved
  <1>6. CASE Save BY <1>2, <1>6, SaveSaved
  <1>7. CASE Stop \/ Crash \/ Reboot
    <2>1. phase' # "running" BY <1>7 DEF Stop, Crash, Gone, Reboot, bootVars
    <2> QED BY <2>1 DEF SavedInv, FreshInv
  <1>8. CASE UNCHANGED allVars
    <2>1. /\ UNCHANGED vars /\ phase' = phase /\ disk' = disk /\ saving' = saving
      BY <1>8 DEF allVars, bootVars
    <2>2. State' = State BY <2>1 DEF State, vars, dmVars, envVars, loopVars
    <2>3. /\ dslEnable' = dslEnable /\ present' = present /\ conf' = conf
          /\ readOnly' = readOnly
      BY <2>1 DEF vars, dmVars
    <2>4. present' \subseteq Ifs BY <1>2 DEF IInv, TypeOK
    <2>5. FreshInv' BY <2>1, <2>2, SavingPrimed DEF SavingInv, FreshInv
    <2>6. SavedInv'
      BY <2>1, <2>2, <2>3, <2>4, SavingPrimed DEF SavingInv, SavedInv, Stored
    <2> QED BY <2>5, <2>6
  <1> QED BY <1>4, <1>5, <1>6, <1>7, <1>8 DEF BootNext

LEMMA SavingHolds == ASSUME CalmUser, NoStray PROVE BootSpec => []SavingInv
  <1>1. SavingInv /\ [BootNext]_allVars => SavingInv' BY SavingStep
  <1> QED BY <1>1, SavingInit, PTL DEF BootSpec

\* Whenever the events are handled and no save is due, a process that ends at
\* this moment leaves all it was told to the next one, up to names that are not
\* persistent: also when events were lost with the processes before it.
THEOREM SavedOnceIdle == ASSUME CalmUser, NoStray PROVE BootSpec => []SavedWhenIdle
  <1>1. SavingInv => SavedWhenIdle BY DEF SavingInv, SavedInv, SavedWhenIdle
  <1> QED BY <1>1, SavingHolds, PTL
=============================================================================
