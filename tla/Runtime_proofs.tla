--------------------------- MODULE Runtime_proofs ---------------------------
(***************************************************************************)
(* The processes around the sale: what the health monitor saw is what it   *)
(* blocks, for any devices; a program that ends stops its loops before its *)
(* devices and lets go of what it opened, for any programs, devices and    *)
(* order of cancellation; and the kiosk forgets a sale that is collecting  *)
(* money only in the ways its property names.  With the types of these     *)
(* modules those of all are together, and the last part shows that a       *)
(* behaviour of the parts is one of each module.                           *)
(***************************************************************************)
EXTENDS MCParts, Devices_proofs, Records_proofs, FiniteSetTheorems, TLAPS

(***************************************************************************)
(* Supervision.  The invariant follows the poll: from its last device on,   *)
(* the device reasons in sale_blockers are those of the devices found       *)
(* faulty and of the sensors that this poll has already read and that hung. *)
(***************************************************************************)

\* Where the devices of this poll are all judged.
Judged == {"reports", "door", "door alarm", "temperature", "temperature alarm", "kicks", "rests"}

\* The sensors this poll has read, by where it is.
ReadBy(poll) ==
    {s \in Sensors :
        \/ s = "door" /\ poll \in {"door alarm", "temperature", "temperature alarm",
                                    "kicks", "rests"}
        \/ s = "temperature" /\ poll \in {"temperature alarm", "kicks", "rests"}}

FaultsFound ==
    loop \in Judged =>
        \A x \in PolledDevices :
            DeviceFault(x) \in blocks <=>
                \/ seen.device[x] # "ready"
                \/ x \in ReadBy(loop) /\ seen.sensor[x] = "hangs"

AlarmsFound ==
    \A s \in Sensors :
        /\ seen.sensor[s] = "bad" => SensorAlarm(s) \in blocks
        /\ seen.sensor[s] = "good" => SensorAlarm(s) \notin blocks

SupervisionInv == SupervisionTypeOK /\ AlarmsFound /\ FaultsFound

LEMMA KeysApart ==
    \A x, y : /\ DeviceFault(x) # SensorAlarm(y)
              /\ DeviceFault(x) = DeviceFault(y) => x = y
              /\ SensorAlarm(x) = SensorAlarm(y) => x = y
BY DEF DeviceFault, SensorAlarm

LEMMA SupervisionStarts == SupervisionInit => SupervisionInv
<1> SUFFICES ASSUME SupervisionInit PROVE SupervisionInv
    OBVIOUS
<1>1. SupervisionTypeOK
    BY SupervisionAssumption DEF SupervisionInit, SupervisionTypeOK, Places, Subjects
<1>2. AlarmsFound
    BY DEF SupervisionInit, AlarmsFound
<1>3. FaultsFound
    BY DEF SupervisionInit, FaultsFound, Judged
<1> QED BY <1>1, <1>2, <1>3 DEF SupervisionInv

\* Phases 1 and 2 of a poll: a device is asked; after the last all are judged.
LEMMA AskDeviceKeeps ==
    ASSUME SupervisionInv, NEW d \in PolledDevices, AskDevice(d) PROVE SupervisionInv'
<1> DEFINE faulty == {e \in PolledDevices : seen'.device[e] # "ready"}
<1>1. CASE unasked = {d}
    <2>1. /\ blocks' = {b \in blocks : \A e \in PolledDevices : b # DeviceFault(e)}
                          \cup {DeviceFault(e) : e \in faulty}
          /\ loop' = IF faulty = {} THEN AfterDevices ELSE "reports"
        BY <1>1 DEF AskDevice
    <2>2. seen' = [seen EXCEPT !.device[d] = answers[d]] /\ unasked' = {}
        BY <1>1 DEF AskDevice
    <2>3. SupervisionTypeOK'
        <3>1. blocks' \subseteq {"device_fault", "alarm"} \X Subjects
            BY <2>1 DEF SupervisionInv, SupervisionTypeOK, DeviceFault, Subjects
        <3>2. loop' \in Places
            BY <2>1 DEF AfterDevices, Places
        <3> QED BY <2>2, <3>1, <3>2 DEF SupervisionInv, SupervisionTypeOK, AskDevice
    <2>4. AlarmsFound'
        <3> SUFFICES ASSUME NEW s \in Sensors
                     PROVE  /\ seen'.sensor[s] = seen.sensor[s]
                            /\ SensorAlarm(s) \in blocks' <=> SensorAlarm(s) \in blocks
            BY DEF SupervisionInv, AlarmsFound
        <3>1. seen'.sensor[s] = seen.sensor[s]
            BY <2>2 DEF SupervisionInv, SupervisionTypeOK
        <3>2. SensorAlarm(s) \in blocks' <=> SensorAlarm(s) \in blocks
            BY <2>1, KeysApart
        <3> QED BY <3>1, <3>2
    <2>5. FaultsFound'
        <3>1. ReadBy(loop') = {}
            BY <2>1, SupervisionAssumption DEF ReadBy, AfterDevices
        <3>2. \A x \in PolledDevices : DeviceFault(x) \in blocks' <=> x \in faulty
            BY <2>1, KeysApart
        <3> QED BY <3>1, <3>2 DEF FaultsFound
    <2> QED BY <2>3, <2>4, <2>5 DEF SupervisionInv
<1>2. CASE unasked # {d}
    <2>1. UNCHANGED <<blocks, loop, answers, readings, watchdog, worldSteps>> /\ loop = "asks"
        BY <1>2 DEF AskDevice
    <2>2. seen' = [seen EXCEPT !.device[d] = answers[d]] /\ unasked' \subseteq PolledDevices
        BY DEF AskDevice, SupervisionInv, SupervisionTypeOK
    <2>3. SupervisionTypeOK'
        BY <2>1, <2>2 DEF SupervisionInv, SupervisionTypeOK
    <2>4. AlarmsFound'
        BY <2>1, <2>2 DEF SupervisionInv, SupervisionTypeOK, AlarmsFound
    <2>5. FaultsFound'
        BY <2>1 DEF FaultsFound, Judged
    <2> QED BY <2>3, <2>4, <2>5 DEF SupervisionInv
<1> QED BY <1>1, <1>2

\* Phase 4: one sensor is read.
LEMMA ReadSensorKeeps ==
    ASSUME SupervisionInv, NEW s \in Sensors, ReadSensor(s) PROVE SupervisionInv'
<1>1. /\ loop = s /\ s \in {"door", "temperature"} /\ s \in PolledDevices
      /\ readings[s] \in {"good", "bad", "hangs"}
    BY SupervisionAssumption DEF ReadSensor, SupervisionInv, SupervisionTypeOK
<1>2. seen' = [seen EXCEPT !.sensor[s] = readings[s]]
    BY DEF ReadSensor
<1>3. blocks' = CASE readings[s] = "good"  -> blocks \ {SensorAlarm(s)}
                  [] readings[s] = "bad"   -> blocks \cup {SensorAlarm(s)}
                  [] readings[s] = "hangs" -> blocks \cup {DeviceFault(s)}
    BY DEF ReadSensor, AlarmsAfter
<1>4. loop' = IF readings[s] # "bad" THEN AfterSensor(s)
              ELSE IF s = "door" THEN "door alarm" ELSE "temperature alarm"
    BY DEF ReadSensor
<1>5. SupervisionTypeOK'
    <2>1. loop' \in Places
        BY <1>4 DEF AfterSensor, Places
    <2>2. blocks' \subseteq {"device_fault", "alarm"} \X Subjects
        BY <1>1, <1>3 DEF SupervisionInv, SupervisionTypeOK, DeviceFault, SensorAlarm, Subjects
    <2>3. seen' \in [device : [PolledDevices -> {"none", "ready", "fault", "hangs"}],
                     sensor : [Sensors -> {"none", "good", "bad", "hangs"}]]
        BY <1>1, <1>2 DEF SupervisionInv, SupervisionTypeOK
    <2> QED BY <2>1, <2>2, <2>3 DEF SupervisionInv, SupervisionTypeOK, ReadSensor
<1>6. AlarmsFound'
    <2> SUFFICES ASSUME NEW x \in Sensors
                 PROVE  /\ seen'.sensor[x] = "bad" => SensorAlarm(x) \in blocks'
                        /\ seen'.sensor[x] = "good" => SensorAlarm(x) \notin blocks'
        BY DEF AlarmsFound
    <2>1. CASE x = s
        <3>1. seen'.sensor[x] = readings[s]
            BY <1>2, <2>1 DEF SupervisionInv, SupervisionTypeOK
        <3> QED BY <1>1, <1>3, <2>1, <3>1
    <2>2. CASE x # s
        <3>1. seen'.sensor[x] = seen.sensor[x]
            BY <1>2, <2>2 DEF SupervisionInv, SupervisionTypeOK
        <3>2. SensorAlarm(x) \in blocks' <=> SensorAlarm(x) \in blocks
            BY <1>1, <1>3, <2>2, KeysApart
        <3> QED BY <3>1, <3>2 DEF SupervisionInv, AlarmsFound
    <2> QED BY <2>1, <2>2
<1>7. FaultsFound'
    <2>1. s \notin ReadBy(loop) /\ ReadBy(loop') = ReadBy(loop) \cup {s}
        BY <1>1, <1>4, SupervisionAssumption DEF ReadBy, AfterSensor
    <2>2. \A x \in PolledDevices : DeviceFault(x) \in blocks <=>
              \/ seen.device[x] # "ready"
              \/ x \in ReadBy(loop) /\ seen.sensor[x] = "hangs"
        BY <1>1 DEF SupervisionInv, FaultsFound, Judged
    <2> SUFFICES ASSUME NEW x \in PolledDevices
                 PROVE  DeviceFault(x) \in blocks' <=>
                            \/ seen'.device[x] # "ready"
                            \/ x \in ReadBy(loop') /\ seen'.sensor[x] = "hangs"
        BY DEF FaultsFound
    <2>3. seen'.device[x] = seen.device[x]
        BY <1>2 DEF SupervisionInv, SupervisionTypeOK
    <2>4. CASE x = s
        <3>1. seen'.sensor[x] = readings[s]
            BY <1>2, <2>4 DEF SupervisionInv, SupervisionTypeOK
        <3>2. DeviceFault(x) \in blocks' <=> DeviceFault(x) \in blocks \/ readings[s] = "hangs"
            BY <1>1, <1>3, <2>4, KeysApart
        <3> QED BY <2>1, <2>2, <2>3, <2>4, <3>1, <3>2
    <2>5. CASE x # s
        <3>1. x \in Sensors => seen'.sensor[x] = seen.sensor[x]
            BY <1>2, <2>5 DEF SupervisionInv, SupervisionTypeOK
        <3>2. DeviceFault(x) \in blocks' <=> DeviceFault(x) \in blocks
            BY <1>1, <1>3, <2>5, KeysApart
        <3>3. x \in ReadBy(loop) => x \in Sensors
            BY DEF ReadBy
        <3> QED BY <2>1, <2>2, <2>3, <2>5, <3>1, <3>2, <3>3
    <2> QED BY <2>4, <2>5
<1> QED BY <1>5, <1>6, <1>7 DEF SupervisionInv

\* Steps that leave what was seen and what is blocked alone, and move the loop to
\* where it has judged nothing, or on past what it has read.
LEMMA QuietStepKeeps ==
    ASSUME SupervisionInv, UNCHANGED <<seen, blocks>>, SupervisionTypeOK',
           loop' \in Judged => loop \in Judged /\ ReadBy(loop') = ReadBy(loop)
    PROVE  SupervisionInv'
BY DEF SupervisionInv, AlarmsFound, FaultsFound

LEMMA SupervisionKept == SupervisionInv /\ [SupervisionNext]_supervisionVars => SupervisionInv'
<1> SUFFICES ASSUME SupervisionInv, [SupervisionNext]_supervisionVars PROVE SupervisionInv'
    OBVIOUS
<1> USE SupervisionAssumption
<1>1. CASE BeginPoll
    BY <1>1, QuietStepKeeps
    DEF BeginPoll, SupervisionInv, SupervisionTypeOK, Places, Judged
<1>2. CASE Reported
    <2>1. ReadBy(loop') = ReadBy(loop) /\ loop \in Judged
        BY <1>2 DEF Reported, AfterDevices, AfterSensor, ReadBy, Judged
    <2>2. SupervisionTypeOK'
        BY <1>2 DEF Reported, AfterDevices, AfterSensor, SupervisionInv, SupervisionTypeOK, Places
    <2> QED BY <1>2, <2>1, <2>2, QuietStepKeeps DEF Reported
<1>3. CASE Kick
    <2>1. ReadBy(loop') = ReadBy(loop) /\ loop \in Judged
        BY <1>3 DEF Kick, ReadBy, Judged
    <2>2. SupervisionTypeOK'
        BY <1>3 DEF Kick, SupervisionInv, SupervisionTypeOK, Places
    <2> QED BY <1>3, <2>1, <2>2, QuietStepKeeps DEF Kick
<1>4. CASE \E d \in PolledDevices : AskDevice(d)
    BY <1>4, AskDeviceKeeps
<1>5. CASE \E s \in Sensors : ReadSensor(s)
    BY <1>5, ReadSensorKeeps
<1>6. CASE PollRaises \/ StopRuntime
    <2>1. loop' \in {"ended", "stopped"} /\ UNCHANGED <<seen, blocks>>
        BY <1>6 DEF PollRaises, StopRuntime
    <2>2. worldSteps' \in 0 .. MaxWorldSteps
        <3>1. worldSteps < MaxWorldSteps /\ worldSteps' = worldSteps + 1
            BY <1>6 DEF PollRaises, StopRuntime, WorldStep
        <3>2. worldSteps \in 0 .. MaxWorldSteps /\ MaxWorldSteps \in Nat
            BY SupervisionAssumption DEF SupervisionInv, SupervisionTypeOK
        <3> HIDE SupervisionAssumption
        <3> QED BY <3>1, <3>2
    <2>3. SupervisionTypeOK'
        BY <1>6, <2>1, <2>2
        DEF PollRaises, StopRuntime, SupervisionInv, SupervisionTypeOK, Places
    <2> QED BY <2>1, <2>3, QuietStepKeeps DEF Judged
<1>7. CASE \E d \in PolledDevices : \E a \in {"ready", "fault", "hangs"} : DeviceChanges(d, a)
    BY <1>7, QuietStepKeeps
    DEF DeviceChanges, WorldStep, SupervisionInv, SupervisionTypeOK
<1>8. CASE \E s \in Sensors : \E r \in {"good", "bad", "hangs"} : SensorChanges(s, r)
    BY <1>8, QuietStepKeeps
    DEF SensorChanges, WorldStep, SupervisionInv, SupervisionTypeOK
<1>9. CASE UNCHANGED supervisionVars
    BY <1>9, QuietStepKeeps DEF supervisionVars, SupervisionInv, SupervisionTypeOK
<1> QED BY <1>1, <1>2, <1>3, <1>4, <1>5, <1>6, <1>7, <1>8, <1>9 DEF SupervisionNext, PollStep

LEMMA SupervisionInvGives == SupervisionInv => WhatIsSeenIsBlocked
<1> SUFFICES ASSUME SupervisionInv PROVE WhatIsSeenIsBlocked
    OBVIOUS
<1>1. loop = "rests" =>
          \A x \in PolledDevices :
              DeviceFault(x) \in blocks <=>
                  \/ seen.device[x] # "ready"
                  \/ x \in Sensors /\ seen.sensor[x] = "hangs"
    <2> SUFFICES ASSUME loop = "rests" PROVE \A x \in PolledDevices :
              DeviceFault(x) \in blocks <=>
                  \/ seen.device[x] # "ready"
                  \/ x \in Sensors /\ seen.sensor[x] = "hangs"
        OBVIOUS
    <2>1. ReadBy(loop) = Sensors
        BY SupervisionAssumption DEF ReadBy
    <2> QED BY <2>1 DEF SupervisionInv, FaultsFound, Judged
<1> QED BY <1>1, SupervisionAssumption
        DEF SupervisionInv, AlarmsFound, WhatIsSeenIsBlocked, Subjects

\* A resting monitor blocks sales for exactly what its last poll found, whichever
\* devices it watches, and an alarm once seen stays until a reading takes it back.
THEOREM SeenIsBlocked == SupervisionSpec => []WhatIsSeenIsBlocked
<1>1. SupervisionSpec => []SupervisionInv
    BY SupervisionStarts, SupervisionKept, PTL DEF SupervisionSpec
<1>2. SupervisionInv => WhatIsSeenIsBlocked
    BY SupervisionInvGives
<1> QED BY <1>1, <1>2, PTL

(***************************************************************************)
(* The process life cycle.  Stage by stage: what a process still has running *)
(* and open, which of its devices are still to be stopped, and what it owes. *)
(***************************************************************************)

LifecycleTyped ==
    /\ life \in [Programs -> Lives] /\ place \in [Programs -> Int]
    /\ devices \in [Programs -> SUBSET (1 .. Managed)] /\ loops \in [Programs -> SUBSET Loops]
    /\ jammed \in [Programs -> SUBSET Int]
    /\ memory \in [Programs -> [drift : BOOLEAN, sale : Nat]]
    /\ stored \in [drift : BOOLEAN, sale : Nat]

\* What a process has running and open, by how far it is.
Holds(p) ==
    /\ life[p] \in {"out", "gone", "died"} => p \notin opened
    /\ life[p] \notin {"looping", "running", "cancelling"} => loops[p] = {}
    /\ life[p] = "cancelling" =>
          /\ place[p] >= 1
          /\ \A l \in loops[p] : \E i \in DOMAIN CancelOrder : i >= place[p] /\ CancelOrder[i] = l

\* Which of its devices are still to be stopped.
Stopped(p) ==
    /\ life[p] \in {"out", "built"} => devices[p] = {}
    /\ life[p] = "starting" => place[p] >= 1
    /\ life[p] \in {"out", "built", "starting", "started", "looping"} => p \notin ran
    /\ life[p] = "stopping" =>
          /\ place[p] <= Managed
          /\ \A d \in devices[p] : d \in jammed[p] \/ d <= place[p]
    /\ life[p] \in {"saved", "gone"} => devices[p] \subseteq jammed[p]
    /\ p \in Kiosks \cap ran /\ life[p] = "died" => devices[p] \subseteq jammed[p]

\* What the last writer left.
Left(p) ==
    /\ life[p] \in {"out", "built", "starting", "started"} => writer # p
    /\ life[p] \in {"saved", "gone"} /\ writer = p =>
          /\ stored.drift = memory[p].drift
          /\ p \in Tools => stored.sale = memory[p].sale

LifecycleInvariant == LifecycleTyped /\ \A p \in Programs : Holds(p) /\ Stopped(p) /\ Left(p)

LEMMA LifecycleStarts == LifecycleInit => LifecycleInvariant
<1> SUFFICES ASSUME LifecycleInit PROVE LifecycleInvariant
    OBVIOUS
<1>1. /\ life \in [Programs -> Lives] /\ place \in [Programs -> Int]
      /\ devices \in [Programs -> SUBSET (1 .. Managed)] /\ loops \in [Programs -> SUBSET Loops]
      /\ jammed \in [Programs -> SUBSET Int]
    BY DEF LifecycleInit, Lives
<1>2. memory \in [Programs -> [drift : BOOLEAN, sale : Nat]]
    BY DEF LifecycleInit
<1>3. stored \in [drift : BOOLEAN, sale : Nat]
    BY DEF LifecycleInit
<1>4. \A p \in Programs : Holds(p) /\ Stopped(p) /\ Left(p)
    BY LifecycleAssumption DEF LifecycleInit, Holds, Stopped, Left, Programs
<1> QED BY <1>1, <1>2, <1>3, <1>4 DEF LifecycleInvariant, LifecycleTyped

LEMMA GoesToTyped ==
    ASSUME LifecycleTyped, NEW p \in Programs, NEW went \in Lives, NEW n \in Int, GoesTo(p, went, n)
    PROVE  /\ life' \in [Programs -> Lives] /\ place' \in [Programs -> Int]
           /\ life'[p] = went /\ place'[p] = n
BY DEF LifecycleTyped, GoesTo

\* A step of p: what it does to p's own entries, and to what all share.
Own(p, q) ==
    /\ life'[q] = life[q] /\ place'[q] = place[q] /\ devices'[q] = devices[q]
    /\ loops'[q] = loops[q] /\ jammed'[q] = jammed[q] /\ memory'[q] = memory[q]
    /\ (q \in opened' <=> q \in opened) /\ (q \in ran' <=> q \in ran)
    /\ UNCHANGED <<stored, writer>> \/ writer' = p

LEMMA OthersKept ==
    ASSUME LifecycleInvariant, NEW p \in Programs, NEW q \in Programs, q # p, Own(p, q)
    PROVE  Holds(q)' /\ Stopped(q)' /\ Left(q)'
<1>1. Holds(q) /\ Stopped(q) /\ Left(q)
    BY DEF LifecycleInvariant
<1>2. Holds(q)'
    BY <1>1 DEF Own, Holds
<1>3. Stopped(q)'
    BY <1>1 DEF Own, Stopped
<1>4. Left(q)'
    BY <1>1 DEF Own, Left
<1> QED BY <1>2, <1>3, <1>4

Step(p) ==
    \/ Refuse(p) \/ Build(p) \/ BeginStart(p) \/ StartDevice(p) \/ Restore(p)
    \/ StartRuntime(p) \/ CompleteStart(p) \/ SaleStep(p) \/ SaleSaved(p) \/ ClearDrift(p)
    \/ Leave(p) \/ BeginStop(p) \/ CancelGroup(p) \/ StopDevice(p) \/ SaveAtStop(p) \/ Close(p)

LEMMA OwnStep ==
    ASSUME LifecycleTyped, NEW p \in Programs, Step(p), NEW q \in Programs, q # p
    PROVE  Own(p, q)
<1> USE DEF LifecycleTyped, Own, GoesTo
<1>1. CASE Refuse(p) \/ BeginStart(p) \/ BeginStop(p)
    BY <1>1 DEF Refuse, BeginStart, BeginStop
<1>2. CASE Build(p) \/ Restore(p) \/ ClearDrift(p)
    BY <1>2 DEF Build, Restore, ClearDrift
<1>3. CASE StartDevice(p)
    BY <1>3 DEF StartDevice
<1>4. CASE StartRuntime(p)
    BY <1>4 DEF StartRuntime, Dies
<1>5. CASE CompleteStart(p)
    BY <1>5 DEF CompleteStart, Dies, Persists
<1>6. CASE SaleStep(p) \/ SaleSaved(p)
    BY <1>6 DEF SaleStep, SaleSaved
<1>7. CASE Leave(p) \/ Close(p)
    BY <1>7 DEF Leave, Close
<1>8. CASE CancelGroup(p)
    BY <1>8 DEF CancelGroup
<1>9. CASE StopDevice(p)
    BY <1>9 DEF StopDevice, Swallowed
<1>10. CASE SaveAtStop(p)
    BY <1>10 DEF SaveAtStop, Dies, Persists
<1> QED BY <1>1, <1>2, <1>3, <1>4, <1>5, <1>6, <1>7, <1>8, <1>9, <1>10 DEF Step

LEMMA StepTyped ==
    ASSUME LifecycleInvariant, NEW p \in Programs, Step(p)
    PROVE  LifecycleTyped'
<1>0. LifecycleTyped /\ Stopped(p)
    BY DEF LifecycleInvariant
<1>1. /\ "gone" \in Lives /\ "built" \in Lives /\ "starting" \in Lives /\ "started" \in Lives
      /\ "looping" \in Lives /\ "running" \in Lives /\ "cancelling" \in Lives
      /\ "stopping" \in Lives /\ "saved" \in Lives /\ "died" \in Lives
    BY DEF Lives
<1>2. /\ Managed \in Int /\ place[p] \in Int /\ place[p] + 1 \in Int /\ place[p] - 1 \in Int
    BY <1>0, LifecycleAssumption DEF LifecycleTyped
<1>3. life' \in [Programs -> Lives] /\ place' \in [Programs -> Int]
    <2>1. CASE \E went \in Lives, n \in Int : GoesTo(p, went, n)
        BY <1>0, <2>1, GoesToTyped
    <2>2. CASE UNCHANGED <<life, place>>
        BY <1>0, <2>2 DEF LifecycleTyped
    <2>3. \/ \E went \in Lives, n \in Int : GoesTo(p, went, n)
          \/ UNCHANGED <<life, place>>
        <3>1. CASE Refuse(p) \/ Build(p) \/ BeginStart(p) \/ Restore(p) \/ Leave(p) \/ BeginStop(p) \/ Close(p)
            BY <1>1, <3>1 DEF Refuse, Build, BeginStart, Restore, Leave, BeginStop, Close
        <3>2. CASE StartDevice(p) \/ StopDevice(p)
            BY <1>1, <1>2, <3>2 DEF StartDevice, StopDevice, Swallowed
        <3>3. CASE StartRuntime(p) \/ CompleteStart(p) \/ SaveAtStop(p)
            BY <1>1, <3>3 DEF StartRuntime, CompleteStart, SaveAtStop, Dies
        <3>4. CASE CancelGroup(p)
            BY <1>1, <1>2, <3>4 DEF CancelGroup
        <3>5. CASE SaleStep(p) \/ SaleSaved(p) \/ ClearDrift(p)
            BY <3>5 DEF SaleStep, SaleSaved, ClearDrift
        <3> QED BY <3>1, <3>2, <3>3, <3>4, <3>5 DEF Step
    <2> QED BY <2>1, <2>2, <2>3
<1>4. /\ devices' \in [Programs -> SUBSET (1 .. Managed)] /\ jammed' \in [Programs -> SUBSET Int]
    <2>1. CASE StartDevice(p)
        <3>1. place[p] \in 1..Managed
            BY <1>0, <1>2, <2>1 DEF StartDevice, Stopped
        <3> QED BY <1>0, <2>1, <3>1 DEF StartDevice, LifecycleTyped
    <2>2. CASE StopDevice(p)
        <3>1. \/ devices' = [devices EXCEPT ![p] = @ \ {place[p]}] /\ jammed' = jammed
              \/ devices' = devices /\ jammed' = [jammed EXCEPT ![p] = @ \cup {place[p]}]
            BY <2>2 DEF StopDevice, Swallowed
        <3>2. CASE devices' = [devices EXCEPT ![p] = @ \ {place[p]}] /\ jammed' = jammed
            BY <1>0, <3>2 DEF LifecycleTyped
        <3>3. CASE devices' = devices /\ jammed' = [jammed EXCEPT ![p] = @ \cup {place[p]}]
            BY <1>0, <1>2, <3>3 DEF LifecycleTyped
        <3> QED BY <3>1, <3>2, <3>3
    <2>3. CASE ~StartDevice(p) /\ ~StopDevice(p)
        BY <1>0, <2>3 DEF LifecycleTyped, Step, Refuse, Build, BeginStart, Restore, StartRuntime, CompleteStart,
           SaleStep, SaleSaved, ClearDrift, Leave, BeginStop, CancelGroup, SaveAtStop, Close
    <2> QED BY <2>1, <2>2, <2>3
<1>5. loops' \in [Programs -> SUBSET Loops]
    BY <1>0 DEF LifecycleTyped, Step, Refuse, Build, BeginStart, StartDevice, Restore, StartRuntime, CompleteStart,
       SaleStep, SaleSaved, ClearDrift, Leave, BeginStop, CancelGroup, StopDevice, Swallowed, SaveAtStop, Close, Dies
<1>6. memory' \in [Programs -> [drift : BOOLEAN, sale : Nat]] /\ stored' \in [drift : BOOLEAN, sale : Nat]
    <2> DEFINE Memory == [drift : BOOLEAN, sale : Nat]
    <2>0. /\ memory[p] \in Memory /\ stored \in Memory /\ memory[p].sale + 1 \in Nat
          /\ memory \in [Programs -> Memory]
        BY <1>0 DEF LifecycleTyped
    <2>1. CASE Build(p) \/ Restore(p) \/ ClearDrift(p)
        <3>1. PICK m \in Memory : memory' = [memory EXCEPT ![p] = m]
            <4>1. /\ [memory[p] EXCEPT !.drift = stored.drift] \in Memory
                  /\ [memory[p] EXCEPT !.drift = FALSE] \in Memory
                  /\ [memory[p] EXCEPT !.sale = stored.sale] \in Memory
                BY <2>0
            <4> QED BY <2>1, <4>1 DEF Build, Restore, ClearDrift
        <3> QED BY <2>0, <2>1, <3>1 DEF Build, Restore, ClearDrift
    <2>2. CASE SaleStep(p)
        <3>1. PICK drift \in {memory[p].drift, TRUE} :
                  memory' = [memory EXCEPT ![p] = [drift |-> drift, sale |-> @.sale + 1]]
            BY <2>2 DEF SaleStep
        <3>2. [drift |-> drift, sale |-> memory[p].sale + 1] \in Memory
            BY <2>0, <3>1
        <3> QED BY <2>0, <2>2, <3>1, <3>2 DEF SaleStep
    <2>3. CASE SaleSaved(p)
        BY <1>0, <2>3 DEF LifecycleTyped, SaleSaved
    <2>4. CASE CompleteStart(p) \/ SaveAtStop(p)
        <3>1. Snapshot(p) \in [drift : BOOLEAN, sale : Nat]
            BY <1>0 DEF LifecycleTyped, Snapshot
        <3> QED BY <1>0, <2>4, <3>1 DEF LifecycleTyped, CompleteStart, SaveAtStop, Persists
    <2>5. CASE UNCHANGED <<memory, stored>>
        BY <1>0, <2>5 DEF LifecycleTyped
    <2> QED BY <2>1, <2>2, <2>3, <2>4, <2>5 DEF Step, Refuse, BeginStart, StartDevice, StartRuntime, Leave,
           BeginStop, CancelGroup, StopDevice, Close
<1> QED BY <1>3, <1>4, <1>5, <1>6 DEF LifecycleTyped

\* What a step makes of its own process.
LEMMA OwnKept ==
    ASSUME LifecycleInvariant, NEW p \in Programs, Step(p)
    PROVE  Holds(p)' /\ Stopped(p)' /\ Left(p)'
<1>0. LifecycleTyped /\ Holds(p) /\ Stopped(p) /\ Left(p)
    BY DEF LifecycleInvariant
<1> USE DEF LifecycleTyped, GoesTo, Holds, Stopped, Left
<1>1. CASE Refuse(p)
    BY <1>0, <1>1 DEF Refuse
<1>2. CASE Build(p)
    BY <1>0, <1>2 DEF Build
<1>3. CASE BeginStart(p)
    BY <1>0, <1>3 DEF BeginStart
<1>4. CASE StartDevice(p)
    BY <1>0, <1>4 DEF StartDevice
<1>5. CASE Restore(p)
    BY <1>0, <1>5 DEF Restore
<1>6. CASE StartRuntime(p)
    BY <1>0, <1>6 DEF StartRuntime, Dies
<1>7. CASE CompleteStart(p)
    BY <1>0, <1>7 DEF CompleteStart, Dies, Persists
<1>8. CASE SaleStep(p)
    BY <1>0, <1>8 DEF SaleStep
<1>9. CASE SaleSaved(p)
    BY <1>0, <1>9 DEF SaleSaved
<1>10. CASE ClearDrift(p)
    BY <1>0, <1>10 DEF ClearDrift
<1>11. CASE Leave(p)
    BY <1>0, <1>11 DEF Leave
<1>12. CASE BeginStop(p)
    <2>1. \A l \in loops[p] : \E i \in DOMAIN CancelOrder : i >= 1 /\ CancelOrder[i] = l
        BY <1>0, LifecycleAssumption DEF Loops, ToSet
    <2> QED BY <1>0, <1>12, <2>1 DEF BeginStop
<1>13. CASE CancelGroup(p)
    <2>1. DOMAIN CancelOrder = 1..Len(CancelOrder) /\ Len(CancelOrder) \in Nat /\ Managed \in Nat
        BY LifecycleAssumption
    <2>2. CASE place[p] <= Len(CancelOrder)
        BY <1>0, <1>13, <2>1, <2>2 DEF CancelGroup
    <2>3. CASE ~(place[p] <= Len(CancelOrder))
        <3>1. loops[p] = {}
            BY <1>0, <1>13, <2>1, <2>3 DEF CancelGroup
        <3>2. \A d \in devices[p] : d <= Managed
            BY <1>0, <2>1
        <3> QED BY <1>0, <1>13, <2>1, <2>3, <3>1, <3>2 DEF CancelGroup
    <2> QED BY <2>2, <2>3
<1>14. CASE StopDevice(p)
    <2>1. \A d \in devices[p] : d \in Int
        BY <1>0
    <2>2. /\ life[p] = "stopping" /\ place[p] \in Int /\ place[p] > 0
          /\ life'[p] = "stopping" /\ place'[p] = place[p] - 1
          /\ UNCHANGED <<opened, loops>>
        BY <1>0, <1>14 DEF StopDevice, Swallowed
    <2>3. place'[p] <= Managed
        BY <1>0, <2>2, LifecycleAssumption
    <2>4. \A d \in devices'[p] : d \in devices[p] /\ (d # place[p] \/ d \in jammed'[p])
        BY <1>0, <1>14 DEF StopDevice, Swallowed
    <2>5. \A d \in jammed[p] : d \in jammed'[p]
        BY <1>0, <1>14 DEF StopDevice, Swallowed
    <2>6. \A d \in devices'[p] : d \in jammed'[p] \/ d <= place'[p]
        <3> SUFFICES ASSUME NEW d \in devices'[p], d \notin jammed'[p] PROVE d <= place'[p]
            OBVIOUS
        <3>1. d \in Int /\ d # place[p] /\ d <= place[p]
            BY <1>0, <2>1, <2>2, <2>4, <2>5
        <3> HIDE DEF LifecycleTyped, Stopped, Holds, Left
        <3> QED BY <2>2, <3>1
    <2> QED BY <1>0, <2>2, <2>3, <2>6
<1>15. CASE SaveAtStop(p)
    <2>1. devices[p] \subseteq jammed[p]
        BY <1>0, <1>15 DEF SaveAtStop
    <2> QED BY <1>0, <1>15, <2>1 DEF SaveAtStop, Dies, Persists, Snapshot
<1>16. CASE Close(p)
    BY <1>0, <1>16 DEF Close
<1> QED BY <1>1, <1>2, <1>3, <1>4, <1>5, <1>6, <1>7, <1>8, <1>9, <1>10, <1>11, <1>12, <1>13, <1>14,
        <1>15, <1>16 DEF Step

LEMMA LifecycleKept == LifecycleInvariant /\ [LifecycleNext]_lifecycleVars => LifecycleInvariant'
<1> SUFFICES ASSUME LifecycleInvariant, [LifecycleNext]_lifecycleVars PROVE LifecycleInvariant'
    OBVIOUS
<1>1. ASSUME NEW p \in Programs, Step(p) PROVE LifecycleInvariant'
    <2>1. \A q \in Programs \ {p} : Own(p, q)
        BY <1>1, OwnStep DEF LifecycleInvariant
    <2>2. \A q \in Programs \ {p} : Holds(q)' /\ Stopped(q)' /\ Left(q)'
        BY <2>1, OthersKept
    <2> QED BY <1>1, <2>2, StepTyped, OwnKept DEF LifecycleInvariant
<1>2. CASE UNCHANGED lifecycleVars
    BY <1>2 DEF lifecycleVars, LifecycleInvariant, LifecycleTyped, Holds, Stopped, Left
<1> QED BY <1>1, <1>2 DEF LifecycleNext, Step

\* However a process ends - in order, by a failed start, an interrupt or a crash -
\* its loops are over, its connection is closed and, where it ended in order, the
\* devices that could be stopped are.
THEOREM ProcessesEndInOrder == LifecycleSpec => []OrderlyEnd
<1>1. LifecycleSpec => []LifecycleInvariant
    BY LifecycleStarts, LifecycleKept, PTL DEF LifecycleSpec
<1>2. LifecycleInvariant => OrderlyEnd
    BY DEF LifecycleInvariant, Holds, Stopped, Left, OrderlyEnd, Programs
<1> QED BY <1>1, <1>2, PTL

(***************************************************************************)
(* The kiosk.  A coroutine of the presenter that is suspended works for a  *)
(* sale, and at most one sale is open.                                     *)
(***************************************************************************)

\* A coroutine that is suspended works for a sale.
TapsHaveOrders == \A p \in Taps : tap[p].does # "rest" => tap[p].for \in Orders

OneSaleOpen == \A t, u \in Orders : stage[t] \in Open /\ stage[u] \in Open => t = u

KioskInvariant ==
    /\ stage \in [Orders -> {"unborn", "closed"} \cup Open]
    /\ order \in Orders \cup {NoOrder} /\ DOMAIN tap = Taps
    /\ TapsHaveOrders /\ OneSaleOpen

LEMMA KioskStarts == KioskInit => KioskInvariant
BY DEF KioskInit, KioskInvariant, TapsHaveOrders, OneSaleOpen, Rest, Open

\* Each way a sale moves on, by itself: no second one opens.
LEMMA MovesOn ==
    ASSUME KioskInvariant, NEW t \in Orders, NEW to \in {"closed"} \cup Open,
           stage' = [stage EXCEPT ![t] = to],
           Busy = {} \/ stage[t] \in Open \/ to \notin Open
    PROVE  /\ stage' \in [Orders -> {"unborn", "closed"} \cup Open]
           /\ OneSaleOpen'
BY DEF KioskInvariant, OneSaleOpen, Busy, Open

LEMMA TapsGo ==
    ASSUME KioskInvariant, NEW p \in Taps, Wake(p) \/ UNCHANGED tap
    PROVE  DOMAIN tap' = Taps /\ TapsHaveOrders'
BY DEF KioskInvariant, TapsHaveOrders, Wake, Rest

LEMMA TapSuspends ==
    ASSUME KioskInvariant, NEW p \in Taps, NEW t \in Orders, NEW what, Suspend(p, what, t)
    PROVE  DOMAIN tap' = Taps /\ TapsHaveOrders'
BY DEF KioskInvariant, TapsHaveOrders, Suspend

LEMMA TapKeeps ==
    ASSUME KioskInvariant, NEW p \in Taps,
           \/ PayTap(p) \/ CheckoutReturns(p) \/ CheckoutFails(p)
           \/ LeaveTap(p, "cancel") \/ LeaveTap(p, "home")
           \/ CancelSucceeds(p) \/ PickupTap(p)
           \/ \E reported \in BOOLEAN : CancelFails(p, reported)
    PROVE  KioskInvariant'
<1>1. CASE PayTap(p)
  <2>1. UNCHANGED order
    BY <1>1 DEF PayTap
  <2>2. CASE UNCHANGED <<stage, tap>>
    BY <2>1, <2>2 DEF KioskInvariant, TapsHaveOrders, OneSaleOpen
  <2>3. CASE \E t \in Orders : /\ Busy = {} /\ stage' = [stage EXCEPT ![t] = "collecting"]
                               /\ Suspend(p, "checkout", t)
    <3>1. PICK t \in Orders : /\ Busy = {} /\ stage' = [stage EXCEPT ![t] = "collecting"]
                              /\ Suspend(p, "checkout", t)
      BY <2>3
    <3>2. stage' \in [Orders -> {"unborn", "closed"} \cup Open] /\ OneSaleOpen'
      BY <3>1, MovesOn DEF Open
    <3>3. DOMAIN tap' = Taps /\ TapsHaveOrders'
      BY <3>1, TapSuspends
    <3>. QED
      BY <2>1, <3>2, <3>3 DEF KioskInvariant
  <2>. QED
    BY <1>1, <2>2, <2>3 DEF PayTap
<1>2. CASE CheckoutReturns(p)
  BY <1>2, TapsGo DEF CheckoutReturns, KioskInvariant, TapsHaveOrders, OneSaleOpen
<1>3. CASE CheckoutFails(p)
  <2>1. tap[p].for \in Orders /\ stage' = [stage EXCEPT ![tap[p].for] = "stuck"]
        /\ stage[tap[p].for] \in Open /\ Wake(p) /\ UNCHANGED order
    BY <1>3 DEF CheckoutFails, KioskInvariant, TapsHaveOrders, Open
  <2>2. stage' \in [Orders -> {"unborn", "closed"} \cup Open] /\ OneSaleOpen'
    BY <2>1, MovesOn DEF Open
  <2>. QED
    BY <2>1, <2>2, TapsGo DEF KioskInvariant
<1>4. ASSUME NEW what \in {"cancel", "home"}, LeaveTap(p, what) PROVE KioskInvariant'
  <2>1. UNCHANGED <<stage, order>>
    BY <1>4 DEF LeaveTap
  <2>2. DOMAIN tap' = Taps /\ TapsHaveOrders'
    <3>1. CASE UNCHANGED tap
      BY <3>1, TapsGo
    <3>2. CASE order \in Orders /\ Suspend(p, what, order)
      BY <3>2, TapSuspends
    <3>. QED
      BY <1>4, <3>1, <3>2 DEF LeaveTap, KioskInvariant
  <2>. QED
    BY <2>1, <2>2 DEF KioskInvariant, OneSaleOpen
<1>5. CASE CancelSucceeds(p)
  <2>1. tap[p].for \in Orders /\ stage' = [stage EXCEPT ![tap[p].for] = "closed"]
        /\ Wake(p) /\ order' = NoOrder
    BY <1>5 DEF CancelSucceeds, KioskInvariant, TapsHaveOrders
  <2>2. stage' \in [Orders -> {"unborn", "closed"} \cup Open] /\ OneSaleOpen'
    BY <2>1, MovesOn DEF Open
  <2>. QED
    BY <2>1, <2>2, TapsGo DEF KioskInvariant
<1>6. CASE PickupTap(p)
  <2>1. order \in Orders /\ stage' = [stage EXCEPT ![order] = "closed"]
        /\ UNCHANGED tap /\ order' = NoOrder
    BY <1>6 DEF PickupTap, KioskInvariant
  <2>2. stage' \in [Orders -> {"unborn", "closed"} \cup Open] /\ OneSaleOpen'
    BY <2>1, MovesOn DEF Open
  <2>. QED
    BY <2>1, <2>2, TapsGo DEF KioskInvariant
<1>7. ASSUME NEW reported \in BOOLEAN, CancelFails(p, reported) PROVE KioskInvariant'
  <2>1. UNCHANGED stage /\ Wake(p) /\ order' \in {order, NoOrder}
    BY <1>7 DEF CancelFails, AfterRefusal
  <2>. QED
    BY <2>1, TapsGo DEF KioskInvariant, OneSaleOpen
<1>. QED
  BY <1>1, <1>2, <1>3, <1>4, <1>5, <1>6, <1>7

\* Events move one sale on, along a path on which it stays the open one.
LEMMA EventKeeps ==
    ASSUME KioskInvariant, NEW t \in Orders,
           \/ CashUpdated(t) \/ Confirmed(t) \/ WindowOpened(t) \/ Completed(t)
           \/ CancelledElsewhere(t) \/ Stuck(t) \/ Refunding(t) \/ Recovered(t)
    PROVE  KioskInvariant'
<1>1. UNCHANGED tap /\ order' \in {order, NoOrder}
  BY DEF CashUpdated, Confirmed, WindowOpened, Completed, CancelledElsewhere, Stuck,
         Refunding, Recovered, Event, Quiet
<1>2. \/ UNCHANGED stage
      \/ \E to \in {"closed"} \cup Open :
            stage' = [stage EXCEPT ![t] = to] /\ stage[t] \in Open
  BY DEF CashUpdated, Confirmed, WindowOpened, Completed, CancelledElsewhere, Stuck,
         Refunding, Recovered, Goes, Open
<1>3. stage' \in [Orders -> {"unborn", "closed"} \cup Open] /\ OneSaleOpen'
  <2>1. CASE UNCHANGED stage
    BY <2>1 DEF KioskInvariant, OneSaleOpen
  <2>2. ASSUME NEW to \in {"closed"} \cup Open,
               stage' = [stage EXCEPT ![t] = to], stage[t] \in Open
        PROVE  stage' \in [Orders -> {"unborn", "closed"} \cup Open] /\ OneSaleOpen'
    BY <2>2, MovesOn
  <2>. QED
    BY <1>2, <2>1, <2>2
<1>. QED
  BY <1>1, <1>3 DEF KioskInvariant, TapsHaveOrders

LEMMA KioskKept == KioskInvariant /\ [KioskNext]_kioskVars => KioskInvariant'
<1> SUFFICES ASSUME KioskInvariant, [KioskNext]_kioskVars PROVE KioskInvariant'
  OBVIOUS
<1>1. CASE ClearRestrictedTap
  <2>1. UNCHANGED tap /\ order' = NoOrder
    BY <1>1 DEF ClearRestrictedTap
  <2>2. stage' = [t \in Orders |-> IF stage[t] \in Open THEN "closed" ELSE stage[t]] \/ stage' = stage
    BY <1>1 DEF ClearRestrictedTap, SimulatorRecovers
  <2>. QED
    BY <2>1, <2>2 DEF KioskInvariant, TapsHaveOrders, OneSaleOpen, Open
<1>2. CASE BackTap \/ (\E s \in Screens : OpenTap(s)) \/ MachineFaulted \/ SalesStop \/ SalesResume
           \/ UNCHANGED kioskVars
  <2>1. UNCHANGED <<stage, tap>> /\ order' \in {order, NoOrder}
    BY <1>2 DEF BackTap, OpenTap, MachineFaulted, SalesStop, SalesResume, Event, kioskVars
  <2>. QED
    BY <2>1 DEF KioskInvariant, TapsHaveOrders, OneSaleOpen
<1>. QED
  BY <1>1, <1>2, TapKeeps, EventKeeps DEF KioskNext

\* While a sale collects cash, nothing but the four ways named makes the kiosk forget
\* it, for any sales, coroutines, and numbers of taps and troubles: the cancellation
\* that the core refuses is followed by a session that still knows the sale.
THEOREM PurchaseIsKept == KioskSpec => PurchaseKeptWhileCollecting
<1> DEFINE A == \A t \in Orders :
         order = t /\ order' # t /\ stage'[t] = "collecting" =>
            \/ MachineFaulted \/ ClearRestrictedTap
            \/ \E p \in Taps : tap[p].for \notin {t, NoOrder} /\ tap[p].does # "rest" /\ Wake(p)
            \/ \E p \in Taps : tap[p].does = "home" /\ CancelFails(p, FALSE)
<1>1. KioskInvariant /\ [KioskNext]_kioskVars => [A]_kioskVars
  <2> SUFFICES ASSUME KioskInvariant, KioskNext, NEW t \in Orders,
                      order = t, order' # t, stage'[t] = "collecting",
                      ~MachineFaulted, ~ClearRestrictedTap
               PROVE  \/ \E p \in Taps :
                            tap[p].for \notin {t, NoOrder} /\ tap[p].does # "rest" /\ Wake(p)
                      \/ \E p \in Taps : tap[p].does = "home" /\ CancelFails(p, FALSE)
    OBVIOUS
  <2>1. ASSUME NEW p \in Taps, CheckoutReturns(p)
        PROVE  tap[p].for \notin {t, NoOrder} /\ tap[p].does # "rest" /\ Wake(p)
    BY <2>1, KioskAssumption DEF CheckoutReturns, KioskInvariant, TapsHaveOrders
  <2>2. ASSUME NEW p \in Taps, CancelSucceeds(p)
        PROVE  tap[p].for \notin {t, NoOrder} /\ tap[p].does # "rest" /\ Wake(p)
    BY <2>2, KioskAssumption DEF CancelSucceeds, KioskInvariant, TapsHaveOrders
  <2>3. ASSUME NEW p \in Taps, NEW reported \in BOOLEAN, CancelFails(p, reported)
        PROVE  tap[p].does = "home" /\ CancelFails(p, FALSE)
    <3>1. ~reported /\ tap[p].does = "home"
      BY <2>3 DEF CancelFails, AfterRefusal
    <3>2. reported = FALSE
      BY <3>1
    <3>. QED
      BY <2>3, <3>1, <3>2
  <2>4. ASSUME NEW p \in Taps, PickupTap(p) PROVE FALSE
    BY <2>4 DEF PickupTap, KioskInvariant
  <2>5. ASSUME NEW u \in Orders, Completed(u) \/ CancelledElsewhere(u) PROVE FALSE
    BY <2>5 DEF Completed, CancelledElsewhere, Goes, KioskInvariant, OneSaleOpen, Open
  <2>6. ASSUME NEW p \in Taps, PayTap(p) \/ CheckoutFails(p) \/ LeaveTap(p, "cancel")
                               \/ LeaveTap(p, "home")
        PROVE  FALSE
    BY <2>6 DEF PayTap, CheckoutFails, LeaveTap
  <2>7. ASSUME NEW u \in Orders, CashUpdated(u) \/ Confirmed(u) \/ WindowOpened(u) \/ Stuck(u)
                                 \/ Refunding(u) \/ Recovered(u)
        PROVE  FALSE
    BY <2>7 DEF CashUpdated, Confirmed, WindowOpened, Stuck, Refunding, Recovered, Quiet
  <2>8. ~BackTap /\ ~(\E s \in Screens : OpenTap(s)) /\ ~SalesStop /\ ~SalesResume
    BY DEF BackTap, OpenTap, SalesStop, SalesResume
  <2>. QED
    BY <2>1, <2>2, <2>3, <2>4, <2>5, <2>6, <2>7, <2>8 DEF KioskNext
<1>2. KioskSpec => [][A]_kioskVars
  BY KioskStarts, KioskKept, <1>1, PTL DEF KioskSpec
<1>. QED
  BY <1>2 DEF PurchaseKeptWhileCollecting

(***************************************************************************)
(* Types.  What the modules of the supervision, the processes, the kiosk   *)
(* and the turntable say of their variables.                               *)
(***************************************************************************)

\* The supervision.
SupervisionMoves == SupervisionInit /\ [][SupervisionNext]_supervisionVars

LEMMA SupervisionTypes == SupervisionMoves => []SupervisionTypeOK
<1>1. SupervisionInv => SupervisionTypeOK
  BY DEF SupervisionInv
<1>. QED
  BY <1>1, SupervisionStarts, SupervisionKept, PTL DEF SupervisionMoves

\* The processes: places are counted from one, sales and mishaps to their bounds.
Memories == [drift : BOOLEAN, sale : 0 .. MaxSaleSteps]

ProcessesShaped ==
    /\ place \in [Programs -> Nat]
    /\ opened \subseteq Programs /\ ran \subseteq Programs /\ writer \in Programs \cup {Nowhere}
    /\ memory \in [Programs -> Memories] /\ stored \in Memories
    /\ mishaps \in 0 .. MaxMishaps /\ jammed \in [Programs -> SUBSET (1 .. Managed)]

LEMMA ProcessesShapedFirst == LifecycleInit => ProcessesShaped
<1> SUFFICES ASSUME LifecycleInit PROVE ProcessesShaped
  OBVIOUS
<1>1. memory \in [Programs -> Memories] /\ stored \in Memories
  BY LifecycleAssumption DEF LifecycleInit, Memories
<1>. QED
  BY <1>1, LifecycleAssumption DEF LifecycleInit, ProcessesShaped

LEMMA PlacesGo ==
    ASSUME LifecycleInvariant, ProcessesShaped, NEW p \in Programs, Step(p)
    PROVE  place' \in [Programs -> Nat]
<1>1. place[p] \in Nat /\ Managed \in Nat /\ place \in [Programs -> Nat]
  BY LifecycleAssumption DEF ProcessesShaped
<1>2. ASSUME NEW went, NEW n \in Nat, GoesTo(p, went, n) PROVE place' \in [Programs -> Nat]
  BY <1>1, <1>2 DEF GoesTo
<1>3. CASE \/ Refuse(p) \/ Build(p) \/ BeginStart(p) \/ Restore(p) \/ StartRuntime(p) \/ CompleteStart(p)
           \/ Leave(p) \/ BeginStop(p) \/ Close(p) \/ SaveAtStop(p)
  BY <1>2, <1>3 DEF Refuse, Build, BeginStart, Restore, StartRuntime, CompleteStart, Leave, BeginStop, Close,
     SaveAtStop, Dies
<1>4. CASE StartDevice(p) \/ CancelGroup(p)
  <2>1. place[p] + 1 \in Nat
    BY <1>1
  <2>. QED
    BY <1>1, <1>2, <1>4, <2>1 DEF StartDevice, CancelGroup
<1>5. CASE StopDevice(p)
  <2>1. place[p] - 1 \in Nat
    BY <1>1, <1>5 DEF StopDevice
  <2>. QED
    BY <1>2, <1>5, <2>1 DEF StopDevice, Swallowed
<1>6. CASE SaleStep(p) \/ SaleSaved(p) \/ ClearDrift(p)
  BY <1>1, <1>6 DEF SaleStep, SaleSaved, ClearDrift
<1>. QED
  BY <1>3, <1>4, <1>5, <1>6 DEF Step

LEMMA MemoriesGo ==
    ASSUME ProcessesShaped, NEW p \in Programs, Step(p)
    PROVE  memory' \in [Programs -> Memories] /\ stored' \in Memories
<1>0. /\ memory[p] \in Memories /\ stored \in Memories /\ memory \in [Programs -> Memories]
      /\ MaxSaleSteps \in Nat
  BY LifecycleAssumption DEF ProcessesShaped
<1>1. ASSUME NEW m \in Memories, memory' = [memory EXCEPT ![p] = m] PROVE memory' \in [Programs -> Memories]
  BY <1>0, <1>1
<1>2. CASE Build(p) \/ Restore(p) \/ ClearDrift(p)
  <2>1. /\ [memory[p] EXCEPT !.drift = stored.drift] \in Memories
        /\ [memory[p] EXCEPT !.drift = FALSE] \in Memories
        /\ [memory[p] EXCEPT !.sale = stored.sale] \in Memories
    BY <1>0 DEF Memories
  <2>2. \E m \in Memories : memory' = [memory EXCEPT ![p] = m]
    BY <1>2, <2>1 DEF Build, Restore, ClearDrift
  <2>. QED
    BY <1>0, <1>1, <1>2, <2>2 DEF Build, Restore, ClearDrift
<1>3. CASE SaleStep(p)
  <2>1. PICK drift \in {memory[p].drift, TRUE} :
            memory' = [memory EXCEPT ![p] = [drift |-> drift, sale |-> @.sale + 1]]
    BY <1>3 DEF SaleStep
  <2>2. memory[p].sale + 1 \in 0 .. MaxSaleSteps
    BY <1>0, <1>3 DEF SaleStep, Memories
  <2>3. [drift |-> drift, sale |-> memory[p].sale + 1] \in Memories
    BY <1>0, <2>2 DEF Memories
  <2>. QED
    BY <1>0, <1>1, <1>3, <2>1, <2>3 DEF SaleStep
<1>4. CASE SaleSaved(p)
  BY <1>0, <1>4 DEF SaleSaved
<1>5. CASE CompleteStart(p) \/ SaveAtStop(p)
  <2>1. Snapshot(p) \in Memories
    BY <1>0 DEF Snapshot, Memories
  <2>. QED
    BY <1>0, <1>5, <2>1 DEF CompleteStart, SaveAtStop, Persists
<1>6. CASE UNCHANGED <<memory, stored>>
  BY <1>0, <1>6
<1>. QED
  BY <1>2, <1>3, <1>4, <1>5, <1>6 DEF Step, Refuse, BeginStart, StartDevice, StartRuntime, Leave, BeginStop,
     CancelGroup, StopDevice, Close

LEMMA MishapsGo ==
    ASSUME LifecycleInvariant, ProcessesShaped, NEW p \in Programs, Step(p)
    PROVE  mishaps' \in 0 .. MaxMishaps /\ jammed' \in [Programs -> SUBSET (1 .. Managed)]
<1>0. /\ mishaps \in 0 .. MaxMishaps /\ MaxMishaps \in Nat /\ Managed \in Nat
      /\ jammed \in [Programs -> SUBSET (1 .. Managed)]
  BY LifecycleAssumption DEF ProcessesShaped
<1>1. mishaps < MaxMishaps /\ mishaps' = mishaps + 1 => mishaps' \in 0 .. MaxMishaps
  BY <1>0
<1>2. CASE StopDevice(p)
  <2>1. place[p] \in 1 .. Managed
    BY <1>0, <1>2 DEF StopDevice, LifecycleInvariant, Stopped, ProcessesShaped
  <2>. QED
    BY <1>0, <1>1, <1>2, <2>1 DEF StopDevice, Swallowed
<1>3. CASE StartDevice(p) \/ StartRuntime(p) \/ CompleteStart(p) \/ SaveAtStop(p)
  BY <1>0, <1>1, <1>3 DEF StartDevice, StartRuntime, CompleteStart, SaveAtStop, Dies
<1>4. CASE UNCHANGED <<mishaps, jammed>>
  BY <1>0, <1>4
<1>. QED
  BY <1>2, <1>3, <1>4 DEF Step, Refuse, Build, BeginStart, Restore, SaleStep, SaleSaved, ClearDrift, Leave, BeginStop,
     CancelGroup, Close

LEMMA OpenedGo ==
    ASSUME ProcessesShaped, NEW p \in Programs, Step(p)
    PROVE  opened' \subseteq Programs /\ ran' \subseteq Programs /\ writer' \in Programs \cup {Nowhere}
BY DEF ProcessesShaped, Step, Refuse, Build, BeginStart, StartDevice, Restore, StartRuntime, CompleteStart, SaleStep,
   SaleSaved, ClearDrift, Leave, BeginStop, CancelGroup, StopDevice, Swallowed, SaveAtStop, Close, Dies, Persists

LEMMA LifecycleTypes == LifecycleSpec => []LifecycleTypeOK
<1>1. LifecycleInvariant /\ ProcessesShaped /\ [LifecycleNext]_lifecycleVars => ProcessesShaped'
  <2> SUFFICES ASSUME LifecycleInvariant, ProcessesShaped, [LifecycleNext]_lifecycleVars PROVE ProcessesShaped'
    OBVIOUS
  <2>1. ASSUME NEW p \in Programs, Step(p) PROVE ProcessesShaped'
    BY <2>1, PlacesGo, MemoriesGo, MishapsGo, OpenedGo DEF ProcessesShaped
  <2>2. CASE UNCHANGED lifecycleVars
    BY <2>2 DEF lifecycleVars, ProcessesShaped
  <2>. QED
    BY <2>1, <2>2 DEF LifecycleNext, Step
<1>2. LifecycleInvariant /\ ProcessesShaped => LifecycleTypeOK
  BY DEF LifecycleInvariant, LifecycleTyped, ProcessesShaped, Memories, LifecycleTypeOK
<1>. QED
  BY <1>1, <1>2, LifecycleStarts, LifecycleKept, ProcessesShapedFirst, PTL DEF LifecycleSpec

\* The kiosk: what may be shown, and how far back its history goes.
Navigations == {n \in [at : Screens, history : Seq(Screens)] : Len(n.history) <= HistoryKept}

ScreensShown == nav \in Navigations /\ shown \in Screens

TapsShaped ==
    tap \in [Taps -> [does : {"rest", "checkout", "cancel", "home"}, for : Orders \cup {NoOrder}]]

TroublesShaped == holds \subseteq {"fault", "recovery"} /\ taps \in 0 .. MaxTaps /\ troubles \in 0 .. MaxTroubles

LEMMA VisitedIs ==
    ASSUME NEW n \in Navigations, NEW s \in Screens
    PROVE  Visited(n, s) \in Navigations
<1> DEFINE all == Append(n.history, n.at)
<1>1. n.at \in Screens /\ n.history \in Seq(Screens) /\ Len(n.history) <= 2
  BY DEF Navigations, HistoryKept
<1>2. all \in Seq(Screens) /\ Len(all) = Len(n.history) + 1 /\ all # << >> /\ Len(n.history) \in Nat
  BY <1>1, AppendProperties
<1>3. Visited(n, s) = IF s = n.at THEN n
                      ELSE [at |-> s, history |-> IF Len(all) > 2 THEN Tail(all) ELSE all]
  BY DEF Visited, HistoryKept
<1> HIDE DEF all
<1>4. Tail(all) \in Seq(Screens) /\ Len(Tail(all)) = Len(all) - 1
  BY <1>2, HeadTailProperties
<1> DEFINE past == IF Len(all) > 2 THEN Tail(all) ELSE all
<1>5. past \in Seq(Screens) /\ Len(past) <= 2
  BY <1>1, <1>2, <1>4
<1> HIDE DEF past
<1>6. [at |-> s, history |-> past] \in Navigations
  BY <1>5 DEF Navigations, HistoryKept
<1>. QED
  BY <1>3, <1>6 DEF past

LEMMA WentBackIs ==
    ASSUME NEW n \in Navigations
    PROVE  WentBack(n) \in Navigations
<1>1. n.at \in Screens /\ n.history \in Seq(Screens) /\ Len(n.history) <= 2 /\ Len(n.history) \in Nat
  BY DEF Navigations, HistoryKept
<1>2. CASE n.history = << >>
  BY <1>2 DEF WentBack
<1>3. CASE n.history # << >>
  <2>1. Last(n.history) \in Screens
    BY <1>1, <1>3 DEF Last
  <2>2. Front(n.history) \in Seq(Screens) /\ Len(Front(n.history)) = Len(n.history) - 1
    BY <1>1, <1>3, SubSeqProperties DEF Front
  <2> DEFINE past == Front(n.history)
             at == Last(n.history)
  <2>3. WentBack(n) = [at |-> at, history |-> past]
    BY <1>3 DEF WentBack
  <2>4. at \in Screens /\ past \in Seq(Screens) /\ Len(past) <= 2
    BY <1>1, <2>1, <2>2
  <2> HIDE DEF past, at
  <2>. QED
    BY <2>3, <2>4 DEF Navigations, HistoryKept
<1>. QED
  BY <1>2, <1>3

LEMMA RenderShows ==
    ASSUME NEW n \in Navigations, Render(n)
    PROVE  ScreensShown'
<1>1. {"RESTRICTED", "SALES_BLOCKED", "CATALOG"} \subseteq Screens
  BY DEF Screens, Customers, Unblockable
<1>2. Visited(n, "CATALOG") \in Navigations /\ n.at \in Screens
  BY <1>1, VisitedIs DEF Navigations
<1>. QED
  BY <1>1, <1>2 DEF Render, ScreensShown

LEMMA HomeIs == Home \in Navigations
BY EmptySeq DEF Home, Navigations, Screens, Customers, Unblockable, HistoryKept

LEMMA ShowShows ==
    ASSUME ScreensShown,
           \/ \E s \in Screens : Show(s)
           \/ ShowHome
           \/ Render(WentBack(nav))
           \/ UNCHANGED <<nav, shown>>
           \/ nav' = Home /\ UNCHANGED shown
    PROVE  ScreensShown'
<1>1. ASSUME NEW s \in Screens, Show(s) PROVE ScreensShown'
  BY <1>1, VisitedIs, RenderShows DEF Show, ScreensShown
<1>2. CASE ShowHome
  BY <1>2, HomeIs, RenderShows DEF ShowHome
<1>3. CASE Render(WentBack(nav))
  BY <1>3, WentBackIs, RenderShows DEF ScreensShown
<1>4. CASE UNCHANGED <<nav, shown>> \/ (nav' = Home /\ UNCHANGED shown)
  BY <1>4, HomeIs DEF ScreensShown
<1>. QED
  BY <1>1, <1>2, <1>3, <1>4

LEMMA ScreensShownOn == ScreensShown /\ [KioskNext]_kioskVars => ScreensShown'
<1> SUFFICES ASSUME ScreensShown, [KioskNext]_kioskVars PROVE ScreensShown'
  OBVIOUS
<1>0. {"ERROR", "NO_CHANGE", "PAYMENT", "CATALOG", "DISPENSING", "PICKUP", "THANK_YOU", "RESTRICTED",
       "MANUAL_REVIEW", "REFUND", "SALES_BLOCKED"} \subseteq Screens
  BY DEF Screens, Customers, Unblockable
<1> DEFINE Shows ==
       \/ \E s \in Screens : Show(s)
       \/ ShowHome
       \/ Render(WentBack(nav))
       \/ UNCHANGED <<nav, shown>>
       \/ nav' = Home /\ UNCHANGED shown
<1>1. Shows
  <2>1. ASSUME NEW p \in Taps, PayTap(p) \/ CheckoutReturns(p) \/ CheckoutFails(p) PROVE Shows
    BY <1>0, <2>1 DEF PayTap, CheckoutReturns, CheckoutFails
  <2>2. ASSUME NEW p \in Taps, NEW what \in {"cancel", "home"}, LeaveTap(p, what) PROVE Shows
    BY <1>0, <2>2 DEF LeaveTap
  <2>3. ASSUME NEW p \in Taps, CancelSucceeds(p) \/ PickupTap(p) PROVE Shows
    BY <2>3 DEF CancelSucceeds, PickupTap
  <2>4. ASSUME NEW p \in Taps, NEW reported \in BOOLEAN, CancelFails(p, reported) PROVE Shows
    BY <1>0, <2>4 DEF CancelFails, AfterRefusal
  <2>5. CASE ClearRestrictedTap \/ BackTap \/ SalesResume \/ UNCHANGED kioskVars
    BY <2>5 DEF ClearRestrictedTap, BackTap, SalesResume, kioskVars
  <2>6. ASSUME NEW s \in Screens, OpenTap(s) PROVE Shows
    BY <2>6 DEF OpenTap
  <2>7. ASSUME NEW t \in Orders, \/ CashUpdated(t) \/ Confirmed(t) \/ WindowOpened(t) \/ Completed(t)
                                 \/ CancelledElsewhere(t) \/ Stuck(t) \/ Refunding(t) \/ Recovered(t)
        PROVE  Shows
    BY <1>0, <2>7 DEF CashUpdated, Confirmed, WindowOpened, Completed, CancelledElsewhere, Stuck, Refunding,
       Recovered
  <2>8. CASE MachineFaulted \/ SalesStop
    BY <1>0, <2>8 DEF MachineFaulted, SalesStop
  <2>. QED
    BY <2>1, <2>2, <2>3, <2>4, <2>5, <2>6, <2>7, <2>8 DEF KioskNext
<1>. QED
  BY <1>1, ShowShows

LEMMA TapsShapedOn == KioskInvariant /\ TapsShaped /\ [KioskNext]_kioskVars => TapsShaped'
<1> SUFFICES ASSUME KioskInvariant, TapsShaped, [KioskNext]_kioskVars PROVE TapsShaped'
  OBVIOUS
<1>1. ASSUME NEW p \in Taps, Wake(p) PROVE TapsShaped'
  BY <1>1 DEF TapsShaped, Wake, Rest
<1>2. ASSUME NEW p \in Taps, NEW what \in {"checkout", "cancel", "home"}, NEW t \in Orders, Suspend(p, what, t)
      PROVE  TapsShaped'
  BY <1>2 DEF TapsShaped, Suspend
<1>3. CASE UNCHANGED tap
  BY <1>3 DEF TapsShaped
<1>4. ASSUME NEW p \in Taps, \/ PayTap(p) \/ CheckoutReturns(p) \/ CheckoutFails(p) \/ CancelSucceeds(p)
                             \/ PickupTap(p) \/ \E reported \in BOOLEAN : CancelFails(p, reported)
      PROVE  TapsShaped'
  BY <1>1, <1>2, <1>3, <1>4 DEF PayTap, CheckoutReturns, CheckoutFails, CancelSucceeds, PickupTap, CancelFails
<1>5. ASSUME NEW p \in Taps, NEW what \in {"cancel", "home"}, LeaveTap(p, what) PROVE TapsShaped'
  BY <1>2, <1>3, <1>5 DEF LeaveTap, KioskInvariant
<1>6. CASE \/ ClearRestrictedTap \/ BackTap \/ MachineFaulted \/ SalesStop \/ SalesResume \/ UNCHANGED kioskVars
           \/ \E s \in Screens : OpenTap(s)
  BY <1>3, <1>6 DEF ClearRestrictedTap, BackTap, MachineFaulted, SalesStop, SalesResume, OpenTap, Event, kioskVars
<1>7. ASSUME NEW t \in Orders, \/ CashUpdated(t) \/ Confirmed(t) \/ WindowOpened(t) \/ Completed(t)
                               \/ CancelledElsewhere(t) \/ Stuck(t) \/ Refunding(t) \/ Recovered(t)
      PROVE  TapsShaped'
  BY <1>3, <1>7 DEF CashUpdated, Confirmed, WindowOpened, Completed, CancelledElsewhere, Stuck, Refunding,
     Recovered, Event
<1>. QED
  BY <1>4, <1>5, <1>6, <1>7 DEF KioskNext

LEMMA TroublesShapedOn == TroublesShaped /\ [KioskNext]_kioskVars => TroublesShaped'
<1> SUFFICES ASSUME TroublesShaped, [KioskNext]_kioskVars PROVE TroublesShaped'
  OBVIOUS
<1>1. MaxTaps \in Nat /\ MaxTroubles \in Nat
  BY KioskAssumption
<1>2. /\ Tapped => taps' \in 0 .. MaxTaps
      /\ Trouble => troubles' \in 0 .. MaxTroubles
      /\ troubles < MaxTroubles /\ troubles' = troubles + 1 => troubles' \in 0 .. MaxTroubles
  BY <1>1 DEF TroublesShaped, Tapped, Trouble
<1>3. /\ holds \cup {"fault"} \subseteq {"fault", "recovery"}
      /\ holds \cup {"recovery"} \subseteq {"fault", "recovery"}
      /\ holds \ {"fault"} \subseteq {"fault", "recovery"} /\ holds \ {"recovery"} \subseteq {"fault", "recovery"}
  BY DEF TroublesShaped
<1>4. ASSUME NEW p \in Taps, \/ PayTap(p) \/ CheckoutReturns(p) \/ CheckoutFails(p)
                             \/ LeaveTap(p, "cancel") \/ LeaveTap(p, "home")
                             \/ CancelSucceeds(p) \/ PickupTap(p) \/ \E reported \in BOOLEAN : CancelFails(p, reported)
      PROVE  TroublesShaped'
  BY <1>2, <1>3, <1>4, Zenon DEF PayTap, CheckoutReturns, CheckoutFails, LeaveTap, CancelSucceeds, PickupTap, CancelFails,
     TroublesShaped
<1>5. CASE ClearRestrictedTap \/ BackTap \/ \E s \in Screens : OpenTap(s)
  BY <1>2, <1>3, <1>5 DEF ClearRestrictedTap, SimulatorRecovers, BackTap, OpenTap, TroublesShaped
<1>6. ASSUME NEW t \in Orders, \/ CashUpdated(t) \/ Confirmed(t) \/ WindowOpened(t) \/ Completed(t)
                               \/ CancelledElsewhere(t) \/ Stuck(t) \/ Refunding(t) \/ Recovered(t)
      PROVE  TroublesShaped'
  BY <1>2, <1>3, <1>6 DEF CashUpdated, Confirmed, WindowOpened, Completed, CancelledElsewhere, Stuck, Refunding,
     Recovered, Event, Quiet, TroublesShaped
<1>7. CASE MachineFaulted \/ SalesStop \/ SalesResume \/ UNCHANGED kioskVars
  BY <1>2, <1>3, <1>7 DEF MachineFaulted, SalesStop, SalesResume, Event, kioskVars, TroublesShaped
<1>. QED
  BY <1>4, <1>5, <1>6, <1>7 DEF KioskNext

LEMMA KioskTypes == KioskSpec => []KioskTypeOK
<1>1. KioskInit => ScreensShown /\ TapsShaped /\ TroublesShaped
  BY HomeIs, KioskAssumption DEF KioskInit, ScreensShown, TapsShaped, TroublesShaped, Rest, Screens, Customers,
     Unblockable
<1>2. KioskInvariant /\ ScreensShown /\ TapsShaped /\ TroublesShaped => KioskTypeOK
  BY DEF KioskInvariant, ScreensShown, TapsShaped, TroublesShaped, Navigations, KioskTypeOK
<1>. QED
  BY <1>1, <1>2, KioskStarts, KioskKept, ScreensShownOn, TapsShapedOn, TroublesShapedOn, PTL DEF KioskSpec

\* The turntable.
TurntableMoves == TurntableInit /\ [][TurntableNext]_turntableVars

LEMMA TurntableTypes == TurntableMoves => []TurntableTypeOK
<1>1. TurntableInit => TurntableTypeOK
  <2>1. TurntableInit => drumFaults \in 0 .. MaxDrumFaults
    BY TurntableAssumption DEF TurntableInit
  <2>. QED
    BY <2>1, Zenon DEF TurntableInit, TurntableTypeOK
<1>2. TurntableTypeOK /\ [TurntableNext]_turntableVars => TurntableTypeOK'
  <2> SUFFICES ASSUME TurntableTypeOK, [TurntableNext]_turntableVars PROVE TurntableTypeOK'
    OBVIOUS
  <2> USE DEF TurntableTypeOK
  <2>1. ASSUME DrumFault PROVE drumFaults' \in 0 .. MaxDrumFaults
    BY <2>1, TurntableAssumption DEF DrumFault
  <2>2. CASE MachineMoves \/ DrumVends \/ UNCHANGED turntableVars
    BY <2>2, Zenon DEF MachineMoves, DrumVends, turntableVars
  <2>3. CASE BeginDrumPoll
    BY <2>3, Zenon DEF BeginDrumPoll
  <2>4. CASE CommandDone
    BY <2>4, Zenon DEF CommandDone
  <2>5. CASE CommandFails
    BY <2>1, <2>5, Zenon DEF CommandFails, BelievedAfterFailure
  <2>6. CASE RuntimeStops
    BY <2>1, <2>6, Zenon DEF RuntimeStops
  <2>7. CASE RuntimeStarts
    BY <2>7, Zenon DEF RuntimeStarts
  <2>. QED
    BY <2>2, <2>3, <2>4, <2>5, <2>6, <2>7 DEF TurntableNext, DrumLoop
<1>. QED
  BY <1>1, <1>2, PTL DEF TurntableMoves

(***************************************************************************)
(* The subsystems together.  They share no variable, so that a behaviour of *)
(* all of them is one of each, and what is proved of each holds of all.     *)
(***************************************************************************)

LEMMA PartsStart ==
    PartsInit =>
        /\ ChangeInit /\ RunnerInit /\ LinkInit /\ ArduinoInit /\ CatalogInit /\ SupervisionInit
        /\ KioskInit /\ StoreInit /\ AccountsInit /\ LifecycleInit
        /\ SimulatorInit /\ LedgerInit /\ TurntableInit
BY DEF PartsInit

LEMMA PartsStep ==
    ASSUME [PartsNext]_partsVars
    PROVE  /\ [ChangeNext]_changeVars /\ [RunnerNext]_runnerVars /\ [LinkNext]_linkVars
           /\ [ArduinoNext]_arduinoVars /\ [CatalogNext]_catalogVars /\ [SupervisionNext]_supervisionVars
           /\ [KioskNext]_kioskVars /\ [StoreNext]_storeVars /\ [AccountsNext]_accountsVars
           /\ [LifecycleNext]_lifecycleVars /\ [SimulatorNext]_simulatorVars /\ [LedgerNext]_ledgerVars
           /\ [TurntableNext]_turntableVars
<1> USE DEF RestOf
<1>1. CASE UNCHANGED partsVars
  BY <1>1, Zenon DEF partsVars
<1>2. CASE ChangeStep \/ RunnerStep \/ LinkStep \/ ArduinoStep \/ CatalogStep
  BY <1>2 DEF ChangeStep, RunnerStep, LinkStep, ArduinoStep, CatalogStep, accountsVars
<1>3. CASE KioskStep \/ StoreStep \/ SuperviseStep \/ LifecycleStep
  BY <1>3 DEF KioskStep, StoreStep, SuperviseStep, LifecycleStep, accountsVars
<1>4. CASE SimulatorStep \/ LedgerStep \/ DrumStep
  BY <1>4 DEF SimulatorStep, LedgerStep, DrumStep, accountsVars
<1>5. CASE OneCStep \/ TelemetryStep
  BY <1>5 DEF OneCStep, TelemetryStep, AccountsNext
<1>. QED
  BY <1>1, <1>2, <1>3, <1>4, <1>5 DEF PartsNext

LEMMA PartsAreTheirModules ==
    PartsSpec => /\ ChangeSpec /\ RunnerSpec /\ LinkSpec /\ ArduinoSpec /\ CatalogSpec /\ SupervisionMoves
                 /\ KioskSpec /\ StoreSpec /\ AccountsSpec /\ LifecycleSpec
                 /\ SimulatorSpec /\ LedgerSpec /\ TurntableMoves
BY PartsStart, PartsStep, PTL DEF PartsSpec, ChangeSpec, RunnerSpec, LinkSpec, ArduinoSpec, CatalogSpec,
   SupervisionMoves, KioskSpec, StoreSpec, AccountsSpec, LifecycleSpec, SimulatorSpec, LedgerSpec, TurntableMoves

\* Whatever the subsystems around a sale do, every variable of them keeps the
\* values its module declares, for any devices, writers, sales, processes,
\* lists and bounds: no counter of theirs passes its limit, no flush or seeding
\* leaves its list, no coroutine names a sale that is none.
THEOREM PartsKeepTheirTypes == PartsSpec => []PartsTypeOK
<1>1. ASSUME ChangeTypeOK, RunnerTypeOK, LinkTypeOK, ArduinoTypeOK, CatalogTypeOK, SupervisionTypeOK,
             KioskTypeOK, StoreTypeOK, AccountsTypeOK, LifecycleTypeOK,
             SimulatorTypeOK, LedgerTypeOK, TurntableTypeOK
      PROVE  PartsTypeOK
  BY <1>1 DEF PartsTypeOK
<1>. QED
  BY <1>1, PartsAreTheirModules, ChangeTypes, RunnerTypes, LinkTypes, ArduinoTypes, CatalogTypes, SupervisionTypes,
     KioskTypes, StoreTypes, AccountsTypes, LifecycleTypes, SimulatorTypes, LedgerTypes, TurntableTypes, PTL

\* Whatever the counts have become, a planned change pays the sum exactly, from
\* what is there and not reserved, and a plan is found whenever there is one
\* (change_manager.py:88-143, PlansAlwaysExact of ChangeManager_proofs).
THEOREM PlannedChangeIsExact == PartsSpec => []PlansAreExact
<1>1. PlanIsExact => PlansAreExact
  BY Zenon DEF PlansAreExact
<1>. QED
  BY <1>1, PartsAreTheirModules, PlansAlwaysExact, PTL

=============================================================================
