----------------------------- MODULE Supervision -----------------------------
(***************************************************************************)
(* The health monitor's poll, step by step between its awaits, and the     *)
(* health loop of ApplicationCore that repeats it and kicks the watchdog   *)
(* (app/bootstrap.py).  Devices, sensors and the subscribers of the events *)
(* a poll publishes are seen through how they answer.  The poll is the only*)
(* writer of its reasons in sale_blockers.                                 *)
(***************************************************************************)
EXTENDS Naturals, FiniteSets

CONSTANTS
    PolledDevices,   \* names of the managed devices
    Sensors,         \* the sensors read after them
    MaxWorldSteps    \* bound: changes of what devices and sensors answer

ASSUME SupervisionAssumption ==
    /\ Sensors \subseteq {"door", "temperature"} /\ Sensors \subseteq PolledDevices
    /\ MaxWorldSteps \in Nat

VARIABLES
    answers,     \* external: how each device answers get_health
    readings,    \* external: what each sensor reads
    loop,        \* where the health loop is
    unasked,     \* devices this poll has still to ask
    seen,        \* what was last read of each device and sensor
    blocks,      \* the monitor's reasons in sale_blockers
    watchdog,    \* "off", "kicked" (armed or kicked, no poll since), "waiting"
    worldSteps

supervisionVars == <<answers, readings, loop, unasked, seen, blocks, watchdog, worldSteps>>

\* Between two awaits: "reports" publishes machine_faulted, "... alarm" a sensor's event.
Places == {"off", "asks", "reports", "door", "door alarm", "temperature",
           "temperature alarm", "kicks", "rests", "ended", "stopped"}

\* A sensor that hangs blocks sales with the key of the device of its name.
DeviceFault(d) == <<"device_fault", d>>
SensorAlarm(s) == <<"alarm", s>>    \* service_door_open, critical_temperature

AfterDevices == IF "door" \in Sensors THEN "door" ELSE "temperature"
AfterSensor(s) == IF s = "door" /\ "temperature" \in Sensors THEN "temperature" ELSE "kicks"
Subjects == PolledDevices \cup Sensors

SupervisionTypeOK ==
    /\ answers \in [PolledDevices -> {"ready", "fault", "hangs"}]
    /\ readings \in [Sensors -> {"good", "bad", "hangs"}]
    /\ loop \in Places /\ unasked \subseteq PolledDevices
    /\ seen \in [device : [PolledDevices -> {"none", "ready", "fault", "hangs"}],
                 sensor : [Sensors -> {"none", "good", "bad", "hangs"}]]
    /\ blocks \subseteq {"device_fault", "alarm"} \X Subjects
    /\ watchdog \in {"off", "kicked", "waiting"} /\ worldSteps \in 0 .. MaxWorldSteps

SupervisionInit ==
    /\ answers \in [PolledDevices -> {"ready", "fault"}]
    /\ readings = [s \in Sensors |-> "good"]
    /\ loop = "off" /\ unasked = {} /\ watchdog = "off" /\ blocks = {} /\ worldSteps = 0
    /\ seen = [device |-> [d \in PolledDevices |-> "none"],
               sensor |-> [s \in Sensors |-> "none"]]

-----------------------------------------------------------------------------
(* The world.                                                              *)

WorldStep == worldSteps < MaxWorldSteps /\ worldSteps' = worldSteps + 1

DeviceChanges(d, answer) ==
    /\ WorldStep /\ answers[d] # answer /\ answers' = [answers EXCEPT ![d] = answer]
    /\ UNCHANGED <<readings, loop, unasked, seen, blocks, watchdog>>

SensorChanges(s, reading) ==
    /\ WorldStep /\ readings[s] # reading /\ readings' = [readings EXCEPT ![s] = reading]
    /\ UNCHANGED <<answers, loop, unasked, seen, blocks, watchdog>>

-----------------------------------------------------------------------------
(* One poll.  start_runtime makes the first itself, then arms the watchdog;*)
(* the loop makes the others, and kicks it after each.                     *)

BeginPoll ==
    /\ loop \in {"off", "rests"} /\ loop' = "asks" /\ unasked' = PolledDevices
    /\ watchdog' = IF watchdog = "off" THEN "off" ELSE "waiting"
    /\ UNCHANGED <<answers, readings, seen, blocks, worldSteps>>

\* Mutant: get_health is awaited without a time-out.
OnlyIfItAnswers(d) == answers[d] # "hangs"

\* wait_for: a device that hangs is given up, and counts as faulty.
WithTimeOut(d) == TRUE

\* Sales are blocked, or let go, for all devices at once after the last answer.
AskDevice(d) ==
    /\ loop = "asks" /\ d \in unasked /\ WithTimeOut(d)
    /\ seen' = [seen EXCEPT !.device[d] = answers[d]]
    /\ unasked' = unasked \ {d}
    /\ IF unasked = {d}
       THEN LET faulty == {e \in PolledDevices : seen'.device[e] # "ready"}
            IN  /\ blocks' = {b \in blocks : \A e \in PolledDevices : b # DeviceFault(e)}
                                \cup {DeviceFault(e) : e \in faulty}
                /\ loop' = IF faulty = {} THEN AfterDevices ELSE "reports"
       ELSE UNCHANGED <<blocks, loop>>
    /\ UNCHANGED <<answers, readings, watchdog, worldSteps>>

\* The event bus returned: every critical subscriber handled the event.
Reported ==
    /\ \/ loop = "reports" /\ loop' = AfterDevices
       \/ loop = "door alarm" /\ loop' = AfterSensor("door")
       \/ loop = "temperature alarm" /\ loop' = AfterSensor("temperature")
    /\ UNCHANGED <<answers, readings, unasked, seen, blocks, watchdog, worldSteps>>

\* Mutant: a reading that hangs lets sales go as a good one does.
AlarmsAfterHang(s) == blocks \ {SensorAlarm(s)}

AlarmsAfter(s) ==
    CASE readings[s] = "good"  -> blocks \ {SensorAlarm(s)}
      [] readings[s] = "bad"   -> blocks \cup {SensorAlarm(s)}
      [] readings[s] = "hangs" -> blocks \cup {DeviceFault(s)}

ReadSensor(s) ==
    /\ loop = s
    /\ seen' = [seen EXCEPT !.sensor[s] = readings[s]]
    /\ blocks' = AlarmsAfter(s)
    /\ loop' = IF readings[s] # "bad" THEN AfterSensor(s)
               ELSE IF s = "door" THEN "door alarm" ELSE "temperature alarm"
    /\ UNCHANGED <<answers, readings, unasked, watchdog, worldSteps>>

Kick ==
    /\ loop = "kicks" /\ loop' = "rests" /\ watchdog' = "kicked"
    /\ UNCHANGED <<answers, readings, unasked, seen, blocks, worldSteps>>

\* Only a time-out is caught: any other exception of a device, a sensor, a
\* critical subscriber or the watchdog ends the loop, and nobody starts it again.
PollRaises ==
    /\ loop \in {"asks", "reports", "door", "door alarm", "temperature",
                 "temperature alarm", "kicks"}
    /\ WorldStep /\ loop' = "ended" /\ unasked' = {}
    /\ UNCHANGED <<answers, readings, seen, blocks, watchdog>>

StopRuntime ==
    /\ loop \notin {"off", "stopped"} /\ watchdog # "off" /\ WorldStep
    /\ loop' = "stopped" /\ unasked' = {} /\ watchdog' = "off"
    /\ UNCHANGED <<answers, readings, seen, blocks>>

PollStep ==
    \/ BeginPoll \/ Reported \/ Kick
    \/ \E d \in PolledDevices : AskDevice(d)
    \/ \E s \in Sensors : ReadSensor(s)

SupervisionNext ==
    \/ PollStep \/ PollRaises \/ StopRuntime
    \/ \E d \in PolledDevices : \E a \in {"ready", "fault", "hangs"} : DeviceChanges(d, a)
    \/ \E s \in Sensors : \E r \in {"good", "bad", "hangs"} : SensorChanges(s, r)

\* Every await of a poll has a time-out or returns, and asyncio runs what is ready.
SupervisionSpec ==
    SupervisionInit /\ [][SupervisionNext]_supervisionVars /\ WF_supervisionVars(PollStep)

-----------------------------------------------------------------------------
(* Properties.                                                             *)

\* While the loop rests sales are blocked for exactly what the last poll found:
\* each device that is not well or did not answer, each sensor that reads badly or
\* hangs, and nothing that was found well again.  An open door or a high
\* temperature that was seen stays blocked through the next poll as well, until a
\* reading says otherwise.
WhatIsSeenIsBlocked ==
    /\ \A s \in Sensors : seen.sensor[s] = "bad" => SensorAlarm(s) \in blocks
    /\ \A s \in Sensors : seen.sensor[s] = "good" => SensorAlarm(s) \notin blocks
    /\ loop = "rests" =>
          \A x \in Subjects :
              DeviceFault(x) \in blocks <=>
                  \/ x \in PolledDevices /\ seen.device[x] # "ready"
                  \/ x \in Sensors /\ seen.sensor[x] = "hangs"

\* A device that stays faulty or hangs is blocked for in the end, as long as the
\* loop has not ended with an exception: one device that hangs does not keep the
\* monitor from the others.
FaultsAreNoticed ==
    \A d \in PolledDevices :
        (answers[d] # "ready") ~>
            (DeviceFault(d) \in blocks \/ answers[d] = "ready" \/ loop \in {"ended", "stopped"})

=============================================================================
