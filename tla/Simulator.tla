------------------------------ MODULE Simulator ------------------------------
(***************************************************************************)
(* The simulated devices (simulators/): the control panel injects fault    *)
(* plans, a plan is a number of hits, and an attempt of a command takes a  *)
(* hit of the first of its fault codes that has one.  DeviceCommandRunner  *)
(* tries a timed-out or transiently failed command again, so a plan may be *)
(* injected, or all of them cleared, between two attempts.                 *)
(***************************************************************************)
EXTENDS Integers, Sequences, FiniteSets, SequencesExt, FiniteSetsExt

CONSTANTS
    Played,           \* commands this instance runs
    PlayedCodes,      \* fault codes this instance injects
    HitsAtOnce,       \* remaining_hits of a plan: the panel gives 1, the configuration any
    SimulatorRetries, \* DeviceCommandPolicy.retry_count
    MaxPlans,         \* bound: plans injected
    MaxPlayed         \* bound: commands, bills, starts and sensor changes

VARIABLES
    started,    \* _started of the devices
    plans,      \* each code: the hits left in its plans, the oldest first
    attempt,    \* each command: the attempt under way, 0 when none is
    answered,   \* commands whose key is in the runner's cache
    condition,  \* each device: DeviceHealth.state
    world,      \* what the devices have done
    panel,      \* what the door, temperature and inventory sensors read
    polled,      \* the devices and sensors the last health poll blocked sales for
    played,
    injected,   \* how many plans were injected
    given,      \* history: hits they were told, by code
    endless,    \* history: codes with a plan that never runs out, or never bites
    bitten,     \* history: hits taken, by code
    dropped,    \* history: hits given up by clear_faults, by code
    since       \* history: devices a hit was taken of since they were cleared or started

simulatorVars == <<started, plans, attempt, answered, condition, world, panel, polled, played,
                   injected, given, endless, bitten, dropped, since>>
told == <<injected, given, endless>>

Simulated == {"validator", "change_dispenser", "motor", "window", "watchdog"}
Passing == <<"command_timeout", "transient_command_failure">>
Retried == ToSet(Passing)
Unclear == Append(Passing, "ambiguous_physical_result")

\* Each command: its device, and the codes its operation asks for, in order.
Operations ==
    [enable   |-> [of |-> "validator", asks |-> Append(Unclear, "validator_unavailable")],
     disable  |-> [of |-> "validator", asks |-> Unclear],
     bill     |-> [of |-> "validator", asks |-> <<"bill_jam", "bill_rejected">>],
     vend     |-> [of |-> "motor", asks |-> Unclear \o <<"motor_fault", "power_loss_during_motion">>],
     open     |-> [of |-> "window", asks |-> Append(Unclear, "window_fault")],
     close    |-> [of |-> "window", asks |-> Append(Unclear, "window_fault")],
     dispense |-> [of |-> "change_dispenser",
                   asks |-> Passing \o <<"payout_unavailable", "ambiguous_physical_result", "partial_payout">>],
     arm      |-> [of |-> "watchdog", asks |-> Append(Passing, "watchdog_fault")],
     kick     |-> [of |-> "watchdog", asks |-> Passing],
     disarm   |-> [of |-> "watchdog", asks |-> << >>]]

ASSUME SimulatorAssumption ==
    /\ Played \subseteq DOMAIN Operations /\ HitsAtOnce \subseteq Int
    /\ {SimulatorRetries, MaxPlans, MaxPlayed} \subseteq Nat

\* Every device has an injector of its own: a plan is for a device and a code.
Plans == {<<Operations[o].of, code>> : o \in Played, code \in PlayedCodes}
PlanOf(o, code) == <<Operations[o].of, code>>

Worlds == [accepting : BOOLEAN, window : {"open", "closed"}, vends : Nat, payouts : Nat, armed : BOOLEAN]
AtRest == [accepting |-> FALSE, window |-> "closed", vends |-> 0, payouts |-> 0, armed |-> FALSE]

SimulatorTypeOK ==
    /\ started \in BOOLEAN /\ plans \in [Plans -> Seq(Int)]
    /\ attempt \in [Played -> 0 .. SimulatorRetries + 1] /\ answered \subseteq Played
    /\ condition \in [Simulated -> {"UNKNOWN", "READY", "DISABLED", "DEGRADED", "FAULT"}]
    /\ world \in Worlds /\ panel \in [door : BOOLEAN, hot : BOOLEAN, present : BOOLEAN]
    /\ polled \subseteq Simulated \cup {"door", "temperature"}
    /\ injected \in Nat /\ given \in [Plans -> Int] /\ endless \subseteq Plans
    /\ bitten \in [Plans -> Nat] /\ dropped \in [Plans -> Int] /\ since \subseteq Simulated

SimulatorInit ==
    /\ started = FALSE /\ plans = [p \in Plans |-> << >>] /\ attempt = [o \in Played |-> 0]
    /\ answered = {} /\ condition = [d \in Simulated |-> "UNKNOWN"] /\ world = AtRest
    /\ panel = [door |-> FALSE, hot |-> FALSE, present |-> TRUE] /\ polled = {} /\ played = 0
    /\ injected = 0 /\ given = [p \in Plans |-> 0] /\ endless = {} /\ since = {}
    /\ bitten = [p \in Plans |-> 0] /\ dropped = [p \in Plans |-> 0]

-----------------------------------------------------------------------------
(* The injector.                                                           *)

Hits(p) == FoldSeq(LAMBDA hits, sum : hits + sum, 0, plans[p])

\* A plan of no hits is never taken off and hides those behind it.
Bites(p) == plans[p] # << >> /\ Head(plans[p]) # 0

\* FaultInjector.consume; a negative number never runs out.
Spent(hits) == IF Head(hits) = 1 THEN Tail(hits)
               ELSE [hits EXCEPT ![1] = IF @ > 0 THEN @ - 1 ELSE @]

\* can_dispense sees a plan that consume could not take.
PayoutRefused(o) ==
    /\ o = "dispense" /\ "payout_unavailable" \in PlayedCodes
    /\ plans[PlanOf(o, "payout_unavailable")] # << >> /\ ~Bites(PlanOf(o, "payout_unavailable"))

\* The first code the operation asks for that has a hit, or none.
Struck(o) ==
    LET asks == Operations[o].asks
        biting == {i \in DOMAIN asks : /\ asks[i] \in PlayedCodes /\ Bites(PlanOf(o, asks[i]))
                                       /\ PayoutRefused(o) => asks[i] \in Retried}
    IN  IF biting = {} THEN "none" ELSE asks[Min(biting)]

\* Mutant: every code is asked for before the first that bites is raised.
TakesAll(o, code) ==
    LET p == PlanOf(o, code)
    IN  /\ plans' = [q \in Plans |-> IF q[1] = p[1] /\ Bites(q) THEN Spent(plans[q]) ELSE plans[q]]
        /\ bitten' = [bitten EXCEPT ![p] = @ + 1] /\ since' = since \cup {p[1]}

TakesHit(o, code) ==
    LET p == PlanOf(o, code)
    IN  /\ plans' = [plans EXCEPT ![p] = Spent(@)]
        /\ bitten' = [bitten EXCEPT ![p] = @ + 1] /\ since' = since \cup {p[1]}

TakesNone == UNCHANGED <<plans, bitten, since>>

Sets(d, state) == condition' = [condition EXCEPT ![d] = state]

-----------------------------------------------------------------------------
(* The devices.                                                            *)

Done(o, w) ==
    CASE o = "enable"   -> [w EXCEPT !.accepting = TRUE]
      [] o = "disable"  -> [w EXCEPT !.accepting = FALSE]
      [] o = "vend"     -> [w EXCEPT !.vends = @ + 1]
      [] o = "open"     -> [w EXCEPT !.window = "open"]
      [] o = "close"    -> [w EXCEPT !.window = "closed"]
      [] o = "dispense" -> [w EXCEPT !.payouts = @ + 1]
      [] o = "arm"      -> [w EXCEPT !.armed = TRUE]
      [] o = "kick"     -> w
      [] o = "disarm"   -> [w EXCEPT !.armed = FALSE]

Calls(o) == played < MaxPlayed /\ played' = played + 1 /\ attempt[o] = 0

\* With a key of its own, but for the two commands that have always the same.
Begin(o) ==
    /\ o # "bill" /\ Calls(o) /\ (o = "enable" => started)
    /\ o \in {"arm", "disarm"} => o \notin answered
    /\ attempt' = [attempt EXCEPT ![o] = 1]
    /\ UNCHANGED <<started, plans, answered, condition, world, panel, polled, told, bitten, dropped, since>>

After(o) == IF o \in {"disable", "disarm"} THEN "DISABLED" ELSE "READY"

\* A key that was answered before is answered again: nothing moves, and the
\* device is said to be ready.
ReplayAnswer(o) ==
    /\ o \in answered /\ Calls(o) /\ (o = "enable" => started) /\ Sets(Operations[o].of, "READY")
    /\ UNCHANGED <<started, plans, attempt, answered, world, panel, polled, told, bitten, dropped, since>>

EndsAttempt(o) == attempt' = [attempt EXCEPT ![o] = 0]

AttemptGoesWell(o) ==
    /\ attempt[o] > 0 /\ Struck(o) = "none" /\ TakesNone /\ EndsAttempt(o)
    /\ world' = (IF PayoutRefused(o) THEN world ELSE Done(o, world)) /\ Sets(Operations[o].of, After(o))
    /\ answered' = IF o = "kick" THEN answered ELSE answered \cup {o}
    /\ UNCHANGED <<started, panel, polled, played, told, dropped>>

\* A change dispenser answers its own faults, and an answer is cached.
Answers(o, code) == o = "dispense" /\ code \notin Retried

AttemptIsStruck(o) ==
    LET code == Struck(o)
        d == Operations[o].of
    IN  /\ attempt[o] > 0 /\ code # "none" /\ TakesHit(o, code)
        /\ IF code \in Retried /\ attempt[o] <= SimulatorRetries
              THEN attempt' = [attempt EXCEPT ![o] = @ + 1] /\ Sets(d, "DEGRADED")
              ELSE EndsAttempt(o) /\ Sets(d, IF code = "partial_payout" THEN "READY" ELSE "FAULT")
        /\ world' = IF code \in {"power_loss_during_motion", "partial_payout"} THEN Done(o, world) ELSE world
        /\ answered' = IF Answers(o, code) THEN answered \cup {o} ELSE answered
        /\ UNCHANGED <<started, panel, polled, played, told, dropped>>

\* simulate_insert_bill: detected, and then jammed, rejected or stacked.
InsertBill ==
    /\ "bill" \in Played /\ Calls("bill") /\ started /\ world.accepting
    /\ CASE Struck("bill") = "bill_jam" ->
              /\ TakesHit("bill", "bill_jam") /\ Sets("validator", "FAULT")
              /\ world' = [world EXCEPT !.accepting = FALSE]
         [] Struck("bill") = "bill_rejected" ->
              TakesHit("bill", "bill_rejected") /\ UNCHANGED <<world, condition>>
         [] OTHER -> TakesNone /\ UNCHANGED <<world, condition>>
    /\ UNCHANGED <<started, attempt, answered, panel, polled, told, dropped>>

\* start forgets the fault of a device, not the plans.
StartDevices ==
    /\ ~started /\ played < MaxPlayed /\ played' = played + 1 /\ started' = TRUE /\ condition' = [d \in Simulated |-> "READY"] /\ since' = {}
    /\ UNCHANGED <<plans, attempt, answered, world, panel, polled, told, bitten, dropped>>

StopDevices ==
    /\ started /\ played < MaxPlayed /\ played' = played + 1 /\ started' = FALSE /\ condition' = [d \in Simulated |-> "DISABLED"]
    /\ UNCHANGED <<plans, attempt, answered, world, panel, polled, told, bitten, dropped, since>>

-----------------------------------------------------------------------------
(* The control panel.                                                      *)

AddPlan(p, hits) ==
    /\ injected < MaxPlans /\ injected' = injected + 1
    /\ plans' = [plans EXCEPT ![p] = Append(@, hits)]
    /\ given' = [given EXCEPT ![p] = @ + hits]
    /\ endless' = IF hits > 0 THEN endless ELSE endless \cup {p}
    /\ UNCHANGED <<started, attempt, answered, condition, world, panel, polled, played, bitten, dropped, since>>

\* execute_action: one hit.
Inject(p) == AddPlan(p, 1)

\* simulator.initial_faults, applied before the devices are started.
ConfiguredFault(p) == ~started /\ played = 0 /\ \E hits \in HitsAtOnce : AddPlan(p, hits)

ShownFor(state, reads) ==
    {d \in Simulated : state[d] = "FAULT"}
        \cup {s \in {"door"} : reads.door} \cup {s \in {"temperature"} : reads.hot}

PollHealth == polled' = ShownFor(condition', panel')

\* Doors and temperatures are polled for at once, a product that is missing is not.
SetSensor ==
    /\ played < MaxPlayed /\ played' = played + 1
    /\ \/ /\ \E on \in BOOLEAN : panel' \in {[panel EXCEPT !.door = on], [panel EXCEPT !.hot = on]}
          /\ UNCHANGED condition /\ PollHealth
       \/ /\ \E on \in BOOLEAN : panel' = [panel EXCEPT !.present = on]
          /\ UNCHANGED <<condition, polled>>
    /\ UNCHANGED <<started, plans, attempt, answered, world, told, bitten, dropped, since>>

\* Even a device that was stopped is ready after it.
ClearSimulatorFaults ==
    /\ dropped' = [p \in Plans |-> dropped[p] + Hits(p)] /\ plans' = [p \in Plans |-> << >>]
    /\ condition' = [d \in Simulated |-> "READY"] /\ since' = {}
    /\ UNCHANGED panel /\ PollHealth
    /\ UNCHANGED <<started, attempt, answered, world, played, told, bitten>>

-----------------------------------------------------------------------------
SimulatorNext ==
    \/ \E o \in Played : Begin(o) \/ ReplayAnswer(o) \/ AttemptGoesWell(o) \/ AttemptIsStruck(o)
    \/ InsertBill \/ StartDevices \/ StopDevices
    \/ \E p \in Plans : Inject(p) \/ ConfiguredFault(p)
    \/ SetSensor \/ ClearSimulatorFaults

SimulatorSpec == SimulatorInit /\ [][SimulatorNext]_simulatorVars

\* A fault that was injected bites exactly as often as it was told to, however
\* commands are tried again or answered from the cache meanwhile: of the hits
\* of a code each was taken by one attempt, given up by a clear, or is still
\* to come.  And no device is at fault that was not struck since it was last
\* cleared (faults.py:45-73, base.py:92-182, command_policy.py:120).
HitsAreSpent ==
    /\ \A p \in Plans \ endless : given[p] = bitten[p] + dropped[p] + Hits(p)
    /\ \A d \in Simulated : condition[d] = "FAULT" => d \in since

=============================================================================
