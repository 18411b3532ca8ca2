------------------------------ MODULE Turntable ------------------------------
(***************************************************************************)
(* The rotating display: the controller's poll, its belief that the drum   *)
(* turns (DisplayRotationController._motor_is_on), and the drum.  The same  *)
(* motor vends.  A command that raises may have reached the board or not.   *)
(***************************************************************************)
EXTENDS Naturals

CONSTANT MaxDrumFaults   \* bound: commands that raise, and stops of the program

ASSUME TurntableAssumption == MaxDrumFaults \in Nat

VARIABLES
    idleOpen,    \* the machine is in IDLE and sales are allowed
    believed,    \* _motor_is_on
    turning,     \* the drum
    drum,        \* the loop: "off" (not running), "rests", "starts", "stops"
    drumFaults

turntableVars == <<idleOpen, believed, turning, drum, drumFaults>>

TurntableTypeOK ==
    /\ idleOpen \in BOOLEAN /\ believed \in BOOLEAN /\ turning \in BOOLEAN
    /\ drum \in {"off", "rests", "starts", "stops"} /\ drumFaults \in 0 .. MaxDrumFaults

TurntableInit ==
    /\ idleOpen = FALSE /\ believed = FALSE /\ turning = FALSE
    /\ drum = "off" /\ drumFaults = 0

\* A sale begins or ends, a blocker comes or goes.
MachineMoves ==
    /\ idleOpen' = ~idleOpen
    /\ UNCHANGED <<believed, turning, drum, drumFaults>>

\* MotorController.stop_motion and vend_slot of a sale, which end with the drum
\* at rest; the controller is not told.
DrumVends ==
    /\ ~idleOpen /\ drum # "off" /\ turning' = FALSE
    /\ UNCHANGED <<idleOpen, believed, drum, drumFaults>>

ShouldRun == idleOpen

BeginDrumPoll ==
    /\ drum = "rests" /\ ShouldRun # believed
    /\ drum' = IF ShouldRun THEN "starts" ELSE "stops"
    /\ UNCHANGED <<idleOpen, believed, turning, drumFaults>>

CommandDone ==
    /\ drum \in {"starts", "stops"} /\ drum' = "rests"
    /\ turning' = (drum = "starts") /\ believed' = (drum = "starts")
    /\ UNCHANGED <<idleOpen, drumFaults>>

DrumFault == drumFaults < MaxDrumFaults /\ drumFaults' = drumFaults + 1

\* Mutant: the belief is set before the command.
BelievedAnyway == drum = "starts"

BelievedAfterFailure == believed

\* The poll returns before it sets the belief, and the next one tries again: a
\* start that raised after it took effect is not known, and never stopped.
CommandFails ==
    /\ drum \in {"starts", "stops"} /\ drum' = "rests" /\ DrumFault
    /\ turning' \in {turning, drum = "starts"}
    /\ believed' = BelievedAfterFailure
    /\ UNCHANGED idleOpen

\* The loop is cancelled, in the middle of a command too; then the motor is sent
\* ALL_OFF, whose failure is swallowed.
RuntimeStops ==
    /\ drum # "off" /\ drum' = "off" /\ DrumFault
    /\ \/ turning' = FALSE
       \/ turning' \in {turning, turning \/ drum = "starts"}
    /\ believed' = FALSE /\ UNCHANGED idleOpen

\* MOTOR_OFF first, its failure swallowed as well.
RuntimeStarts ==
    /\ drum = "off" /\ drum' = "rests"
    /\ turning' \in {FALSE, turning}
    /\ UNCHANGED <<idleOpen, believed, drumFaults>>

DrumLoop == BeginDrumPoll \/ CommandDone \/ CommandFails

TurntableNext ==
    MachineMoves \/ DrumVends \/ DrumLoop \/ RuntimeStops \/ RuntimeStarts

TurntableSpec == TurntableInit /\ [][TurntableNext]_turntableVars /\ WF_turntableVars(DrumLoop)

-----------------------------------------------------------------------------
(* What the display promises.                                              *)

\* A drum the controller set turning comes to rest once the machine is no longer
\* idle or may not sell, however often its stop fails in between, unless that
\* ends first or the program does.
DrumStops ==
    (drum # "off" /\ ~idleOpen /\ turning /\ believed)
        ~> (~turning \/ idleOpen \/ drum = "off")

=============================================================================
