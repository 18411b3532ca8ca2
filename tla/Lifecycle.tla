------------------------------ MODULE Lifecycle ------------------------------
(***************************************************************************)
(* A process from its command line to its end (runtime/): build_..._       *)
(* environment validates the configuration and opens the store, start      *)
(* starts the devices one by one, restores, starts the supervision loops   *)
(* and polls; stop cancels the loops group by group, stops the devices in  *)
(* reverse, saves a snapshot and closes the store.  Any of these steps may *)
(* raise.  The commands of the command line (status and events only read)  *)
(* open the same store as the kiosk that is running.                       *)
(*                                                                         *)
(* The sale is seen as a number of steps done, the money inventory through *)
(* its drift flag.                                                         *)
(***************************************************************************)
EXTENDS Naturals, Sequences, FiniteSets, SequencesExt

CONSTANTS
    Kiosks,        \* processes of `run`: a production environment
    Tools,         \* processes of the simulator commands: clear-drift, service, ...
    Managed,       \* number of devices in startup_order
    CancelOrder,   \* the loops, in the order stop_runtime cancels them
    MaxSaleSteps,  \* bound: steps of sales
    MaxMishaps,    \* bound: steps that raise
    Nowhere        \* no process

ASSUME LifecycleAssumption ==
    /\ Kiosks \cap Tools = {} /\ Nowhere \notin Kiosks \cup Tools /\ {Managed, MaxSaleSteps, MaxMishaps} \subseteq Nat
    /\ CancelOrder \in Seq(STRING)

VARIABLES
    life,      \* each process: how far it is
    place,     \* the device or loop its start or stop has come to
    opened,    \* processes with a connection to the store
    devices,   \* devices each process has started and not stopped
    loops,     \* loops each process runs
    memory,    \* what each process knows: drift flag, sale
    stored,      \* money_inventory and transactions
    writer,    \* history: the process that wrote to the store last
    jammed,    \* history: devices whose stop raised
    ran,       \* history: processes whose start completed
    mishaps

lifecycleVars ==
    <<life, place, opened, devices, loops, memory, stored, writer, jammed, ran, mishaps>>

Programs == Kiosks \cup Tools
Loops == ToSet(CancelOrder)

Lives == {"out", "built", "starting", "started", "looping", "running",
          "cancelling", "stopping", "saved", "gone", "died"}

LifecycleTypeOK ==
    /\ life \in [Programs -> Lives]
    /\ place \in [Programs -> Nat]
    /\ opened \subseteq Programs
    /\ devices \in [Programs -> SUBSET (1 .. Managed)] /\ loops \in [Programs -> SUBSET Loops]
    /\ memory \in [Programs -> [drift : BOOLEAN, sale : 0 .. MaxSaleSteps]]
    /\ stored \in [drift : BOOLEAN, sale : 0 .. MaxSaleSteps]
    /\ writer \in Programs \cup {Nowhere} /\ mishaps \in 0 .. MaxMishaps
    /\ jammed \in [Programs -> SUBSET (1 .. Managed)] /\ ran \subseteq Programs

LifecycleInit ==
    /\ life = [p \in Programs |-> "out"] /\ place = [p \in Programs |-> 0]
    /\ opened = {} /\ devices = [p \in Programs |-> {}] /\ loops = [p \in Programs |-> {}]
    /\ \E drift \in BOOLEAN : stored = [drift |-> drift, sale |-> 0]
    /\ memory = [p \in Programs |-> [drift |-> FALSE, sale |-> 0]]
    /\ writer = Nowhere /\ jammed = [p \in Programs |-> {}] /\ ran = {}
    /\ mishaps = 0

GoesTo(p, stage, n) == life' = [life EXCEPT ![p] = stage] /\ place' = [place EXCEPT ![p] = n]

\* An exception that leaves start or stop ends the command: asyncio.run cancels
\* the loops, nothing stops the devices.
Dies(p) ==
    /\ mishaps < MaxMishaps /\ mishaps' = mishaps + 1
    /\ GoesTo(p, "died", 0) /\ opened' = opened \ {p} /\ loops' = [loops EXCEPT ![p] = {}]

-----------------------------------------------------------------------------
(* Building.                                                               *)

\* A configuration with errors, or a disabled simulator, opens nothing.
Refuse(p) ==
    /\ life[p] = "out" /\ GoesTo(p, "gone", 0)
    /\ UNCHANGED <<opened, devices, loops, memory, stored, writer, jammed, ran, mishaps>>

Build(p) ==
    /\ life[p] = "out" /\ GoesTo(p, "built", 0) /\ opened' = opened \cup {p}
    /\ memory' = [memory EXCEPT ![p].drift = stored.drift]
    /\ UNCHANGED <<devices, loops, stored, writer, jammed, ran, mishaps>>

-----------------------------------------------------------------------------
(* Starting.                                                               *)

BeginStart(p) ==
    /\ life[p] = "built" /\ GoesTo(p, "starting", 1)
    /\ UNCHANGED <<opened, devices, loops, memory, stored, writer, jammed, ran, mishaps>>

\* A kiosk goes on without a device that does not start; simulated devices do.
StartDevice(p) ==
    /\ life[p] = "starting" /\ place[p] <= Managed
    /\ \/ /\ devices' = [devices EXCEPT ![p] = @ \cup {place[p]}]
          /\ GoesTo(p, "starting", place[p] + 1) /\ UNCHANGED <<opened, loops, mishaps>>
       \/ /\ p \in Kiosks /\ mishaps < MaxMishaps /\ mishaps' = mishaps + 1
          /\ GoesTo(p, "starting", place[p] + 1) /\ UNCHANGED <<opened, loops, devices>>
    /\ UNCHANGED <<memory, stored, writer, jammed, ran>>

\* _restore_runtime_state: the unresolved sales come back.
Restore(p) ==
    /\ life[p] = "starting" /\ place[p] > Managed /\ GoesTo(p, "started", 0)
    /\ memory' = [memory EXCEPT ![p].sale = stored.sale]
    /\ UNCHANGED <<opened, devices, loops, stored, writer, jammed, ran, mishaps>>

\* start_runtime: the first poll and the watchdog may raise before any loop exists.
StartRuntime(p) ==
    /\ life[p] = "started"
    /\ \/ /\ GoesTo(p, "looping", 0) /\ loops' = [loops EXCEPT ![p] = Loops]
          /\ UNCHANGED <<opened, mishaps>>
       \/ Dies(p)
    /\ UNCHANGED <<devices, memory, stored, writer, jammed, ran>>

-----------------------------------------------------------------------------
(* The store.                                                              *)

\* _persist_runtime_snapshot: only the simulator's has the unresolved sales.
Snapshot(p) == IF p \in Tools THEN memory[p] ELSE [stored EXCEPT !.drift = memory[p].drift]

Persists(p) == p \in opened /\ stored' = Snapshot(p) /\ writer' = p

\* _complete_startup_flow and the first snapshot.
CompleteStart(p) ==
    /\ life[p] = "looping"
    /\ \/ /\ GoesTo(p, "running", 0) /\ Persists(p) /\ ran' = ran \cup {p}
          /\ UNCHANGED <<opened, loops, mishaps>>
       \/ Dies(p) /\ UNCHANGED <<stored, writer, ran>>
    /\ UNCHANGED <<devices, memory, jammed>>

\* A sale moves inside the validator loop, and may find drift, while a device works ...
SaleStep(p) ==
    /\ "validator-events" \in loops[p] /\ memory[p].sale < MaxSaleSteps
    /\ \E drift \in {memory[p].drift, TRUE} :
          memory' = [memory EXCEPT ![p] = [drift |-> drift, sale |-> @.sale + 1]]
    /\ UNCHANGED <<life, place, opened, devices, loops, stored, writer, jammed, ran, mishaps>>

\* ... and is saved when its event is published.
SaleSaved(p) ==
    /\ "validator-events" \in loops[p] /\ p \in opened /\ stored # memory[p]
    /\ stored' = memory[p] /\ writer' = p
    /\ UNCHANGED <<life, place, opened, devices, loops, memory, jammed, ran, mishaps>>

ClearDrift(p) ==
    /\ life[p] = "running" /\ memory[p].drift
    /\ memory' = [memory EXCEPT ![p].drift = FALSE]
    /\ UNCHANGED <<life, place, opened, devices, loops, stored, writer, jammed, ran, mishaps>>

-----------------------------------------------------------------------------
(* Stopping.                                                               *)

\* stop before a completed start only closes the store.
Leave(p) ==
    /\ life[p] = "built" /\ GoesTo(p, "gone", 0) /\ opened' = opened \ {p}
    /\ UNCHANGED <<devices, loops, memory, stored, writer, jammed, ran, mishaps>>

BeginStop(p) ==
    /\ life[p] = "running" /\ GoesTo(p, "cancelling", 1)
    /\ UNCHANGED <<opened, devices, loops, memory, stored, writer, jammed, ran, mishaps>>

\* stop_runtime; a sale inside a cancelled loop stays where it is.
CancelGroup(p) ==
    /\ life[p] = "cancelling"
    /\ IF place[p] <= Len(CancelOrder)
          THEN /\ loops' = [loops EXCEPT ![p] = @ \ {CancelOrder[place[p]]}]
               /\ GoesTo(p, "cancelling", place[p] + 1)
          ELSE GoesTo(p, "stopping", Managed) /\ UNCHANGED loops
    /\ UNCHANGED <<opened, devices, memory, stored, writer, jammed, ran, mishaps>>

\* Mutant: the exception of a device ends stop.
Uncaught(p) == Dies(p) /\ UNCHANGED jammed

\* stop swallows the exception of a device and goes on to the next.
Swallowed(p) ==
    /\ mishaps < MaxMishaps /\ mishaps' = mishaps + 1
    /\ jammed' = [jammed EXCEPT ![p] = @ \cup {place[p]}]
    /\ GoesTo(p, "stopping", place[p] - 1) /\ UNCHANGED <<opened, loops>>

\* The devices of a tool are simulated, and always stop.
StopDevice(p) ==
    /\ life[p] = "stopping" /\ place[p] > 0
    /\ \/ /\ devices' = [devices EXCEPT ![p] = @ \ {place[p]}]
          /\ GoesTo(p, "stopping", place[p] - 1) /\ UNCHANGED <<opened, loops, jammed, mishaps>>
       \/ p \in Kiosks /\ Swallowed(p) /\ UNCHANGED devices
    /\ UNCHANGED <<memory, stored, writer, ran>>

\* The snapshot waits for the store; if it is locked for too long it raises.
SaveAtStop(p) ==
    /\ life[p] = "stopping" /\ place[p] = 0
    /\ \/ GoesTo(p, "saved", 0) /\ Persists(p) /\ UNCHANGED <<opened, loops, mishaps>>
       \/ Dies(p) /\ UNCHANGED <<stored, writer>>
    /\ UNCHANGED <<devices, memory, jammed, ran>>

Close(p) ==
    /\ life[p] = "saved" /\ GoesTo(p, "gone", 0) /\ opened' = opened \ {p}
    /\ UNCHANGED <<devices, loops, memory, stored, writer, jammed, ran, mishaps>>

-----------------------------------------------------------------------------
LifecycleNext ==
    \E p \in Programs :
        \/ Refuse(p) \/ Build(p) \/ BeginStart(p) \/ StartDevice(p) \/ Restore(p)
        \/ StartRuntime(p) \/ CompleteStart(p) \/ SaleStep(p) \/ SaleSaved(p) \/ ClearDrift(p)
        \/ Leave(p) \/ BeginStop(p) \/ CancelGroup(p) \/ StopDevice(p) \/ SaveAtStop(p) \/ Close(p)

LifecycleSpec == LifecycleInit /\ [][LifecycleNext]_lifecycleVars

\* However a process ends, its loops are over and its connection is closed;
\* one that ended in order has stopped every device that let itself be
\* stopped and, when nobody wrote after it, left in the store what it knew:
\* the sale too, if it was a tool.  A kiosk that came up stops every device it
\* can before it ends, even if another device or the snapshot fails
\* (production.py:110-125, bootstrap.py:225-241).
OrderlyEnd ==
    /\ \A p \in Programs : life[p] \in {"gone", "died"} => loops[p] = {} /\ p \notin opened
    /\ \A p \in Programs : life[p] \in {"saved", "gone"} => devices[p] \subseteq jammed[p]
    /\ \A p \in Programs : life[p] \in {"saved", "gone"} /\ writer = p =>
          /\ stored.drift = memory[p].drift
          /\ p \in Tools => stored.sale = memory[p].sale
    /\ \A p \in Kiosks \cap ran : life[p] = "died" => devices[p] \subseteq jammed[p]

=============================================================================
