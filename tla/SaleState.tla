------------------------------ MODULE SaleState -----------------------------
(***************************************************************************)
(* The state shared by the orchestrators that carry a cash sale, and the   *)
(* few operations they all use.                                            *)
(*                                                                         *)
(* The program is one asyncio event loop.  Between two awaits that really  *)
(* suspend (publishing an event, a device command) a coroutine runs        *)
(* without interference, so an action of the modules that extend this one  *)
(* is such an atomic stretch of code, and pc[k] says what task k awaits:   *)
(* the reply of a device or the delivery of an event.  A task's name is    *)
(* that of the coroutine it runs.                                          *)
(***************************************************************************)
EXTENDS MachineFsm, SaleTransaction, FiniteSets, Sequences

CONSTANTS
    Tx,          \* identities of the sales that may be started
    NoTx,        \* no sale; also the idle supervisor's constant correlation id
    Unarmed,     \* the idle supervisor has seen no activity since it last fired
    Stock,       \* initial quantity of the slot
    Bills,       \* bill values the validator stacks
    MaxCash,     \* bound: cash inserted for a sale
    QueueCap,    \* bound: length of the validator's event queue
    Actors,      \* which optional actors run, see Actor
    Faults       \* which failures may happen, see Fault

Actor == { "pickup",      \* customers confirm that they took the product
           "canceller",   \* customers cancel from the kiosk
           "idle",        \* the idle supervisor
           "timeout",     \* the pickup timeout supervisor
           "hasty",       \* a customer may insert a bill before the last one is counted
           "technician",  \* service mode, recovery, drift and status refresh
           "orders",      \* the admin order list cancels or completes any sale
           "health" }     \* the health monitor blocks and unblocks sales

Fault == { "sensor", "stop", "no_plan", "enable", "validator", "disable",
           "change", "change_partial", "change_error", "refund", "motor",
           "open", "close" }

ASSUME StateAssumption ==
    /\ NoTx \notin Tx /\ Unarmed \notin Tx /\ NoTx # Unarmed
    /\ Stock \in Nat /\ Bills \subseteq Nat \ {0}
    /\ MaxCash \in Nat /\ QueueCap \in Nat
    /\ Actors \subseteq Actor /\ Faults \subseteq Fault

VARIABLES
    fsm,         \* StateMachineEngine._state
    shown,       \* MachineStatus.machine_state, the projection of fsm
    blockers,    \* MachineStatus.sale_blockers
    service,     \* MachineStatus.service_mode
    active,      \* TransactionCoordinator._active_transaction_id
    tx,          \* the transactions, by identity
    stock,       \* Slot.quantity
    drift,       \* MoneyInventory.drift_detected
    accepting,   \* the validator accepts bills
    queue,       \* validator events not processed yet
    cached,      \* correlation ids whose disable command is in the validator's replay cache
    answers,     \* the change dispenser's answers to each sale's two requests, replayed too
    window,      \* physical position of the delivery window
    pc, on,      \* what each task awaits, and for which sale
    owed,        \* amount of the refund a cancelling task has requested
    idleRef,     \* IdleTimeoutCoordinator._active_transaction_id, or Unarmed
    session,     \* the kiosk's current purchase
    journal,     \* intents and outcomes as the connection sees them
    before,      \* the journal when the open database transaction began
    txnOpen,     \* a database transaction spans an await
    inserted, paid, vended   \* history: cash put in for a sale, paid back, products released

fsmVars     == <<fsm, shown>>
permitVars  == <<blockers, service>>
saleVars    == <<active, tx, stock, drift>>
deviceVars  == <<accepting, queue, cached, window>>
taskVars    == <<pc, on, owed>>
kioskVars   == <<idleRef, session>>
storeVars   == <<journal, before, txnOpen>>
cashVars    == <<answers, inserted, paid, vended>>

vars == <<fsmVars, permitVars, saleVars, deviceVars, taskVars, kioskVars,
          storeVars, cashVars>>

-----------------------------------------------------------------------------
Tasks == {"checkout", "validator", "cancel", "idle", "confirm", "timeout", "recover"}
Cancellers == {"cancel", "idle"}

Labels == { "rest", "dead", "sensor", "stop", "enable", "event", "credited",
            "disable", "payout", "change", "repay", "paid", "motor", "open",
            "announce", "refund", "refunded", "leave", "elapsed", "close",
            "recover" }

SaleIds == Tx \cup {NoTx}

Blockers == {"validator_fault", "delivery_window_fault", "recovery_pending", "device_fault"}

Steps == { "enable", "disable", "change", "motor", "inventory", "open",
           "cancel_disable", "refund", "confirm_close", "timeout_close" }

JournalRecords == Tx \X Steps \X {"intent", "outcome"}

\* The dispenser is asked for a sale under two request ids, one for its change
\* and one for its refund.
Requests == {"change", "refund"}
Answers  == {"none", "dispensed", "partial", "failed"}

ValidatorEvents == [kind : {"stacked", "fault"}, bill : Nat]

TypeOK ==
    /\ fsm \in MachineStates /\ shown \in MachineStates
    /\ blockers \subseteq Blockers /\ service \in BOOLEAN
    /\ active \in SaleIds
    /\ tx \in [Tx -> TransactionRecords]
    /\ stock \in Nat /\ drift \in BOOLEAN
    /\ accepting \in BOOLEAN /\ queue \in Seq(ValidatorEvents)
    /\ cached \subseteq SaleIds /\ window \in {"closed", "open"}
    /\ pc \in [Tasks -> Labels] /\ on \in [Tasks -> SaleIds]
    /\ owed \in [Cancellers -> Nat]
    /\ idleRef \in SaleIds \cup {Unarmed} /\ session \in SaleIds
    /\ journal \subseteq JournalRecords /\ before \subseteq JournalRecords
    /\ txnOpen \in BOOLEAN
    /\ answers \in [Tx -> [Requests -> Answers]]
    /\ inserted \in [SaleIds -> Nat] /\ paid \in [Tx -> Nat] /\ vended \in [Tx -> Nat]

Init ==
    /\ fsm = "IDLE" /\ shown = "IDLE"
    /\ blockers = {} /\ service = FALSE
    /\ active = NoTx /\ tx = [t \in Tx |-> UnbornTransaction]
    /\ stock = Stock /\ drift = FALSE
    /\ accepting = FALSE /\ queue = << >> /\ cached = {} /\ window = "closed"
    /\ pc = [k \in Tasks |-> "rest"] /\ on = [k \in Tasks |-> NoTx]
    /\ owed = [k \in Cancellers |-> 0]
    /\ idleRef = Unarmed /\ session = NoTx
    /\ journal = {} /\ before = {} /\ txnOpen = FALSE
    /\ answers = [t \in Tx |-> [request \in Requests |-> "none"]]
    /\ inserted = [t \in SaleIds |-> 0]
    /\ paid = [t \in Tx |-> 0] /\ vended = [t \in Tx |-> 0]

-----------------------------------------------------------------------------
(* Tasks.                                                                  *)

AtRest(k) == pc[k] \in {"rest", "dead"}

Go(k, label) ==
    /\ pc' = [pc EXCEPT ![k] = label]
    /\ on' = IF label \in {"rest", "dead"} THEN [on EXCEPT ![k] = NoTx] ELSE on

Start(k, t, label) ==
    /\ pc' = [pc EXCEPT ![k] = label]
    /\ on' = [on EXCEPT ![k] = t]

Born(t) == tx[t].status # "unborn"

Put(t, r) == tx' = [tx EXCEPT ![t] = r]

(* Machine status.                                                         *)

SalesAllowed == blockers = {} /\ ~service /\ shown \notin UnsafeMachineStates

Show(s) == fsm' = s /\ shown' = s

ClearActive(t) == active' = IF active = t THEN NoTx ELSE active

(* Every published event reaches the kiosk presenter, which reports        *)
(* activity: the idle supervisor then remembers the active sale.           *)

\* Mutant: the presenter forgets to report the activity.
Unheard == UNCHANGED idleRef

Published == idleRef' = active'

(* Journal.  Records carry a unique key and are inserted with OR IGNORE,   *)
(* so the journal is a set.  A block that raises loses its own records,    *)
(* unless it joined a database transaction that another task holds open.   *)

Intent(t, step)  == <<t, step, "intent">>
Outcome(t, step) == <<t, step, "outcome">>
\* Mutant: the outcome is not recorded.
IntentOnly(t, step) == {Intent(t, step)}
Resolved(t, step) == {Intent(t, step), Outcome(t, step)}

\* Mutant: only outcomes reach the disk.
WriteOutcomes(records) ==
    /\ journal' = journal \cup {r \in records : r[3] = "outcome"}
    /\ UNCHANGED <<before, txnOpen>>

Write(records) == journal' = journal \cup records /\ UNCHANGED <<before, txnOpen>>

WriteAndRaise(records) ==
    /\ journal' = IF txnOpen THEN journal \cup records ELSE journal
    /\ UNCHANGED <<before, txnOpen>>

\* What a restart would find: an open database transaction is not durable.
Durable == IF txnOpen THEN before ELSE journal

=============================================================================
