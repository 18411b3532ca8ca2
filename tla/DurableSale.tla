----------------------------- MODULE DurableSale ----------------------------
(***************************************************************************)
(* The sale with its database, and the loss of power at any moment of it.  *)
(*                                                                         *)
(* SaleState!journal is on disk already.  The sales themselves reach the   *)
(* disk through RuntimePersistenceProjector (runtime/bootstrap.py), which  *)
(* listens to some events only: DurableNext lets every action of SaleFlow  *)
(* save what the events it publishes save.  After a power loss the two     *)
(* assemblies of the program restore differently what they find.           *)
(***************************************************************************)
EXTENDS SaleProperties

CONSTANT MaxLosses       \* bound: power losses in a behaviour

ASSUME LossAssumption == MaxLosses \in Nat

VARIABLES
    assembly,    \* which environment was built: simulator or production
    powered,
    losses,      \* how often power was lost
    rows,        \* the transactions and money_inventory tables, as the connection sees them
    rowsBefore,  \* and as they were when the open database transaction began
    old,         \* sales of an earlier boot, restored or not
    byHand       \* history: those that technicians have recovered in this boot

diskVars    == <<rows, rowsBefore>>
bootVars    == <<assembly, powered, losses, old>>
durableVars == <<vars, diskVars, bootVars, byHand>>

DiskRows == IF txnOpen THEN rowsBefore ELSE rows

NoRows == [sales |-> [t \in {} |-> UnbornTransaction], drift |-> FALSE]

DurableInit ==
    /\ Init
    /\ assembly \in {"simulator", "production"}
    /\ powered = TRUE /\ losses = 0 /\ old = {} /\ byHand = {}
    /\ rows = NoRows /\ rowsBefore = NoRows

-----------------------------------------------------------------------------
(* The projector.                                                          *)

\* Mutant: only the sale the event is about is saved, and only when it is over.
SaveFinished(t) ==
    rows' = IF t = NoTx \/ Unresolved(tx'[t]) THEN rows
            ELSE [rows EXCEPT !.sales = [u \in DOMAIN @ \cup {t} |-> tx'[u]]]

\* handle_domain_event: the event's sale, every unresolved one and the cash
\* inventory, in one database transaction or in the one that is open.
Save(t) ==
    LET saved == {u \in Tx : u = t \/ Unresolved(tx'[u])}
    IN  rows' = [sales |-> [u \in DOMAIN rows.sales \cup saved |->
                               IF u \in saved THEN tx'[u] ELSE rows.sales[u]],
                 drift |-> drift']

NothingSaved == rows' = rows

\* The kiosk's cancellation opens a database transaction, and what it or
\* anybody else saves meanwhile is lost when it raises.
RolledBack == txnOpen /\ ~txnOpen' /\ pc["cancel"] # "leave"

SaveUnlessRolledBack(t) == IF RolledBack THEN rows' = rowsBefore ELSE Save(t)

SaleOf(k) == on[k]

PaymentSaves ==
    /\ CompletionDisabled \/ ChangeDispensed \/ Repaid
    /\ IF pc'["validator"] \in {"paid", "rest"} THEN Save(SaleOf("validator")) ELSE NothingSaved

\* product_dispensed, delivery_window_opened or machine_faulted, once the
\* state machine has agreed.
ReleaseSaves ==
    /\ MotorDone \/ MotorFails \/ WindowOpens \/ WindowOpenFails
    /\ IF fsm' # fsm THEN Save(SaleOf("validator")) ELSE NothingSaved

PickupSaves ==
    \/ PickupClosed /\ IF fsm' # fsm THEN Save(SaleOf("confirm")) ELSE NothingSaved
    \/ TimeoutCloseFails /\ Save(SaleOf("timeout"))
    \/ \E t \in Tx : PickupExpires(t) /\ Save(t)

CancelSaves ==
    \E k \in Cancellers :
        \/ /\ CancelDisabled(k) \/ EndCancel(k)
           /\ IF pc'[k] = "announce" THEN NothingSaved
              ELSE IF pc'[k] = "leave" \/ RolledBack THEN SaveUnlessRolledBack(SaleOf(k))
              ELSE NothingSaved
        \/ RefundDispensed(k) /\ Save(SaleOf(k))
        \/ (RefundFails(k) \/ CancelDisableFails(k))
             /\ IF RolledBack \/ pc[k] = "refund" THEN SaveUnlessRolledBack(SaleOf(k))
                                                  ELSE NothingSaved

OperatorSaves ==
    \/ (EnterServiceMode \/ ExitServiceMode \/ HealthBlocks) /\ Save(active)
    \/ \E t \in Tx : BeginRecovery(t) /\ Save(t)

\* Everything else announces nothing that the projector listens to: above
\* all no bill, no change request and no failed change reaches the tables.
SilentStep ==
    /\ \/ CheckoutTask
       \/ TakeEvent \/ CreditBill \/ ValidatorFault \/ BillNotEnough \/ BeginCompletion
       \/ CompletionDisableFails \/ RequestChange \/ ChangeFails \/ RepayFails
       \/ AuthorizeSale
       \/ \E k \in Cancellers : RequestRefund(k)
       \/ LeaveCancel \/ LeaveIdle
       \/ PickupCloseFails \/ TimeoutCloses \/ TimeoutClosed \/ EndRecovery
       \/ IdleFires \/ IdleRelaxes \/ Customer
       \/ \E t \in Tx : OrderDone(t) \/ OrderCancel(t)
       \/ RefreshStatus \/ ClearDrift \/ ClearRestricted
       \/ ValidatorBreaks \/ HealthUnblocks
    /\ NothingSaved

\* A new sale has an identity that was never used.
FreshIdentity == pc'["checkout"] = "sensor" => on'["checkout"] \notin old

Run ==
    /\ powered
    /\ PaymentSaves \/ ReleaseSaves \/ PickupSaves \/ CancelSaves
          \/ OperatorSaves \/ SilentStep
    /\ FreshIdentity
    /\ rowsBefore' = IF txnOpen' /\ ~txnOpen THEN rows ELSE rowsBefore
    /\ byHand' = byHand \cup {t \in old : EndRecovery /\ t = on["recover"]}
    /\ UNCHANGED bootVars

-----------------------------------------------------------------------------
(* Power.  What was in memory is lost, with the open database transaction; *)
(* a device that was moving has moved or not.                              *)

Awaits(k, label) == pc[k] = label

MotorMayHaveTurned ==
    \/ UNCHANGED vended
    \/ Awaits("validator", "motor") /\ vended' = [vended EXCEPT ![on["validator"]] = @ + 1]

\* The dispenser was paying change, or a refund for this or a cancelling task.
\* A request that has been answered before is only replayed.
Paying ==
    {k \in {"validator"} : \/ pc[k] = "change" /\ answers[on[k]]["change"] = "none"
                           \/ pc[k] = "repay" /\ answers[on[k]]["refund"] = "none"}
    \cup {k \in Cancellers : pc[k] = "refund" /\ answers[on[k]]["refund"] = "none"}

AmountOf(k) == CASE pc[k] = "change" -> tx[on[k]].due
                 [] pc[k] = "repay"  -> tx[on[k]].accepted
                 [] OTHER -> owed[k]

\* Each of these payouts has left the machine or not.
MoneyMayHaveLeft ==
    \E gone \in SUBSET Paying :
        LET Left(k, t) == IF k \in gone /\ on[k] = t THEN AmountOf(k) ELSE 0
        IN  paid' = [t \in Tx |-> paid[t] + Left("validator", t) + Left("cancel", t)
                                          + Left("idle", t)]

WindowMayHaveMoved ==
    \/ UNCHANGED window
    \/ Awaits("validator", "open") /\ window' = "open"
    \/ (Awaits("confirm", "close") \/ Awaits("timeout", "close")) /\ window' = "closed"

\* What the power feeds: the validator, and the replay caches in memory.
DevicesStop ==
    /\ accepting' = FALSE /\ queue' = << >> /\ cached' = {}
    /\ answers' = [t \in Tx |-> [request \in Requests |-> "none"]]

PowerLoss ==
    /\ powered /\ losses < MaxLosses
    /\ powered' = FALSE /\ losses' = losses + 1
    /\ MotorMayHaveTurned /\ MoneyMayHaveLeft /\ WindowMayHaveMoved
    /\ journal' = Durable /\ before' = {} /\ txnOpen' = FALSE
    /\ rows' = DiskRows /\ rowsBefore' = NoRows
    /\ DevicesStop
    /\ pc' = [k \in Tasks |-> "rest"] /\ on' = [k \in Tasks |-> NoTx]
    /\ owed' = [k \in Cancellers |-> 0]
    /\ idleRef' = Unarmed /\ session' = NoTx
    /\ UNCHANGED <<fsmVars, permitVars, saleVars, inserted, assembly, old, byHand>>

-----------------------------------------------------------------------------
(* Start-up: _restore_runtime_state, _complete_startup_flow and, in the    *)
(* simulator assembly, the saving of what the detection marked.            *)

OpenSteps(t) == {step \in Steps : Intent(t, step) \in journal /\ Outcome(t, step) \notin journal}

\* classify_intent: an unresolved one of these needs an operator.
ManualSteps == Steps \ {"enable", "disable", "cancel_disable"}

MarkRecoveryPending(r) == [r EXCEPT !.recovery = "pending"]

\* detect_unresolved_intents.  Where both kinds are open the later mark wins
\* the recovery status; no property tells the two marks apart.
Detect(t, r) ==
    IF OpenSteps(t) = {} THEN r
    ELSE IF OpenSteps(t) \cap ManualSteps = {} THEN MarkRecoveryPending(r)
    ELSE MarkAmbiguous(r)

\* Only rows are restored: an intent whose sale has no row is passed over.
\* The production assembly does not look at the intents at all.
Restored ==
    {t \in DOMAIN rows.sales :
        Unresolved(rows.sales[t]) \/ (assembly = "simulator" /\ OpenSteps(t) # {})}

RestoredSale(t) ==
    IF t \notin DOMAIN rows.sales THEN UnbornTransaction
    ELSE IF assembly = "simulator" /\ t \in Restored THEN Detect(t, rows.sales[t])
    ELSE rows.sales[t]

\* Mutant: restored sales do not lock the terminal.
RestartUnlocked(restored) == blockers' = {} /\ fsm' = "IDLE" /\ shown' = "IDLE"

RestartLocked(restored) ==
    LET state == IF restored = {} THEN "IDLE" ELSE "RECOVERY_PENDING"
    IN  /\ blockers' = IF restored = {} THEN {} ELSE {"recovery_pending"}
        /\ fsm' = state /\ shown' = state

\* Mutant: an interrupted release is taken up where it stopped.
TasksResume ==
    /\ \/ \E t \in Tx : "motor" \in OpenSteps(t) /\ Start("validator", t, "motor")
       \/ UNCHANGED <<pc, on>>
    /\ UNCHANGED owed

TasksStart == UNCHANGED taskVars

PowerReturns ==
    LET unfinished == {t \in Restored : RestoredSale(t).status
                          \notin {"completed", "cancelled", "pickup_timed_out"}}
    IN  /\ ~powered /\ powered' = TRUE
        /\ tx' = [t \in Tx |-> RestoredSale(t)]
        /\ old' = old \cup {t \in Tx : Born(t)} /\ byHand' = {}
        /\ active' \in IF unfinished = {} THEN {NoTx} ELSE unfinished
        /\ RestartLocked(Restored)
        /\ service' = FALSE
        /\ stock' = Stock              \* slots are saved by the seeding only
        /\ drift' = rows.drift
        /\ rows' = IF assembly = "production" THEN rows
                   ELSE [rows EXCEPT !.sales =
                           [t \in DOMAIN @ |-> IF t \in Restored THEN tx'[t] ELSE @[t]]]
        /\ TasksStart
        /\ UNCHANGED <<deviceVars, kioskVars, storeVars, cashVars,
                       rowsBefore, assembly, losses>>

DurableNext == Run \/ PowerLoss \/ PowerReturns

DurableSpec == DurableInit /\ [][DurableNext]_durableVars

-----------------------------------------------------------------------------
(* Properties.                                                             *)

\* A product that left the machine, also one that left it as the power
\* failed, has its sale on the disk, paid: the restart can find it
\* (payment_confirmed is saved before vend_authorized is published).
ReleaseIsOnDisk ==
    \A t \in Tx : vended[t] > 0 =>
        t \in DOMAIN DiskRows.sales /\ DiskRows.sales[t].accepted >= Price

\* Steps after which the product may be gone and the window open.
ReleaseSteps == {"motor", "inventory", "open"}

\* After a restart no new sale takes cash while the release of an earlier one
\* was interrupted (README, section 5: the system finds the unfinished intent
\* and waits for an operator), until an operator has recovered some sale since
\* (recover_transaction cancels the sale it is asked for and takes the blocker
\* away, which is one for all the sales that were restored).
NoSaleOverInterruptedRelease ==
    [][\A t \in old, u \in Tx : SessionStarts(u) =>
            byHand # {} \/ OpenSteps(t) \cap ReleaseSteps = {}]_durableVars

\* Money leaves a sale with an intent on the disk that a restart can find.
PayoutIntentDurable ==
    [][\A t \in Tx : paid'[t] > paid[t] =>
            \E step \in {"change", "refund"} : Intent(t, step) \in Durable]_durableVars

\* The machine never releases a product for a sale of an earlier boot: an
\* operator decides what becomes of it (bench checklist, phase 8: a restart
\* restores unresolved state "without unsafe commands").
NoReleaseAfterRestart == [][\A t \in old : vended'[t] = vended[t]]_durableVars

\* README, section 1: after a restart the system restores the interrupted
\* sales.  A sale with counted cash that was unfinished when the power failed
\* (tx keeps what was in memory then) is known afterwards.
CashSurvivesRestart ==
    [][\A t \in Tx :
          ~powered /\ powered' /\ Unresolved(tx[t]) /\ tx[t].accepted > 0
              => Born(t)']_durableVars

-----------------------------------------------------------------------------
(* The invariants behind NoReleaseAfterRestart, ReleaseIsOnDisk and        *)
(* PayoutIntentDurable.                                                    *)

RowsTyped(r) ==
    /\ r = [sales |-> r.sales, drift |-> r.drift]
    /\ DOMAIN r.sales \subseteq Tx /\ r.drift \in BOOLEAN
    /\ \A t \in DOMAIN r.sales : r.sales[t] \in TransactionRecords

\* Types, of what is on the disk and of what a boot finds; without power no
\* task is at work and no device.
DurableTypeOK ==
    /\ TypeOK /\ TasksHaveSales /\ EventInQueue /\ RowsTyped(rows) /\ RowsTyped(rowsBefore)
    /\ byHand \subseteq old /\ old \subseteq Tx
    /\ powered \in BOOLEAN /\ assembly \in {"simulator", "production"}
    /\ ~powered => /\ pc = [k \in Tasks |-> "rest"] /\ on = [k \in Tasks |-> NoTx]
                   /\ queue = << >> /\ ~accepting /\ ~txnOpen

\* A sale of an earlier boot is never bought again; while it is the active one
\* no bill comes in, and the validator task reads nothing but faults for it.
OldSalesRest ==
    /\ pc["checkout"] # "rest" => on["checkout"] \notin old
    /\ active \in old =>
           ~accepting /\ HoldsNoBill(queue) /\ pc["checkout"] \in {"rest", "sensor"}
    /\ on["validator"] \in old => pc["validator"] = "event" /\ Head(queue).kind = "fault"

\* On disk the sale is known and paid for.
PaidOnDisk(t) == t \in DOMAIN rows.sales /\ rows.sales[t].accepted >= Price

\* The rows lag behind the sales and never show more cash than was counted; the
\* sale that payment_confirmed was published for has its row.
RowsFollow ==
    /\ \A t \in DOMAIN rows.sales :
          /\ rows.sales[t].accepted <= tx[t].accepted
          /\ rows.sales[t].status = "unborn" => rows.sales[t].session = "none"
          /\ rows.sales[t].session = "none" => rows.sales[t].accepted = 0
    /\ pc["validator"] \in {"paid", "motor"} => PaidOnDisk(on["validator"])
    /\ \A t \in Tx : vended[t] > 0 => PaidOnDisk(t)

\* Whoever is about to pay has journalled it.
PayoutsAnnounced ==
    /\ pc["validator"] \in {"payout", "change", "repay"}
          => Intent(on["validator"], "change") \in journal
    /\ pc["idle"] = "refund" => Intent(on["idle"], "refund") \in journal

\* The configurations PayoutIntentDurable is claimed for: where no set of
\* coins makes up the change, the whole amount is refunded without an intent.
ChangeHasPlan == "no_plan" \notin Faults

-----------------------------------------------------------------------------
(* The invariant behind NoSaleOverInterruptedRelease, and what it is       *)
(* claimed for.                                                            *)

NoIdleSupervisor == "idle" \notin Actors

Interrupted(t) == OpenSteps(t) \cap ReleaseSteps # {}

\* The sale is kept for an operator: unfinished, and not to be cancelled at once.
Locks(r) == Unresolved(r) /\ ~CancelSafe(r)

\* An interrupted release is kept for an operator, in memory and on disk.
InterruptedAreKept ==
    \A t \in Tx : Interrupted(t) =>
        /\ Locks(tx[t]) /\ (t \notin old => tx[t].session # "none")
        /\ t \in DOMAIN rows.sales /\ Locks(rows.sales[t])

\* A confirmed payment in the hands of the validator task is not finished, and
\* is on disk before the motor is asked, which it is for confirmed ones only.
ConfirmedGoesOn ==
    LET t == on["validator"]
        confirmed == tx[t].payment = "confirmed"
    IN  /\ pc["validator"] \in {"disable", "payout", "change", "paid", "motor", "open"}
              => (confirmed => tx[t].status \notin {"unborn", "completed", "cancelled"})
        /\ pc["validator"] \in {"paid", "motor"}
              => (confirmed => t \in DOMAIN rows.sales /\ Locks(rows.sales[t]))
        /\ pc["validator"] \in {"motor", "open"} => confirmed /\ tx[t].session # "none"

\* States in which the pickup of a released product may be confirmed.
PickupStates == {"WAITING_FOR_CUSTOMER_PICKUP", "CLOSING_DELIVERY_WINDOW"}

\* The release that is open is the one the validator task awaits, or the one it
\* died on; the machine waits for no customer then.
OneRelease ==
    /\ pc["validator"] \in {"motor", "open"}
          => /\ OpenSteps(on["validator"]) \cap ReleaseSteps \subseteq {pc["validator"]}
             /\ fsm \notin PickupStates
    /\ powered => \A t \in Tx \ old : Interrupted(t) =>
          /\ \/ pc["validator"] \in {"motor", "open"} /\ on["validator"] = t
             \/ pc["validator"] = "dead"
          /\ fsm \notin PickupStates

\* Customers confirm the pickup of what was released in this boot, when its
\* release is over.
PickupsApart ==
    /\ session \notin old
    /\ \A t \in Tx : tx[t].status = "waiting_for_customer_pickup" => vended[t] > 0
    /\ \A t \in DOMAIN rows.sales :
          rows.sales[t].status = "waiting_for_customer_pickup" => vended[t] > 0
    /\ pc["validator"] = "open" => vended[on["validator"]] > 0
    /\ pc["confirm"] # "rest" =>
          LET t == on["confirm"]
          IN  /\ t \in Tx \ old /\ vended[t] > 0 /\ ~Interrupted(t)
              /\ ~(pc["validator"] = "open" /\ on["validator"] = t)

\* States that a sale passes through from its first bill to its last door.
SellingStates ==
    PickupStates \cup {"ACCEPTING_CASH", "PAYMENT_ACCEPTED", "DISPENSING_CHANGE",
                       "DISPENSING_PRODUCT", "OPENING_DELIVERY_WINDOW"}

\* While a technician cancels a sale the machine sells nothing, above all not
\* that sale.
RecoveryStops ==
    pc["recover"] # "rest" =>
        /\ "recovery_pending" \in blockers /\ fsm \notin SellingStates
        /\ on["recover"] \in Tx /\ ~Interrupted(on["recover"])
        /\ ~(pc["validator"] \in {"motor", "open"} /\ on["validator"] = on["recover"])

\* No session is on disk that was never begun, and none begins twice.
SessionsFollow ==
    /\ \A t \in DOMAIN rows.sales : rows.sales[t].session # "none" => tx[t].session # "none"
    /\ pc["checkout"] = "stop" => tx[on["checkout"]].session = "none"

\* Only sales that were created are on disk, in use or being repaid.
KnownSales ==
    /\ \A t \in DOMAIN rows.sales : rows.sales[t].status # "unborn" /\ Born(t)
    /\ active \in Tx => Born(active)
    /\ pc["validator"] = "repay" => Born(on["validator"])

\* Nothing can sell: no task is on its way to a purchase, no cash can come in,
\* and whoever is at work is so for a sale of an earlier boot, the only ones
\* that exist.
Locked ==
    /\ "recovery_pending" \in blockers
    /\ pc["checkout"] = "rest" /\ pc["confirm"] = "rest"
    /\ pc["validator"] \in {"rest", "event", "dead"}
    /\ session = NoTx /\ ~accepting /\ HoldsNoBill(queue)
    /\ \A s \in Tx \ old :
          ~Born(s) /\ active # s /\ \A k \in {"validator", "timeout", "recover"} : on[k] # s

OldInterruptionsLock ==
    powered /\ (\E t \in old : Interrupted(t)) => Locked \/ byHand # {}

\* What else a machine without power has forgotten.
PowerlessForgets ==
    ~powered => session = NoTx /\ \A t \in Tx : answers[t]["change"] = "none"

ReleaseInvariant ==
    /\ pc["idle"] = "rest" /\ PowerlessForgets
    /\ InterruptedAreKept /\ ConfirmedGoesOn /\ OneRelease /\ PickupsApart
    /\ RecoveryStops /\ SessionsFollow /\ KnownSales /\ OldInterruptionsLock

=============================================================================
