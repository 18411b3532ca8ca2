----------------------------- MODULE IdleTimeout ----------------------------
(***************************************************************************)
(* app/orchestrators/idle_timeout_coordinator.py.  When the kiosk has seen *)
(* no activity for two minutes the supervisor cancels the active sale, or, *)
(* when that one is not cancellable, the sale it remembers from the last   *)
(* activity.  It calls cancel_purchase with a constant correlation id.     *)
(*                                                                         *)
(* Two minutes is far beyond every device timeout (a few seconds) and      *)
(* twice the pickup deadline, and every published event counts as          *)
(* activity: the supervisor fires only when every other task is at rest,   *)
(* no sale waits for its customer and no validator event waits for a live  *)
(* validator task.                                                         *)
(***************************************************************************)
EXTENDS PaymentCoordinator

\* A tap on any screen, or an event that changes nothing else.
TapScreen ==
    /\ idleRef # active
    /\ idleRef' = active
    /\ UNCHANGED <<fsmVars, permitVars, saleVars, deviceVars, taskVars, session,
                   storeVars, cashVars>>

Cancelable(r) ==
    r.payment # "confirmed" /\ r.status \in {"created", "accepting_cash"}

IdleTarget ==
    IF active # NoTx /\ Cancelable(tx[active]) THEN active ELSE idleRef

Quiet ==
    /\ \A k \in Tasks : AtRest(k)
    /\ \A t \in Tx : tx[t].status # "waiting_for_customer_pickup"
    /\ queue = << >> \/ pc["validator"] = "dead"

IdleFires ==
    /\ "idle" \in Actors /\ Quiet
    /\ idleRef # Unarmed /\ IdleTarget # NoTx
    /\ BeginCancel("idle", IdleTarget)

IdleRelaxes ==
    /\ "idle" \in Actors /\ Quiet
    /\ idleRef # Unarmed /\ IdleTarget = NoTx
    /\ idleRef' = Unarmed
    /\ UNCHANGED <<fsmVars, permitVars, saleVars, deviceVars, taskVars, session,
                   storeVars, cashVars>>

\* A machine that cancel_purchase left in CANCELLED is not moved to IDLE.
LeaveIdle ==
    LET t == on["idle"]
    IN  /\ pc["idle"] = "leave"
        /\ IF fsm \in {"IDLE", "CANCELLED"} THEN UNCHANGED fsmVars ELSE Show("IDLE")
        /\ ClearActive(t)
        /\ idleRef' = Unarmed
        /\ Go("idle", "rest")
        /\ UNCHANGED <<permitVars, tx, stock, drift, deviceVars, owed, session,
                       storeVars, cashVars>>

=============================================================================
