----------------------------- MODULE Technician -----------------------------
(***************************************************************************)
(* What reaches the sale from outside it: the recovery manager's           *)
(* recover_transaction, the service mode coordinator, the health monitor   *)
(* and the small operations that re-project the machine state.             *)
(***************************************************************************)
EXTENDS SaleState

Unresolved(r) ==
    /\ r.status # "unborn"
    /\ r.recovery # "none" \/ r.status \notin {"completed", "cancelled"}

(* RecoveryManager.assess: only a sale whose payment is not confirmed and  *)
(* that is in no ambiguous or final status may be cancelled at once.       *)

CancelSafe(r) ==
    /\ r.status \notin {"completed", "cancelled", "pickup_timed_out", "ambiguous", "faulted"}
    /\ r.payment # "confirmed"

\* The plan is made before recovery_started is published and used after it.
BeginRecovery(t) ==
    /\ "technician" \in Actors
    /\ pc["recover"] = "rest" /\ Unresolved(tx[t])
    /\ Show("RECOVERY_PENDING")
    /\ blockers' = blockers \cup {"recovery_pending"}
    /\ IF CancelSafe(tx[t]) THEN Start("recover", t, "recover") ELSE UNCHANGED <<pc, on>>
    /\ UNCHANGED <<service, saleVars, deviceVars, owed, session, storeVars, cashVars>>
    /\ Published

EndRecovery ==
    LET t == on["recover"]
    IN  /\ pc["recover"] = "recover"
        /\ Put(t, Cancel(tx[t]))
        /\ ClearActive(t)
        /\ blockers' = blockers \ {"recovery_pending"}
        /\ IF MayEnter(fsm, "IDLE") THEN Show("IDLE") /\ Published
                                    ELSE UNCHANGED <<fsmVars, idleRef>>
        /\ Go("recover", "rest")
        /\ UNCHANGED <<service, stock, drift, deviceVars, owed, session, storeVars, cashVars>>

(* Service mode with the right PIN; both directions fall back on force.    *)

EnterServiceMode ==
    /\ "technician" \in Actors /\ ~service
    /\ service' = TRUE /\ Show("SERVICE_MODE")
    /\ UNCHANGED <<blockers, saleVars, deviceVars, taskVars, session, storeVars, cashVars>>
    /\ Published

ExitServiceMode ==
    /\ "technician" \in Actors /\ service
    /\ service' = FALSE /\ Show("IDLE")
    /\ UNCHANGED <<blockers, saleVars, deviceVars, taskVars, session, storeVars, cashVars>>
    /\ Published

\* set_machine_state(fsm.current_state), as product toggling and the
\* purchase lock call it.
RefreshStatus ==
    /\ "technician" \in Actors /\ shown # fsm
    /\ shown' = fsm
    /\ UNCHANGED <<fsm, permitVars, saleVars, deviceVars, taskVars, session, storeVars, cashVars>>
    /\ Published

ClearDrift ==
    /\ "technician" \in Actors /\ drift
    /\ drift' = FALSE
    /\ UNCHANGED <<fsmVars, permitVars, active, tx, stock, deviceVars, taskVars,
                   kioskVars, storeVars, cashVars>>

\* The "reset" button of the error and restricted screens.  What it does to
\* the transactions it does with simulated devices only.
ClearRestricted ==
    /\ "technician" \in Actors /\ (session # NoTx \/ drift)
    /\ session' = NoTx /\ drift' = FALSE
    /\ UNCHANGED <<fsmVars, permitVars, active, tx, stock, deviceVars, taskVars,
                   idleRef, storeVars, cashVars>>

(* The health monitor blocks sales for a faulty device and publishes       *)
(* machine_faulted, on which the kiosk forgets the current purchase.       *)

HealthBlocks ==
    /\ "health" \in Actors
    /\ blockers' = blockers \cup {"device_fault"}
    /\ session' = NoTx
    /\ UNCHANGED <<fsmVars, service, saleVars, deviceVars, taskVars, storeVars, cashVars>>
    /\ Published

HealthUnblocks ==
    /\ "device_fault" \in blockers
    /\ blockers' = blockers \ {"device_fault"}
    /\ UNCHANGED <<fsmVars, service, saleVars, deviceVars, taskVars, kioskVars,
                   storeVars, cashVars>>

=============================================================================
