---------------------------- MODULE PickupTimeout ---------------------------
(***************************************************************************)
(* app/orchestrators/pickup_timeout_coordinator.py.  A sale waiting for    *)
(* its customer has a deadline; poll_once or force_timeout_now then closes *)
(* the window and asks for a manual review.  Clocks are not modelled: the  *)
(* deadline may pass whenever the sale is waiting.  The coordinator's lock *)
(* is never held across an await, and one timeout is handled at a time     *)
(* (_handling), so the task needs no state besides pc.                     *)
(***************************************************************************)
EXTENDS SaleState

\* Every poll looks for the sales whose window is open, whatever events it missed.
AwaitsPickup(t) == tx[t].status = "waiting_for_customer_pickup"

PickupExpires(t) ==
    /\ "timeout" \in Actors
    /\ pc["timeout"] = "rest" /\ AwaitsPickup(t)
    /\ Start("timeout", t, "elapsed")
    /\ UNCHANGED <<fsmVars, permitVars, saleVars, deviceVars, owed, session,
                   storeVars, cashVars>>
    /\ Published

\* After pickup_timeout_elapsed has been published the status is not read again.
TimeoutCloses ==
    LET t == on["timeout"]
    IN  /\ pc["timeout"] = "elapsed"
        /\ IF fsm = "WAITING_FOR_CUSTOMER_PICKUP" THEN Show("CLOSING_DELIVERY_WINDOW")
                                                  ELSE UNCHANGED fsmVars
        /\ Write({Intent(t, "timeout_close")})
        /\ Go("timeout", "close")
        /\ UNCHANGED <<permitVars, saleVars, deviceVars, owed, kioskVars, cashVars>>

TimeoutClosed ==
    LET t == on["timeout"]
    IN  /\ pc["timeout"] = "close"
        /\ window' = "closed"
        /\ Write({Outcome(t, "timeout_close")})
        /\ Put(t, MarkPickupTimedOut(tx[t]))
        /\ Show("RECOVERY_PENDING")
        /\ blockers' = blockers \cup {"recovery_pending"}
        /\ Go("timeout", "rest")
        /\ UNCHANGED <<service, active, stock, drift, accepting, queue, cached, owed,
                       session, cashVars>>
        /\ Published

TimeoutCloseFails ==
    LET t == on["timeout"]
    IN  /\ pc["timeout"] = "close" /\ "close" \in Faults
        /\ Write({Outcome(t, "timeout_close")})
        /\ Put(t, MarkFaulted(tx[t]))
        /\ Show("FAULT")
        /\ blockers' = blockers \cup {"delivery_window_fault"}
        /\ session' = NoTx
        /\ Go("timeout", "rest")
        /\ UNCHANGED <<service, active, stock, drift, deviceVars, owed, cashVars>>
        /\ Published

=============================================================================
