-------------------------- MODULE VendingController -------------------------
(***************************************************************************)
(* app/orchestrators/vending_controller.py: a purchase begins, an          *)
(* authorised product is released through the delivery window, and the     *)
(* customer confirms the pickup.                                           *)
(*                                                                         *)
(* handle_vend_authorized runs inside the validator task: it is a critical *)
(* subscriber of vend_authorized, so what it raises travels through        *)
(* publish and complete_payment into the validator event loop, which has   *)
(* no handler and ends ("dead").                                           *)
(***************************************************************************)
EXTENDS SaleState

(* start_purchase, up to the inventory sensor's answer.                    *)

TapBuy(t) ==
    /\ pc["checkout"] = "rest" /\ ~Born(t)
    /\ SalesAllowed /\ stock > 0
    /\ Start("checkout", t, "sensor")
    /\ UNCHANGED <<fsmVars, permitVars, saleVars, deviceVars, owed, session,
                   storeVars, cashVars>>
    /\ Published                           \* the tap itself touches the supervisor

SensorMismatch ==
    /\ pc["checkout"] = "sensor" /\ "sensor" \in Faults
    /\ Go("checkout", "rest")
    /\ UNCHANGED <<fsmVars, permitVars, saleVars, deviceVars, owed, kioskVars,
                   storeVars, cashVars>>

\* create_transaction accepts a new sale over a finished one only.
SlotIsFree ==
    active # NoTx => tx[active].status \in {"completed", "cancelled", "pickup_timed_out"}

RefusePurchase ==
    /\ pc["checkout"] = "sensor" /\ ~SlotIsFree
    /\ Go("checkout", "rest")
    /\ UNCHANGED <<fsmVars, permitVars, saleVars, deviceVars, owed, kioskVars,
                   storeVars, cashVars>>

(* The transaction exists and is active before the state machine is asked: *)
(* the two failures leave it behind.                                       *)

CreatePurchase ==
    LET t == on["checkout"]
    IN  /\ pc["checkout"] = "sensor" /\ SlotIsFree
        /\ Put(t, NewTransaction) /\ active' = t
        /\ \/ /\ MayEnter(fsm, "PRODUCT_SELECTED") /\ SalesAllowed
              /\ Show("WAITING_FOR_PAYMENT")
              /\ Go("checkout", "stop")
           \/ /\ MayEnter(fsm, "PRODUCT_SELECTED") /\ ~SalesAllowed
              /\ fsm' = "CHECKING_AVAILABILITY" /\ shown' = shown
              /\ Go("checkout", "rest")
           \/ /\ ~MayEnter(fsm, "PRODUCT_SELECTED")
              /\ UNCHANGED fsmVars
              /\ Go("checkout", "rest")
        /\ UNCHANGED <<permitVars, stock, drift, deviceVars, owed, kioskVars,
                       storeVars, cashVars>>

-----------------------------------------------------------------------------
(* handle_vend_authorized.                                                 *)

\* The handler is called: payment_confirmed has been published.
AuthorizeSale ==
    LET t == on["validator"]
    IN  /\ pc["validator"] = "paid"
        /\ \/ /\ ~CanAuthorize(tx[t])
              /\ Go("validator", "dead")
              /\ UNCHANGED <<fsmVars, saleVars, storeVars>>
           \/ /\ CanAuthorize(tx[t]) /\ ~MayEnter(fsm, "DISPENSING_PRODUCT")
              /\ Put(t, AuthorizeVend(tx[t]))
              /\ Go("validator", "dead")
              /\ UNCHANGED <<fsmVars, active, stock, drift, storeVars>>
           \/ /\ CanAuthorize(tx[t]) /\ MayEnter(fsm, "DISPENSING_PRODUCT")
              /\ Put(t, AuthorizeVend(tx[t]))
              /\ Show("DISPENSING_PRODUCT")
              /\ Write({Intent(t, "motor")})
              /\ Go("validator", "motor")
              /\ UNCHANGED <<active, stock, drift>>
        /\ UNCHANGED <<permitVars, deviceVars, owed, session, cashVars>>
        /\ Published

\* The motor has turned: the slot is decremented and the window requested.
MotorDone ==
    LET t == on["validator"]
    IN  /\ pc["validator"] = "motor"
        /\ vended' = [vended EXCEPT ![t] = @ + 1] /\ active' = active
        /\ \/ /\ stock > 0 /\ MayEnter(fsm, "OPENING_DELIVERY_WINDOW")
              /\ stock' = stock - 1
              /\ Put(t, MarkProductDispensed(tx[t]))
              /\ Show("OPENING_DELIVERY_WINDOW")
              /\ Write({Outcome(t, "motor"), Intent(t, "open")} \cup Resolved(t, "inventory"))
              /\ Go("validator", "open")
              /\ Published
           \/ /\ stock > 0 /\ ~MayEnter(fsm, "OPENING_DELIVERY_WINDOW")
              /\ stock' = stock - 1
              /\ Put(t, MarkProductDispensed(tx[t]))
              /\ UNCHANGED fsmVars
              /\ WriteAndRaise({Outcome(t, "motor")} \cup Resolved(t, "inventory"))
              /\ Go("validator", "dead")
              /\ UNCHANGED idleRef
           \/ /\ stock = 0
              /\ UNCHANGED <<stock, tx, fsmVars>>
              /\ WriteAndRaise({Outcome(t, "motor"), Intent(t, "inventory")})
              /\ Go("validator", "dead")
              /\ UNCHANGED idleRef
        /\ UNCHANGED <<permitVars, drift, deviceVars, owed, session, answers, inserted, paid>>

\* Mutant of FaultSale: the machine is sent to IDLE, as after a cancellation.
FaultSaleThenIdle(t, step) ==
    /\ Put(t, MarkFaulted(tx[t]))
    /\ Write({Outcome(t, step)})
    /\ ClearActive(t)
    /\ Show("IDLE") /\ session' = NoTx /\ Published
    /\ Go("validator", "dead")

\* A hardware failure while the product or the window moves.
FaultSale(t, step) ==
    /\ Put(t, MarkFaulted(tx[t]))
    /\ Write({Outcome(t, step)})
    /\ ClearActive(t)
    /\ IF MayEnter(fsm, "FAULT") THEN Show("FAULT") /\ session' = NoTx /\ Published
                                 ELSE UNCHANGED <<fsmVars, kioskVars>>
    /\ Go("validator", "dead")

\* The product may have dropped all the same.
MotorFails ==
    LET t == on["validator"]
    IN  /\ pc["validator"] = "motor" /\ "motor" \in Faults
        /\ FaultSale(t, "motor")
        /\ vended' \in {vended, [vended EXCEPT ![t] = @ + 1]}
        /\ UNCHANGED <<permitVars, stock, drift, deviceVars, owed, answers, inserted, paid>>

WindowOpens ==
    LET t == on["validator"]
    IN  /\ pc["validator"] = "open"
        /\ window' = "open" /\ active' = active
        /\ Put(t, MarkWindowOpened(tx[t]))
        /\ \/ /\ MayEnter(fsm, "WAITING_FOR_CUSTOMER_PICKUP")
              /\ Show("WAITING_FOR_CUSTOMER_PICKUP")
              /\ Write({Outcome(t, "open")})
              /\ Go("validator", "rest")
              /\ Published
           \/ /\ ~MayEnter(fsm, "WAITING_FOR_CUSTOMER_PICKUP")
              /\ UNCHANGED fsmVars
              /\ WriteAndRaise({Outcome(t, "open")})
              /\ Go("validator", "dead")
              /\ UNCHANGED idleRef
        /\ UNCHANGED <<permitVars, stock, drift, accepting, queue, cached,
                       owed, session, cashVars>>

WindowOpenFails ==
    LET t == on["validator"]
    IN  /\ pc["validator"] = "open" /\ "open" \in Faults
        /\ FaultSale(t, "open")
        /\ window' \in {window, "open"}
        /\ UNCHANGED <<permitVars, stock, drift, accepting, queue, cached, owed, cashVars>>

-----------------------------------------------------------------------------
(* confirm_pickup.  The status is set before the state machine is asked.   *)

BeginConfirm(t) ==
    /\ pc["confirm"] = "rest"
    /\ Put(t, ConfirmPickup(tx[t]))
    /\ \/ /\ MayEnter(fsm, "CLOSING_DELIVERY_WINDOW")
          /\ Show("CLOSING_DELIVERY_WINDOW")
          /\ Write({Intent(t, "confirm_close")})
          /\ Start("confirm", t, "close")
       \/ /\ ~MayEnter(fsm, "CLOSING_DELIVERY_WINDOW")
          /\ UNCHANGED <<fsmVars, storeVars, pc, on>>
    /\ UNCHANGED <<permitVars, active, stock, drift, deviceVars, owed, kioskVars, cashVars>>

\* The pickup screen is shown until the timeout's event has replaced it.
TapPickup(t) ==
    /\ "pickup" \in Actors /\ session = t
    /\ tx[t].status = "waiting_for_customer_pickup"
    /\ pc["timeout"] # "close"
    /\ BeginConfirm(t)

\* The admin order list offers "done" for any sale.
OrderDone(t) == "orders" \in Actors /\ Born(t) /\ BeginConfirm(t)

PickupClosed ==
    LET t == on["confirm"]
    IN  /\ pc["confirm"] = "close"
        /\ window' = "closed"
        /\ Put(t, MarkWindowClosed(tx[t]))
        /\ \/ /\ MayEnter(fsm, "COMPLETED")
              /\ Show("IDLE")
              /\ Write({Outcome(t, "confirm_close")})
              /\ ClearActive(t)
              /\ session' = NoTx
              /\ Published
           \/ /\ ~MayEnter(fsm, "COMPLETED")
              /\ UNCHANGED <<fsmVars, active, kioskVars>>
              /\ WriteAndRaise({Outcome(t, "confirm_close")})
        /\ Go("confirm", "rest")
        /\ UNCHANGED <<permitVars, stock, drift, accepting, queue, cached, owed, cashVars>>

PickupCloseFails ==
    LET t == on["confirm"]
    IN  /\ pc["confirm"] = "close" /\ "close" \in Faults
        /\ Put(t, MarkFaulted(tx[t]))
        /\ Write({Outcome(t, "confirm_close")})
        /\ Go("confirm", "rest")
        /\ UNCHANGED <<fsmVars, permitVars, active, stock, drift, deviceVars, owed,
                       kioskVars, cashVars>>

=============================================================================
