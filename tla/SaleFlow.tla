------------------------------ MODULE SaleFlow ------------------------------
(***************************************************************************)
(* A cash sale from the buy button to the closed delivery window: every    *)
(* orchestrator of the application core interleaved on one event loop,     *)
(* with the validator, the customer, the technician and the supervisors.   *)
(***************************************************************************)
EXTENDS VendingController, IdleTimeout, PickupTimeout, Technician

CheckoutTask ==
    \/ SensorMismatch \/ RefusePurchase \/ CreatePurchase
    \/ StopFails \/ StartPayment \/ AcceptanceEnabled \/ AcceptanceNotEnabled

ValidatorTask ==
    \/ TakeEvent \/ CreditBill \/ ValidatorFault
    \/ BillNotEnough \/ BeginCompletion
    \/ CompletionDisabled \/ CompletionDisableFails
    \/ RequestChange \/ ChangeDispensed \/ ChangeFails \/ Repaid \/ RepayFails
    \/ AuthorizeSale \/ MotorDone \/ MotorFails \/ WindowOpens \/ WindowOpenFails

CancelTask(k) ==
    \/ CancelDisabled(k) \/ CancelDisableFails(k)
    \/ RequestRefund(k) \/ RefundDispensed(k) \/ RefundFails(k) \/ EndCancel(k)

ConfirmTask == PickupClosed \/ PickupCloseFails

TimeoutTask == TimeoutCloses \/ TimeoutClosed \/ TimeoutCloseFails

Supervisors == (\E t \in Tx : PickupExpires(t)) \/ IdleFires \/ IdleRelaxes

Customer ==
    \/ \E t \in Tx : TapBuy(t)
    \/ \E b \in Bills : InsertBill(b)
    \/ \E t \in Tx : TapPickup(t) \/ TapCancel(t)
    \/ TapScreen

Operators ==
    \/ \E t \in Tx : OrderDone(t) \/ OrderCancel(t) \/ BeginRecovery(t)
    \/ EnterServiceMode \/ ExitServiceMode \/ RefreshStatus \/ ClearDrift
    \/ ClearRestricted

Environment == ValidatorBreaks \/ HealthBlocks \/ HealthUnblocks

Next ==
    \/ CheckoutTask \/ ValidatorTask
    \/ \E k \in Cancellers : CancelTask(k)
    \/ LeaveCancel \/ LeaveIdle
    \/ ConfirmTask \/ TimeoutTask \/ EndRecovery
    \/ Supervisors \/ Customer \/ Operators \/ Environment

Spec == Init /\ [][Next]_vars

(***************************************************************************)
(* Fairness.  Every await of a task ends: devices answer or their commands *)
(* time out, and published events are delivered.  The supervisors poll     *)
(* forever.  Nothing is assumed of customers, operators or faults.         *)
(***************************************************************************)
Fairness ==
    /\ WF_vars(CheckoutTask) /\ WF_vars(ValidatorTask)
    /\ \A k \in Cancellers : WF_vars(CancelTask(k))
    /\ WF_vars(LeaveCancel) /\ WF_vars(LeaveIdle)
    /\ WF_vars(ConfirmTask) /\ WF_vars(TimeoutTask) /\ WF_vars(EndRecovery)
    /\ WF_vars(\E t \in Tx : PickupExpires(t)) /\ WF_vars(IdleFires)

FairSpec == Spec /\ Fairness

=============================================================================
