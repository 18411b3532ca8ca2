------------------------- MODULE PaymentCoordinator -------------------------
(***************************************************************************)
(* app/orchestrators/payment_coordinator.py: the cash session, the bills   *)
(* the validator reports, the completion of a payment with its change, and *)
(* the cancellation of a purchase with its refund.                         *)
(*                                                                         *)
(* Whether the change manager finds a plan, and what the dispenser does    *)
(* with it, are nondeterministic within Faults.                            *)
(***************************************************************************)
EXTENDS SaleState

(* start_cash_session, in the checkout task after stop_motion and the      *)
(* purchase_started event.  A sale whose session cannot start stays active.*)

StopFails ==
    /\ pc["checkout"] = "stop" /\ "stop" \in Faults
    /\ Go("checkout", "rest")
    /\ UNCHANGED <<fsmVars, permitVars, saleVars, deviceVars, owed, kioskVars,
                   storeVars, cashVars>>

StartPayment ==
    LET t == on["checkout"]
    IN  /\ pc["checkout"] = "stop"
        /\ \/ /\ ~SalesAllowed \/ drift \/ "no_plan" \in Faults
              /\ Go("checkout", "rest")
              /\ UNCHANGED <<fsmVars, tx, storeVars>>
           \/ /\ SalesAllowed /\ ~drift
              /\ \E reserved \in BOOLEAN : Put(t, StartCashSession(tx[t], reserved))
              /\ IF MayEnter(fsm, "ACCEPTING_CASH")
                 THEN /\ Show("ACCEPTING_CASH")
                      /\ Write({Intent(t, "enable")})
                      /\ Go("checkout", "enable")
                 ELSE /\ Go("checkout", "rest")
                      /\ UNCHANGED <<fsmVars, storeVars>>
        /\ UNCHANGED <<permitVars, active, stock, drift, deviceVars, owed, session, cashVars>>
        /\ Published

AcceptanceEnabled ==
    LET t == on["checkout"]
    IN  /\ pc["checkout"] = "enable"
        /\ accepting' = TRUE
        /\ Write({Outcome(t, "enable")})
        /\ session' = t                    \* the kiosk learns the sale's identity
        /\ Go("checkout", "rest")
        /\ UNCHANGED <<fsmVars, permitVars, saleVars, queue, cached, window, owed, cashVars>>
        /\ Published

\* A command that failed may have taken effect.
AcceptanceNotEnabled ==
    LET t == on["checkout"]
    IN  /\ pc["checkout"] = "enable" /\ "enable" \in Faults
        /\ accepting' \in {accepting, TRUE}
        /\ Put(t, MarkFaulted(tx[t]))
        /\ blockers' = blockers \cup {"validator_fault"}
        /\ IF MayEnter(fsm, "FAULT")
           THEN Show("FAULT") /\ Write({Outcome(t, "enable")})
           ELSE UNCHANGED <<fsmVars, storeVars>>
        /\ Go("checkout", "rest")
        /\ UNCHANGED <<service, active, stock, drift, queue, cached, window, owed,
                       kioskVars, cashVars>>

-----------------------------------------------------------------------------
(* The validator, and process_validator_event in the validator task.       *)
(* Events that carry no cash and no fault only wake the kiosk up, which    *)
(* TapScreen of IdleTimeout allows at any time.                            *)

CountedUp == queue = << >> /\ pc["validator"] = "rest"

InsertBill(b) ==
    /\ accepting /\ Len(queue) < QueueCap
    /\ inserted[active] + b <= MaxCash
    /\ \/ "hasty" \in Actors
       \/ CountedUp /\ active # NoTx /\ ~CanConfirm(tx[active])
    /\ queue' = Append(queue, [kind |-> "stacked", bill |-> b])
    /\ inserted' = [inserted EXCEPT ![active] = @ + b]
    /\ UNCHANGED <<fsmVars, permitVars, saleVars, accepting, cached, window,
                   taskVars, kioskVars, storeVars, answers, paid, vended>>

ValidatorBreaks ==
    /\ "validator" \in Faults /\ Len(queue) < QueueCap
    /\ queue' = Append(queue, [kind |-> "fault", bill |-> 0])
    /\ accepting' = FALSE
    /\ UNCHANGED <<fsmVars, permitVars, saleVars, cached, window, taskVars,
                   kioskVars, storeVars, cashVars>>

\* The sale an event belongs to is read before the event is published.
TakeEvent ==
    /\ pc["validator"] = "rest" /\ queue # << >>
    /\ Start("validator", active, "event")
    /\ UNCHANGED <<fsmVars, permitVars, saleVars, deviceVars, owed, session,
                   storeVars, cashVars>>
    /\ Published

CreditBill ==
    LET t == on["validator"]
        e == Head(queue)
    IN  /\ pc["validator"] = "event"
        /\ e.kind = "stacked"
        /\ queue' = Tail(queue)
        /\ \/ /\ t # NoTx => tx[t].cancelled
              /\ Go("validator", "rest")
              /\ UNCHANGED <<saleVars, idleRef>>
           \/ /\ t # NoTx /\ ~tx[t].cancelled /\ ~CanStack(tx[t])
              /\ Go("validator", "dead")
              /\ UNCHANGED <<saleVars, idleRef>>
           \/ /\ t # NoTx /\ CanStack(tx[t])
              /\ Put(t, RecordStackedCash(tx[t], e.bill))
              /\ Go("validator", "credited")
              /\ UNCHANGED <<active, stock, drift>>
              /\ Published
        /\ UNCHANGED <<fsmVars, permitVars, accepting, cached, window, owed, session,
                       storeVars, cashVars>>

ValidatorFault ==
    LET t == on["validator"]
    IN  /\ pc["validator"] = "event"
        /\ Head(queue).kind = "fault"
        /\ queue' = Tail(queue)
        /\ \/ /\ t # NoTx => tx[t].cancelled
              /\ Go("validator", "rest")
              /\ UNCHANGED <<fsmVars, blockers, tx>>
           \/ /\ t # NoTx /\ ~tx[t].cancelled
              /\ Put(t, MarkFaulted(tx[t]))
              /\ blockers' = blockers \cup {"validator_fault"}
              /\ IF MayEnter(fsm, "FAULT") THEN Show("FAULT") ELSE UNCHANGED fsmVars
              /\ Go("validator", "dead")
        /\ UNCHANGED <<service, active, stock, drift, accepting, cached, window, owed,
                       kioskVars, storeVars, cashVars>>

-----------------------------------------------------------------------------
(* complete_payment, continued in the validator task.                      *)

BillNotEnough ==
    /\ pc["validator"] = "credited" /\ ~CanConfirm(tx[on["validator"]])
    /\ Go("validator", "rest")
    /\ UNCHANGED <<fsmVars, permitVars, saleVars, deviceVars, owed, kioskVars,
                   storeVars, cashVars>>

BeginCompletion ==
    LET t == on["validator"]
    IN  /\ pc["validator"] = "credited" /\ CanConfirm(tx[t])
        /\ Put(t, ConfirmPayment(tx[t]))
        /\ Write({Intent(t, "disable")})
        /\ Go("validator", "disable")
        /\ UNCHANGED <<fsmVars, permitVars, active, stock, drift, deviceVars, owed,
                       kioskVars, cashVars>>

(* disable_acceptance with a correlation id that succeeded before is       *)
(* answered from the replay cache, without touching the device.            *)

\* Mutant: the replay cache looks at the command and not at its correlation id.
ReplayAnyDisable(id) ==
    /\ accepting' = IF cached # {} THEN accepting ELSE FALSE
    /\ cached' = cached \cup {id}

DisableWithId(id) ==
    /\ accepting' = IF id \in cached THEN accepting ELSE FALSE
    /\ cached' = cached \cup {id}

\* _enter_recovery_pending: by transition or by force, the same state.
DisableFails(k, step) ==
    LET t == on[k]
    IN  /\ "disable" \in Faults
        /\ accepting' \in {accepting, FALSE}
        /\ Put(t, MarkAmbiguous(tx[t]))
        /\ Show("RECOVERY_PENDING")

CompletionDisableFails ==
    /\ pc["validator"] = "disable"
    /\ DisableFails("validator", "disable")
    /\ Write({Outcome(on["validator"], "disable")})
    /\ Go("validator", "dead")
    /\ UNCHANGED <<permitVars, active, stock, drift, queue, cached, window, owed,
                   kioskVars, cashVars>>

\* finalize_reserve follows without suspending.  Exact money goes straight
\* to payment_confirmed; change is planned, announced and then dispensed.
CompletionDisabled ==
    LET t == on["validator"]
        r == tx[t]
    IN  /\ pc["validator"] = "disable"
        /\ DisableWithId(t)
        /\ \/ /\ ~MayEnter(fsm, "PAYMENT_ACCEPTED")
              /\ WriteAndRaise({Outcome(t, "disable")})
              /\ Go("validator", "dead")
              /\ UNCHANGED <<fsmVars, tx, idleRef>>
           \/ /\ MayEnter(fsm, "PAYMENT_ACCEPTED") /\ r.due = 0
              /\ Show("PAYMENT_ACCEPTED")
              /\ Put(t, ReleaseReserve(r))
              /\ Write({Outcome(t, "disable")})
              /\ Go("validator", "paid")
              /\ UNCHANGED idleRef
           \/ /\ MayEnter(fsm, "PAYMENT_ACCEPTED") /\ r.due > 0
              /\ Show("DISPENSING_CHANGE")
              /\ Put(t, MarkChangePending(r))
              /\ Write({Outcome(t, "disable"), Intent(t, "change")})
              /\ Go("validator", "payout")
              /\ idleRef' = active
           \/ /\ MayEnter(fsm, "PAYMENT_ACCEPTED") /\ r.due > 0 /\ "no_plan" \in Faults
              /\ Show("PAYMENT_ACCEPTED")
              /\ Put(t, ReleaseReserve(r))
              /\ Write({Outcome(t, "disable")})
              /\ Go("validator", "repay")
              /\ UNCHANGED idleRef
        /\ UNCHANGED <<permitVars, active, stock, drift, queue, window, owed, session,
                       cashVars>>

\* prepare_payout_request needs the reserve, which a cancellation may have
\* taken away while change_dispense_requested was being published.
RequestChange ==
    LET t == on["validator"]
    IN  /\ pc["validator"] = "payout"
        /\ \/ tx[t].reserve /\ Go("validator", "change") /\ UNCHANGED storeVars
           \/ ~tx[t].reserve /\ Go("validator", "repay") /\ Write({Outcome(t, "change")})
        /\ UNCHANGED <<fsmVars, permitVars, saleVars, deviceVars, owed, kioskVars, cashVars>>

PayBack(t, amount) == paid' = [paid EXCEPT ![t] = @ + amount]

(* The dispenser answers a request id that it has answered before with the *)
(* same result, and moves nothing.  Only a command that raised leaves no   *)
(* answer behind.                                                          *)

Dispense(t, request, amounts, answer) ==
    \/ /\ answers[t][request] = "none"
       /\ answers' = [answers EXCEPT ![t][request] = answer]
       /\ \E amount \in amounts : PayBack(t, amount)
    \/ /\ answers[t][request] = answer
       /\ UNCHANGED <<answers, paid>>

DispenseRaises(t, request, amounts) ==
    /\ answers[t][request] = "none" /\ answers' = answers
    /\ \E amount \in amounts : PayBack(t, amount)

ChangeDispensed ==
    LET t == on["validator"]
    IN  /\ pc["validator"] = "change"
        /\ Dispense(t, "change", {tx[t].due}, "dispensed")
        /\ \/ /\ tx[t].reserve
              /\ Put(t, MarkChangeDispensed(tx[t]))
              /\ Go("validator", "paid")
              /\ idleRef' = active
           \/ /\ ~tx[t].reserve
              /\ Go("validator", "repay")
              /\ UNCHANGED <<tx, idleRef>>
        /\ Write({Outcome(t, "change")})
        /\ UNCHANGED <<fsmVars, permitVars, active, stock, drift, deviceVars, owed,
                       session, inserted, vended>>

\* A partial payout, a refused or ambiguous one, or an adapter that raised
\* after an unknown amount had left the machine.
ChangeFails ==
    LET t == on["validator"]
    IN  /\ pc["validator"] = "change"
        /\ \/ /\ "change_partial" \in Faults
              /\ Dispense(t, "change", 1 .. (tx[t].due - 1), "partial")
              /\ Put(t, MarkChangePartial(tx[t])) /\ drift' = TRUE
           \/ /\ "change" \in Faults
              /\ Dispense(t, "change", {0}, "failed")
              /\ Put(t, MarkAmbiguous(tx[t])) /\ drift' = TRUE
           \/ /\ "change_error" \in Faults
              /\ \/ /\ Dispense(t, "change", 0 .. tx[t].due, "failed")
                    /\ Put(t, MarkAmbiguous(tx[t])) /\ drift' = TRUE
                 \/ /\ DispenseRaises(t, "change", 0 .. tx[t].due)
                    /\ UNCHANGED <<tx, drift>>
        /\ Write({Outcome(t, "change")})
        /\ Go("validator", "repay")
        /\ UNCHANGED <<fsmVars, permitVars, active, stock, deviceVars, owed, kioskVars,
                       inserted, vended>>

(* The change could not be given: the whole accepted amount is refunded,   *)
(* without an intent, and the sale is not vended.                          *)

Repaid ==
    LET t == on["validator"]
    IN  /\ pc["validator"] = "repay"
        /\ Dispense(t, "refund", {tx[t].accepted}, "dispensed")
        /\ Go("validator", "rest")
        /\ UNCHANGED <<fsmVars, permitVars, saleVars, deviceVars, owed, session,
                       storeVars, inserted, vended>>
        /\ Published

\* There is no plan for the amount, the dispenser answers that it paid less,
\* or it raises.
RefundNotPaid(t, amount) ==
    \/ /\ "no_plan" \in Faults
       /\ UNCHANGED <<answers, paid, drift>>
    \/ /\ "refund" \in Faults
       /\ Dispense(t, "refund", 0 .. (amount - 1), "failed")
       /\ drift' = TRUE
    \/ /\ "refund" \in Faults
       /\ DispenseRaises(t, "refund", 0 .. amount)
       /\ drift' = drift

RepayFails ==
    LET t == on["validator"]
    IN  /\ pc["validator"] = "repay"
        /\ RefundNotPaid(t, tx[t].accepted)
        /\ Put(t, MarkAmbiguous(tx[t]))
        /\ Show("MANUAL_REVIEW")
        /\ Go("validator", "dead")
        /\ UNCHANGED <<permitVars, active, stock, deviceVars, owed, session,
                       storeVars, inserted, vended>>
        /\ Published

-----------------------------------------------------------------------------
(* cancel_purchase, run by the kiosk's CancelPurchase ("cancel") inside a  *)
(* database transaction that spans its awaits, and by the idle supervisor  *)
(* ("idle") without one.                                                   *)

BeginCancel(k, t) ==
    /\ pc[k] = "rest"
    /\ paid[t] <= MaxCash                  \* bound: a refund is repeated a few times
    /\ journal' = journal \cup {Intent(t, "cancel_disable")}
    /\ IF k = "cancel" THEN before' = journal /\ txnOpen' = TRUE
                       ELSE UNCHANGED <<before, txnOpen>>
    /\ Start(k, t, "disable")
    /\ UNCHANGED <<fsmVars, permitVars, saleVars, deviceVars, owed, kioskVars, cashVars>>

\* The presenter cancels the current purchase from the payment screen, from
\* every way back home, on leaving service mode, and when nobody has touched
\* the screen for a minute, whatever the sale is doing.  One such
\* cancellation at a time (a bound of the model).
TapCancel(t) == "canceller" \in Actors /\ session = t /\ BeginCancel("cancel", t)

\* The admin order list offers "cancel" for any sale.
OrderCancel(t) == "orders" \in Actors /\ Born(t) /\ BeginCancel("cancel", t)

\* The coroutine raises; the kiosk's transaction rolls back whatever it joined.
GiveUp(k, records) ==
    /\ Go(k, "rest")
    /\ IF k = "cancel"
       THEN journal' = before /\ before' = {} /\ txnOpen' = FALSE
       ELSE Write(records)

CancelDisableFails(k) ==
    /\ pc[k] = "disable"
    /\ DisableFails(k, "cancel_disable")
    /\ GiveUp(k, {Outcome(on[k], "cancel_disable")})
    /\ UNCHANGED <<permitVars, active, stock, drift, queue, cached, window, owed,
                   kioskVars, cashVars>>

\* The last block of cancel_purchase: the status first, then the state machine.
EndSale(k, records) ==
    LET t == on[k]
    IN  /\ Put(t, Cancel(ReleaseReserve(tx[t])))
        /\ IF MayEnter(fsm, "CANCELLED")
           THEN /\ Show("CANCELLED")
                /\ ClearActive(t)
                /\ Write(records)
                /\ session' = NoTx
                /\ Go(k, "leave")
                /\ Published
           ELSE /\ UNCHANGED <<fsmVars, active, kioskVars>>
                /\ GiveUp(k, records)

\* Cash on a payment that is not confirmed is refunded first.
NeedsRefund(r) == r.payment # "confirmed" /\ r.accepted > 0

CancelDisabled(k) ==
    LET t == on[k]
    IN  /\ pc[k] = "disable"
        /\ IF k = "idle" THEN DisableWithId(NoTx)
                         ELSE accepting' = FALSE /\ cached' = cached
        /\ IF NeedsRefund(tx[t])
           THEN /\ Put(t, ReleaseReserve(tx[t]))
                /\ IF CanTransition(fsm, "REFUND") THEN Show("REFUND") ELSE UNCHANGED fsmVars
                /\ Write({Outcome(t, "cancel_disable")})
                /\ Go(k, "announce")
                /\ UNCHANGED <<active, session>>
                /\ Published
           ELSE EndSale(k, {Outcome(t, "cancel_disable")})
        /\ UNCHANGED <<permitVars, stock, drift, queue, window, owed, cashVars>>

RequestRefund(k) ==
    LET t == on[k]
    IN  /\ pc[k] = "announce"
        /\ owed' = [owed EXCEPT ![k] = tx[t].accepted]
        /\ Write({Intent(t, "refund")})
        /\ Go(k, "refund")
        /\ UNCHANGED <<fsmVars, permitVars, saleVars, deviceVars, kioskVars, cashVars>>

RefundDispensed(k) ==
    LET t == on[k]
    IN  /\ pc[k] = "refund"
        /\ Dispense(t, "refund", {owed[k]}, "dispensed")
        /\ IF fsm = "REFUND" THEN Show("CANCELLED") ELSE UNCHANGED fsmVars
        /\ Write({Outcome(t, "refund")})
        /\ Go(k, "refunded")
        /\ owed' = [owed EXCEPT ![k] = 0]
        /\ UNCHANGED <<permitVars, saleVars, deviceVars, session, inserted, vended>>
        /\ Published

RefundFails(k) ==
    LET t == on[k]
    IN  /\ pc[k] = "refund"
        /\ RefundNotPaid(t, owed[k])
        /\ Put(t, MarkAmbiguous(tx[t]))
        /\ Show("MANUAL_REVIEW")
        /\ GiveUp(k, {Outcome(t, "refund")})
        /\ owed' = [owed EXCEPT ![k] = 0]
        /\ UNCHANGED <<permitVars, active, stock, deviceVars, session, inserted, vended>>
        /\ Published

EndCancel(k) ==
    /\ pc[k] = "refunded"
    /\ EndSale(k, {})
    /\ UNCHANGED <<permitVars, stock, drift, deviceVars, owed, cashVars>>

\* The kiosk's caller forces the machine to IDLE and commits.
LeaveCancel ==
    LET t == on["cancel"]
    IN  /\ pc["cancel"] = "leave"
        /\ Show("IDLE")
        /\ ClearActive(t)
        /\ before' = {} /\ txnOpen' = FALSE
        /\ Go("cancel", "rest")
        /\ UNCHANGED <<permitVars, tx, stock, drift, deviceVars, owed, kioskVars,
                       journal, cashVars>>

=============================================================================
