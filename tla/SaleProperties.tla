--------------------------- MODULE SaleProperties ---------------------------
(***************************************************************************)
(* What a cash sale must do and must never do.  Which of these hold        *)
(* depends on who else is at work: each run of MCSaleFlow names the actors *)
(* and the faults under which it checks them, and the runs that expect a   *)
(* violation show where the code breaks what its documents and tests say.  *)
(***************************************************************************)
EXTENDS SaleFlow

\* Nothing is in progress.  A dead validator task stays at rest forever.
AllAtRest == queue = << >> /\ \A k \in Tasks : AtRest(k)

\* Somebody will look at this sale: it is faulted, ambiguous or in recovery.
Flagged(r) == r.status \in {"faulted", "ambiguous"} \/ r.recovery # "none"

SessionStarts(t) == tx[t].session = "none" /\ tx'[t].session = "accepting"

Unsettled(t) ==
    \/ tx[t].status \in {"faulted", "ambiguous"}
    \/ \E step \in Steps : Intent(t, step) \in journal /\ Outcome(t, step) \notin journal

-----------------------------------------------------------------------------
(* Safety.                                                                 *)

\* No product leaves the machine before its price has been stacked, however
\* bills, cancellations, timeouts and technicians interleave with the sale
\* (complete_payment, authorize_vend, handle_vend_authorized).
PaidBeforeVend == \A t \in Tx : vended[t] > 0 => tx[t].accepted >= Price

\* The motor turns at most once for a sale, although late bills complete a
\* payment again (process_validator_event, handle_vend_authorized).
AtMostOneVend == \A t \in Tx : vended[t] <= 1

\* The motor turns only when all the change due has been paid out
\* (complete_payment, Transaction.authorize_vend).
ChangeSettledBeforeVend ==
    [][\A t \in Tx : vended'[t] > vended[t] => paid[t] >= tx[t].accepted - Price]_vars

\* A sale never costs the machine more than the customer put in: products
\* and payouts together stay within the cash inserted (change, refund after
\* failed change, refund of a cancelled sale).  The bench checklist asks for
\* the "correct liability" after a partial payout, which is where it fails.
NeverOverpays == \A t \in Tx : paid[t] + Price * vended[t] <= inserted[t]

\* When nothing is in progress, every coin of a sale that is over is
\* accounted for: it bought the product, was paid back, or the sale is
\* flagged for an operator.
MoneyAccounted ==
    AllAtRest => \A t \in Tx :
        \/ tx[t].session = "accepting" \/ Flagged(tx[t])
        \/ inserted[t] = paid[t] + Price * vended[t]

\* When nothing is in progress and no coroutine died, no journalled intent
\* lacks its outcome: a restart would have nothing to recover.
IntentsResolved ==
    AllAtRest /\ pc["validator"] = "rest" =>
        \A t \in Tx, step \in Steps :
            Intent(t, step) \in journal => Outcome(t, step) \in journal

\* The intent to turn the motor is on disk before the motor turns, so that a
\* restart finds it (README, section 5).
MotorIntentDurable ==
    [][\A t \in Tx : vended'[t] > vended[t] => Intent(t, "motor") \in Durable]_vars

\* When nothing is in progress the validator takes bills only for a sale
\* that collects cash, or for one already flagged.
AcceptsOnlyForSale ==
    AllAtRest /\ accepting =>
        active # NoTx /\ (tx[active].session = "accepting" \/ Flagged(tx[active]))

\* A new sale never starts taking cash while an earlier one is faulted,
\* ambiguous or has an unresolved intent (create_transaction locks the
\* terminal, MachineStatus forbids sales).
NoSaleOverUnsettled ==
    [][\A t, u \in Tx : SessionStarts(u) /\ t # u => ~Unsettled(t)]_vars

\* A new sale never starts taking cash while the delivery window of an
\* earlier one is open.
NoSaleWithOpenWindow == [][\A u \in Tx : SessionStarts(u) => window = "closed"]_vars

-----------------------------------------------------------------------------
(* Liveness.                                                               *)

\* A confirmed payment ends in a product, in a full refund, or in a flag.
PaidSaleSettles ==
    \A t \in Tx : tx[t].payment = "confirmed"
                    ~> vended[t] > 0 \/ paid[t] >= tx[t].accepted \/ Flagged(tx[t])

\* An opened delivery window is closed again, or its sale is flagged.
WindowCloses ==
    \A t \in Tx : window = "open" /\ active = t ~> window = "closed" \/ Flagged(tx[t])

\* A sale whose customer has walked away before paying does not keep the
\* machine: the idle supervisor ends it.
AbandonedSaleEnds ==
    \A t \in Tx : active = t /\ Cancelable(tx[t]) ~> active # t \/ ~Cancelable(tx[t])

-----------------------------------------------------------------------------
(* What documents and tests of the repository say, and the code does not   *)
(* always do.                                                              *)

\* test_payment_cancelled_after_cash_refunds_before_cancel: the cash of a
\* cancelled sale is refunded.
CancelledCashRefunded ==
    AllAtRest => \A t \in Tx :
        tx[t].status = "cancelled" => paid[t] + Price * vended[t] = tx[t].accepted

\* test_confirm_pickup_cancels_timeout: once the pickup has been confirmed
\* and the sale completed, no timeout touches it.
CompletedIsFinal ==
    [][\A t \in Tx : tx[t].status = "completed" => tx'[t].status = "completed"]_vars

\* test_payment_cancelled_returns_machine_to_idle.
CancelledMachineIsIdle ==
    AllAtRest => \A t \in Tx :
        tx[t].status = "cancelled" /\ active = NoTx => fsm = "IDLE"

-----------------------------------------------------------------------------
(* The inductive invariant behind PaidBeforeVend.                          *)

\* A task at work works for a sale, except that a validator event may have
\* found no active one.
TasksHaveSales ==
    \A k \in Tasks :
        AtRest(k) \/ on[k] \in Tx \/ (k = "validator" /\ pc[k] = "event")

\* The event being processed is still at the head of the queue.
EventInQueue == pc["validator"] = "event" => queue # << >>

\* A sale that is not created yet has no session, also while its inventory
\* check is awaited and whatever others do to it; and no session, no cash.
FreshSales ==
    \A t \in Tx :
        /\ ~Born(t) => tx[t].session = "none"
        /\ pc["checkout"] = "sensor" /\ on["checkout"] = t => tx[t].session = "none"
        /\ tx[t].session = "none" => tx[t].accepted = 0

\* The validator task is past the threshold.
Completing ==
    pc["validator"] \in {"disable", "payout", "change", "repay", "paid", "motor", "open"}

CompletingPaid == Completing => tx[on["validator"]].accepted >= Price

\* What every step of every task keeps while complete_payment and
\* handle_vend_authorized await their devices; it implies PaidBeforeVend.
SaleInvariant ==
    /\ TypeOK
    /\ TasksHaveSales
    /\ EventInQueue
    /\ FreshSales
    /\ CompletingPaid
    /\ PaidBeforeVend

-----------------------------------------------------------------------------
(* The inductive invariant behind AtMostOneVend and                        *)
(* ChangeSettledBeforeVend when customers insert a bill only after the     *)
(* last one has been counted.                                              *)

UnhurriedCustomers == "hasty" \notin Actors

StillOwes(t) == t # NoTx => ~CanConfirm(tx[t])

HoldsNoBill(events) == \A i \in 1 .. Len(events) : events[i].kind # "stacked"

\* At most one bill waits to be credited, and whichever sale it will be
\* credited to has not been paid yet.
BillsOneByOne ==
    queue # << >> =>
        /\ HoldsNoBill(Tail(queue))
        /\ Head(queue).kind = "stacked" =>
               /\ Price > 0
               /\ \/ pc["validator"] = "rest"  /\ StillOwes(active)
                  \/ pc["validator"] = "event" /\ StillOwes(on["validator"])

\* The sale in the hands of the validator task has not been released before,
\* nor has change been dispensed for it.
CompletesOnce ==
    LET t == on["validator"]
    IN  /\ \A u \in Tx : answers[u]["change"] # "none" => CanConfirm(tx[u])
        /\ pc["validator"] \in {"credited", "disable", "payout", "change", "paid", "motor"}
              => vended[t] = 0
        /\ pc["validator"] \in {"credited", "disable", "payout", "change"}
              => answers[t]["change"] = "none"

\* The change due is what was counted above the price, and it has left the
\* machine when the motor is asked.
ChangeIsDue ==
    LET t == on["validator"]
    IN  /\ pc["validator"] \in {"credited", "disable", "payout", "change", "paid", "motor"}
              => tx[t].session # "none"
        /\ pc["validator"] \in {"disable", "payout", "change", "paid", "motor"}
              => tx[t].due = tx[t].accepted - Price
        /\ pc["validator"] \in {"paid", "motor"} => paid[t] >= tx[t].due

OnceInvariant == BillsOneByOne /\ CompletesOnce /\ ChangeIsDue /\ AtMostOneVend

-----------------------------------------------------------------------------
(* The inductive invariant behind MotorIntentDurable when nobody cancels   *)
(* from the kiosk, whose cancellation alone holds a database transaction   *)
(* open across its awaits.                                                 *)

NoKioskCancellation == Actors \cap {"canceller", "orders"} = {}

JournalCommits ==
    /\ pc["cancel"] = "rest" /\ ~txnOpen
    /\ pc["validator"] = "motor" => Intent(on["validator"], "motor") \in journal

=============================================================================
