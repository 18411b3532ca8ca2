--------------------------- MODULE SaleRefinement ---------------------------
(***************************************************************************)
(* The interleaved orchestrators of SaleFlow keep the contract of          *)
(* SaleContract, as long as nobody cancels.                                *)
(***************************************************************************)
EXTENDS SaleProperties

\* The phase of a sale, read off its transaction.
PhaseOf(r, released) ==
    CASE Flagged(r)                          -> "held"
      [] r.session = "none" /\ ~Flagged(r)   -> "new"
      [] OTHER -> IF r.status = "completed" THEN "over"
                  ELSE IF released > 0 THEN "handing" ELSE "taking"

Phase(t) == PhaseOf(tx[t], vended[t])

Contract == INSTANCE SaleContract WITH
    Purchase <- Tx, Cost <- Price,
    phase <- [t \in Tx |-> Phase(t)], cash <- [t \in Tx |-> inserted[t]],
    back <- paid, goods <- vended

\* Every step of every task is a step of the contract or none: at most one unfinished
\* purchase at a time, one product for each, released after its change and for exactly
\* its price, never more money out than in, and whatever goes wrong is held for an
\* operator and keeps the machine from its next sale (complete_payment,
\* handle_vend_authorized, confirm_pickup, create_transaction, sales_allowed).
MeetsContract == Contract!ContractSpec

-----------------------------------------------------------------------------
(* The inductive invariant behind MeetsContract.                           *)

\* Nobody cancels, services the machine or outruns the counting of a bill.
Undisturbed == Actors \subseteq {"pickup", "health", "timeout"}

\* The dispenser pays the change whole or not at all, and says so.
WholeChange == Faults \cap {"change_partial", "change_error"} = {}

\* The machine is stopped in a state that only an operator leaves ...
Halted == fsm \in {"FAULT", "RECOVERY_PENDING", "MANUAL_REVIEW"} /\ shown = fsm

\* ... or a blocker that only an operator takes away forbids sales.
Locked ==
    Halted \/ blockers \cap {"validator_fault", "delivery_window_fault", "recovery_pending"} # {}

NobodyCancels == pc["cancel"] = "rest" /\ pc["idle"] = "rest" /\ pc["recover"] = "rest"

Delivered == { "opening_delivery_window", "waiting_for_customer_pickup",
               "closing_delivery_window", "pickup_timed_out", "completed" }

\* What the record of a sale says of it.
RecordTells(t) ==
    LET r == tx[t]
    IN  /\ ~Born(t) => r = UnbornTransaction
        /\ ~r.cancelled /\ r.status # "cancelled" /\ r.session # "cancelled"
        /\ Flagged(r) => r.recovery # "none"
        /\ r.status = "pickup_timed_out" => r.recovery # "none"
        /\ r.session # "completed" => vended[t] = 0 /\ paid[t] = 0 /\ t \notin cached
        /\ r.session = "accepting" /\ ~Flagged(r) => r.status = "accepting_cash"
        /\ r.session = "completed" => CanConfirm(r)
        /\ r.status \in Delivered => r.session = "completed" /\ vended[t] > 0

\* An unfinished sale is the active one, and a flagged one keeps its place,
\* unless the machine is locked; one flagged while it collects cash stops
\* the machine, or has ended the validator task.
Unfinished(t) == Phase(t) \notin {"new", "over"}

PlaceKept(t) ==
    LET r == tx[t]
    IN  /\ Unfinished(t) => Locked \/ active = t
        /\ Flagged(r) =>
               Locked \/ (r.session = "completed" /\ r.status \in {"faulted", "ambiguous"})
        /\ Flagged(r) /\ r.session = "accepting" => Halted \/ pc["validator"] = "dead"

SalesTell ==
    \A t \in Tx :
        RecordTells(t) /\ PlaceKept(t) /\ paid[t] + Price * vended[t] <= inserted[t]

\* A bill waits to be credited.
BillWaits == queue # << >> /\ Head(queue).kind = "stacked"

CheckoutAt ==
    LET t == on["checkout"]
    IN  /\ pc["checkout"] = "sensor" => ~Born(t)
        /\ pc["checkout"] = "stop" => active = t /\ Born(t) /\ tx[t].session = "none"
        /\ pc["checkout"] = "enable" =>
               /\ active = t /\ tx[t].session = "accepting" /\ ~accepting
               /\ fsm = "ACCEPTING_CASH" \/ Halted
               /\ ~BillWaits /\ pc["validator"] # "credited"

ValidatorAt ==
    LET t == on["validator"]
        at == pc["validator"]
    IN  /\ at = "credited" => active = t /\ tx[t].session = "accepting"
        /\ Completing => active = t /\ tx[t].session = "completed"
        /\ at \in {"disable", "payout", "change", "repay"} => paid[t] = 0
        /\ at = "repay" => vended[t] = 0
        /\ at = "disable" => t \notin cached /\ (Flagged(tx[t]) => Halted)
        /\ at \in {"payout", "change"} => tx[t].due > 0 /\ tx[t].reserve
        /\ at \in {"paid", "motor"} => paid[t] = tx[t].due
        /\ at \in {"payout", "change", "paid", "motor", "open"} => ~Flagged(tx[t])
        /\ at = "motor" => fsm = "DISPENSING_PRODUCT" \/ Halted
        /\ at = "open" => /\ tx[t].status = "opening_delivery_window"
                          /\ fsm = "OPENING_DELIVERY_WINDOW" \/ Halted

\* A sale is handed over when the validator task has let go of it.
HandedOver(t) ==
    /\ tx[t].session = "completed" /\ vended[t] > 0
    /\ ~(Completing /\ on["validator"] = t)

ClosersAt ==
    /\ pc["confirm"] = "close" =>
           LET t == on["confirm"]
           IN  /\ HandedOver(t)
               /\ Locked \/ (active = t /\ tx[t].status = "closing_delivery_window")
    /\ pc["timeout"] \in {"elapsed", "close"} => HandedOver(on["timeout"])

\* It was inserted for the sale in progress.
BillsAreOurs ==
    BillWaits =>
        /\ active \in Tx /\ tx[active].session = "accepting"
        /\ pc["validator"] = "event" => on["validator"] = active

CashCounted ==
    \A t \in Tx :
        inserted[t] = tx[t].accepted + IF BillWaits /\ active = t THEN Head(queue).bill ELSE 0

\* The validator takes bills for a sale that collects cash, or for one whose
\* payment could not be closed.
AcceptingFor ==
    accepting =>
        /\ active \in Tx
        /\ \/ tx[active].session = "accepting"
           \/ pc["validator"] = "disable"
           \/ Flagged(tx[active]) /\ vended[active] = 0 /\ pc["validator"] = "dead"

WindowFor ==
    window = "open" =>
        Locked \/ (active \in Tx /\ vended[active] > 0 /\ tx[active].status # "completed")

\* The active sale, and the one an event found active, have been created.
BornFirst ==
    /\ active \in Tx => Born(active)
    /\ pc["validator"] = "event" /\ on["validator"] \in Tx => Born(on["validator"])

\* What every step keeps while nobody disturbs the sales; with SaleInvariant
\* and OnceInvariant it implies that each step is one of the contract.
ContractInvariant ==
    /\ BornFirst /\ NobodyCancels /\ SalesTell
    /\ CheckoutAt /\ ValidatorAt /\ ClosersAt
    /\ BillsAreOurs /\ CashCounted /\ AcceptingFor /\ WindowFor

-----------------------------------------------------------------------------
(* The inductive invariant behind MoneyAccounted, IntentsResolved and      *)
(* NoSaleOverUnsettled, when every customer collects in time besides.      *)

PromptPickup == "timeout" \notin Actors

ValidatorDead == pc["validator"] = "dead"

\* A dead validator task leaves the machine locked, or stuck with a sale whose
\* slot was empty when the motor had turned.
DeadStops ==
    ValidatorDead =>
        \/ Locked
        \/ /\ active \in Tx
           /\ tx[active].status = "dispensing_product" /\ tx[active].session = "completed"

\* While the validator task lives, an unfinished sale is the active one, and a
\* flagged one is marked as such unless its payment is just being confirmed.
InPlace ==
    \A t \in Tx :
        /\ Unfinished(t) => active = t
        /\ Flagged(tx[t]) => \/ tx[t].status \in {"faulted", "ambiguous"}
                             \/ pc["validator"] = "disable" /\ on["validator"] = t

\* The state machine and the record of the sale are where the task that has the
\* sale in hand needs them, so that nothing it calls refuses.
NothingRefuses ==
    LET at == pc["validator"]
        r  == tx[on["validator"]]
    IN  /\ pc["checkout"] = "stop" => fsm = "WAITING_FOR_PAYMENT"
        /\ active \in Tx /\ tx[active].session = "accepting" /\ ~Flagged(tx[active])
              => fsm = "ACCEPTING_CASH"
        /\ at = "disable" =>
              r.payment = "confirmed" /\ (Flagged(r) \/ fsm = "ACCEPTING_CASH")
        /\ at \in {"payout", "change"} => r.payment = "confirmed" /\ fsm = "DISPENSING_CHANGE"
        /\ at = "paid" => CanAuthorize(r) /\ fsm \in {"PAYMENT_ACCEPTED", "DISPENSING_CHANGE"}
        /\ at = "motor" => r.status = "dispensing_product" /\ fsm = "DISPENSING_PRODUCT"
        /\ at = "open" => fsm = "OPENING_DELIVERY_WINDOW"
        /\ pc["confirm"] = "close" =>
              /\ fsm = "CLOSING_DELIVERY_WINDOW"
              /\ active = on["confirm"] /\ tx[active].status = "closing_delivery_window"

\* The validator task is still at work on the sale's money.
InSettlement(t) ==
    /\ on["validator"] = t
    /\ pc["validator"] \in {"disable", "payout", "change", "repay", "paid", "motor"}

\* What a sale kept of its cash is the price of what it released; a refund is
\* answered once.
BookBalances(t) ==
    /\ tx[t].session = "completed" /\ ~Flagged(tx[t]) /\ ~InSettlement(t) =>
           tx[t].accepted = paid[t] + Price * vended[t]
    /\ answers[t]["refund"] # "none" => tx[t].session = "completed" /\ ~InSettlement(t)

BooksBalance == \A t \in Tx : BookBalances(t)

\* Some task awaits the outcome of the step.
Awaited(t, step) ==
    \/ step = "enable" /\ pc["checkout"] = "enable" /\ on["checkout"] = t
    \/ step = "confirm_close" /\ pc["confirm"] = "close" /\ on["confirm"] = t
    \/ step \in {"disable", "motor", "open"} /\ pc["validator"] = step /\ on["validator"] = t
    \/ step = "change" /\ pc["validator"] \in {"payout", "change"} /\ on["validator"] = t

OutcomesFollow ==
    \A t \in Tx, step \in Steps :
        Intent(t, step) \in journal => Outcome(t, step) \in journal \/ Awaited(t, step)

SettledInvariant ==
    /\ pc["timeout"] = "rest" /\ DeadStops /\ BooksBalance
    /\ ValidatorDead \/ (InPlace /\ NothingRefuses /\ OutcomesFollow)

=============================================================================
