---------------------------- MODULE ChangeManager ---------------------------
(***************************************************************************)
(* Change by denomination: payments/change_manager.py over the accounting  *)
(* of domain/entities/money_inventory.py, with the simulated dispenser.    *)
(* SaleFlow only asks whether a change plan exists; here the plan, the     *)
(* reserve and the counts are those of the code.                           *)
(*                                                                         *)
(* The inventory's lock is never held across a suspension, so planning and *)
(* reserving are one step; the awaits are the announcement of a payout and *)
(* the dispenser.  A purchase has a payer (the validator task) and perhaps *)
(* a canceller (the kiosk or the idle supervisor).                         *)
(***************************************************************************)
EXTENDS Integers, FiniteSets, Sequences, FiniteSetsExt, SequencesExt

CONSTANTS
    Purchases, Nobody,
    NoPlan,          \* what the planner returns when it finds none
    Denominations,   \* of the dispenser, minor units
    Loaded,          \* how many of each it holds at first
    BillValues,      \* accepted_bill_denominations
    Prices

ASSUME ChangeAssumption ==
    /\ Nobody \notin Purchases /\ IsFiniteSet(Purchases)
    /\ Denominations \subseteq Nat \ {0} /\ BillValues \subseteq Nat \ {0}
    /\ IsFiniteSet(Denominations) /\ IsFiniteSet(BillValues)
    /\ NoPlan \notin [Denominations -> Nat]
    /\ Loaded \in [Denominations -> Nat] /\ Prices \subseteq Nat \ {0}

VARIABLES
    counts,      \* MoneyInventory._accounting_counts
    reserved,    \* MoneyInventory._reserved_counts
    drifted,     \* MoneyInventory.drift_detected
    reserves,    \* the ChangeReserve objects, by purchase and purpose
    attached,    \* purchases whose transaction.change_reserve is set
    collecting,  \* the active purchase
    purchase,    \* price and accepted amount
    payer, canceller,   \* what these tasks of each purchase await
    cassette,    \* the simulated dispenser's own counts
    gone         \* history: what left the machine, by denomination

changeVars == <<counts, reserved, drifted, reserves, attached, collecting,
                purchase, payer, canceller, cassette, gone>>

Purposes == {"change", "repay", "refund"}
Nothing  == [d \in Denominations |-> 0]
NoReserve == [status |-> "none", plan |-> Nothing]

Value(plan) == SumFunction([d \in Denominations |-> d * plan[d]])
Plus(a, b)  == [d \in Denominations |-> a[d] + b[d]]
Minus(a, b) == [d \in Denominations |-> a[d] - b[d]]
\* Mutant: no max(0, ...), a count may go below zero.
Unclamped(a) == a

AtLeastZero(a) == [d \in Denominations |-> IF a[d] < 0 THEN 0 ELSE a[d]]

Available(held) == AtLeastZero(Minus(counts, held))

ChangeInit ==
    /\ counts = Loaded /\ reserved = Nothing /\ drifted = FALSE
    /\ reserves = [id \in Purchases \X Purposes |-> NoReserve]
    /\ attached = {} /\ collecting = Nobody
    /\ purchase = [s \in Purchases |-> [price |-> 0, accepted |-> 0]]
    /\ payer = [s \in Purchases |-> "none"] /\ canceller = [s \in Purchases |-> "none"]
    /\ cassette = Loaded /\ gone = Nothing

-----------------------------------------------------------------------------
(* plan_change: the largest denominations first, backing up when the rest  *)
(* cannot be paid.                                                         *)

\* Mutant: no backing up.
GreedyPlan(available, amount) ==
    LET Plans[left \in (SUBSET Denominations) \X (0 .. amount)] ==
            LET rest == left[2]
                d    == Max(left[1])
                n    == Min({available[d], rest \div d})
                plan == Plans[<<left[1] \ {d}, rest - n * d>>]
            IN  IF rest = 0 THEN Nothing
                ELSE IF left[1] = {} \/ plan = NoPlan THEN NoPlan
                ELSE [plan EXCEPT ![d] = n]
    IN  Plans[<<Denominations, amount>>]

PlanChange(available, amount) ==
    LET Plans[left \in (SUBSET Denominations) \X (0 .. amount)] ==
            LET rest     == left[2]
                d        == Max(left[1])
                After(n) == Plans[<<left[1] \ {d}, rest - n * d>>]
                usable   == {n \in 0 .. Min({available[d], rest \div d}) : After(n) # NoPlan}
            IN  IF rest = 0 THEN Nothing
                ELSE IF left[1] = {} \/ usable = {} THEN NoPlan
                ELSE [After(Max(usable)) EXCEPT ![d] = Max(usable)]
    IN  Plans[<<Denominations, amount>>]

\* _calculate_worst_case_change: totals that bills can reach below the price,
\* and the change after the bill that crosses it.
Underpaid(price) ==
    LET Reachable[n \in 0 .. price - 1] ==
            n = 0 \/ \E b \in BillValues : b <= n /\ Reachable[n - b]
    IN  {n \in 0 .. price - 1 : Reachable[n]}

\* Mutant: only the change after a single bill is foreseen.
ChangeAfterOneBill(price) == {b - price : b \in {x \in BillValues : x >= price}}

PossibleChange(price) ==
    {p[1] + p[2] - price : p \in {q \in Underpaid(price) \X BillValues : q[1] + q[2] >= price}}

-----------------------------------------------------------------------------
(* Reserves.                                                               *)

Reserved(id, plan) == [reserves EXCEPT ![id] = [status |-> "active", plan |-> plan]]
Settled(id, status) == [reserves EXCEPT ![id].status = status]

\* Mutant: a consumed reserve stays booked.
ConsumeUnbooked(id) ==
    /\ counts' = Minus(counts, reserves[id].plan) /\ reserved' = reserved
    /\ reserves' = Settled(id, "consumed")

Consume(id) ==
    /\ counts' = Minus(counts, reserves[id].plan)
    /\ reserved' = AtLeastZero(Minus(reserved, reserves[id].plan))
    /\ reserves' = Settled(id, "consumed")

\* What is booked once the purchase's change reserve has been released.
HeldWithout(s) ==
    IF s \in attached THEN AtLeastZero(Minus(reserved, reserves[<<s, "change">>].plan))
                      ELSE reserved

ReleaseAttached(s) ==
    /\ reserved' = HeldWithout(s)
    /\ reserves' = IF s \in attached THEN Settled(<<s, "change">>, "released") ELSE reserves
    /\ attached' = attached \ {s}

\* start_cash_session: refused under drift or when some change could not be
\* given; the worst case is set aside.
OpenSession(s, price) ==
    LET plan  == PlanChange(Available(reserved), Max(PossibleChange(price) \cup {0}))
        needs == plan # Nothing
    IN  /\ collecting = Nobody /\ payer[s] = "none" /\ ~drifted
        /\ \A due \in PossibleChange(price) : PlanChange(Available(reserved), due) # NoPlan
        /\ reserved' = Plus(reserved, plan)
        /\ reserves' = IF needs THEN Reserved(<<s, "change">>, plan) ELSE reserves
        /\ attached' = IF needs THEN attached \cup {s} ELSE attached
        /\ collecting' = s
        /\ purchase' = [purchase EXCEPT ![s].price = price]
        /\ payer' = [payer EXCEPT ![s] = "cash"]
        /\ UNCHANGED <<counts, drifted, canceller, cassette, gone>>

StackBill(s, b) ==
    /\ payer[s] = "cash" /\ purchase[s].accepted < purchase[s].price
    /\ canceller[s] = "none"
    /\ purchase' = [purchase EXCEPT ![s].accepted = @ + b]
    /\ UNCHANGED <<counts, reserved, drifted, reserves, attached, collecting,
                   payer, canceller, cassette, gone>>

Due(s) == purchase[s].accepted - purchase[s].price

PayerGoes(s, label) == payer' = [payer EXCEPT ![s] = label]

\* finalize_reserve: the worst-case reserve is given back and the exact change
\* set aside.  A cancellation that has begun its refund, or has ended the
\* sale, makes the state machine refuse this step.
FinalizeReserve(s) ==
    LET plan == PlanChange(Available(HeldWithout(s)), Due(s))
    IN  /\ payer[s] = "cash" /\ canceller[s] = "none" /\ Due(s) >= 0
        /\ \/ /\ Due(s) = 0 /\ ReleaseAttached(s) /\ PayerGoes(s, "settled")
           \/ /\ Due(s) > 0 /\ plan = NoPlan
              /\ ReleaseAttached(s) /\ PayerGoes(s, "unpayable")
           \/ /\ Due(s) > 0 /\ plan # NoPlan
              /\ reserved' = Plus(HeldWithout(s), plan)
              /\ reserves' = Reserved(<<s, "change">>, plan)
              /\ attached' = attached \cup {s}
              /\ PayerGoes(s, "announced")
        /\ UNCHANGED <<counts, drifted, collecting, purchase, canceller, cassette, gone>>

\* prepare_payout_request, after change_dispense_requested was delivered.
PreparePayout(s) ==
    /\ payer[s] = "announced"
    /\ PayerGoes(s, IF s \in attached THEN "change" ELSE "unpayable")
    /\ UNCHANGED <<counts, reserved, drifted, reserves, attached, collecting,
                   purchase, canceller, cassette, gone>>

-----------------------------------------------------------------------------
(* The simulated dispenser: a full payout leaves its own counts alone, a   *)
(* partial one pays all but one coin of the largest denomination.          *)

CanDispense(plan) == \A d \in Denominations : cassette[d] >= plan[d]

PartialPlan(plan) ==
    LET used == {d \in Denominations : plan[d] > 0}
    IN  IF used = {} THEN plan ELSE [plan EXCEPT ![Max(used)] = @ - 1]

Answer(plan, status) ==
    \/ status = "dispensed" /\ CanDispense(plan)
       /\ gone' = Plus(gone, plan) /\ UNCHANGED cassette
    \/ status = "partial" /\ CanDispense(plan) /\ PartialPlan(plan) # Nothing
       /\ gone' = Plus(gone, PartialPlan(plan))
       /\ cassette' = Minus(cassette, PartialPlan(plan))
    \/ status \in {"failed", "raised"} /\ UNCHANGED <<gone, cassette>>

\* dispense.  The reserve may have been taken away while the dispenser worked.
PayChange(s, status) ==
    LET id == <<s, "change">>
    IN  /\ payer[s] = "change" /\ Answer(reserves[id].plan, status)
        /\ \/ /\ status = "dispensed" /\ s \in attached
              /\ Consume(id) /\ PayerGoes(s, "settled") /\ UNCHANGED drifted
           \/ /\ (status = "dispensed" /\ s \notin attached) \/ status = "raised"
              /\ PayerGoes(s, "unpayable")
              /\ UNCHANGED <<counts, reserved, drifted, reserves>>
           \/ /\ status \in {"partial", "failed"}
              /\ reserves' = IF s \in attached THEN Settled(id, "ambiguous") ELSE reserves
              /\ drifted' = TRUE /\ PayerGoes(s, "unpayable")
              /\ UNCHANGED <<counts, reserved>>
        /\ UNCHANGED <<attached, collecting, purchase, canceller>>

\* dispense_refund up to the dispenser, by the payer whose change failed or by
\* the canceller.
ReserveRefund(s, purpose) ==
    LET plan == PlanChange(Available(reserved), purchase[s].accepted)
        task == IF purpose = "repay" THEN payer ELSE canceller
        next == [task EXCEPT ![s] = IF plan = NoPlan THEN "failed" ELSE purpose]
    IN  /\ task[s] = IF purpose = "repay" THEN "unpayable" ELSE "announced"
        /\ IF plan = NoPlan THEN UNCHANGED <<reserved, reserves>>
           ELSE /\ reserved' = Plus(reserved, plan)
                /\ reserves' = Reserved(<<s, purpose>>, plan)
        /\ IF purpose = "repay" THEN payer' = next /\ UNCHANGED canceller
                                ELSE canceller' = next /\ UNCHANGED payer
        /\ UNCHANGED <<counts, drifted, attached, collecting, purchase, cassette, gone>>

\* Mutant: a refund that did not complete is not reported as drift.
RefundForgiven(s, purpose, status) ==
    LET id   == <<s, purpose>>
        task == IF purpose = "repay" THEN payer ELSE canceller
        next == [task EXCEPT ![s] = IF status = "dispensed" THEN "settled" ELSE "failed"]
    IN  /\ task[s] = purpose /\ Answer(reserves[id].plan, status)
        /\ IF status = "dispensed" THEN Consume(id)
           ELSE UNCHANGED <<reserves, counts, reserved>>
        /\ IF purpose = "repay" THEN payer' = next /\ UNCHANGED canceller
                                ELSE canceller' = next /\ UNCHANGED payer
        /\ UNCHANGED <<drifted, attached, collecting, purchase>>

\* An exception of the dispenser leaves the reserve booked for ever.
PayRefund(s, purpose, status) ==
    LET id   == <<s, purpose>>
        task == IF purpose = "repay" THEN payer ELSE canceller
        next == [task EXCEPT ![s] = IF status = "dispensed" THEN "settled" ELSE "failed"]
    IN  /\ task[s] = purpose /\ Answer(reserves[id].plan, status)
        /\ \/ status = "dispensed" /\ Consume(id) /\ UNCHANGED drifted
           \/ /\ status \in {"partial", "failed"}
              /\ reserves' = Settled(id, "ambiguous") /\ drifted' = TRUE
              /\ UNCHANGED <<counts, reserved>>
           \/ status = "raised" /\ UNCHANGED <<counts, reserved, drifted, reserves>>
        /\ IF purpose = "repay" THEN payer' = next /\ UNCHANGED canceller
                                ELSE canceller' = next /\ UNCHANGED payer
        /\ UNCHANGED <<attached, collecting, purchase>>

\* cancel_purchase once the validator is off: cash not yet confirmed is
\* refunded, and in any case the change reserve is released.  A sale past its
\* payment stays the active one: the state machine refuses the end.
CancelSale(s) ==
    /\ payer[s] # "none" /\ canceller[s] = "none"
    /\ ReleaseAttached(s)
    /\ canceller' = [canceller EXCEPT ![s] =
          IF payer[s] = "cash" /\ purchase[s].accepted > 0 THEN "announced" ELSE "settled"]
    /\ collecting' = IF payer[s] = "cash" /\ purchase[s].accepted = 0 /\ collecting = s
                     THEN Nobody ELSE collecting
    /\ UNCHANGED <<counts, drifted, purchase, payer, cassette, gone>>

\* The active sale ends: picked up, refunded, or recovered by a technician.
LeaveSale(s) ==
    /\ collecting = s
    /\ payer[s] \in {"settled", "failed"} \/ (payer[s] = "cash" /\ canceller[s] = "settled")
    /\ collecting' = Nobody
    /\ UNCHANGED <<counts, reserved, drifted, reserves, attached, purchase,
                   payer, canceller, cassette, gone>>

\* A technician clears the flag; the counts stay what they are.
AcceptDrift ==
    /\ drifted /\ drifted' = FALSE
    /\ UNCHANGED <<counts, reserved, reserves, attached, collecting, purchase,
                   payer, canceller, cassette, gone>>

PayoutStatuses == {"dispensed", "partial", "failed", "raised"}

ChangeNext ==
    \/ \E s \in Purchases :
          \/ \E price \in Prices : OpenSession(s, price)
          \/ \E b \in BillValues : StackBill(s, b)
          \/ FinalizeReserve(s) \/ PreparePayout(s)
          \/ \E status \in PayoutStatuses : PayChange(s, status)
          \/ \E purpose \in {"repay", "refund"} :
                ReserveRefund(s, purpose) \/ \E status \in PayoutStatuses : PayRefund(s, purpose, status)
          \/ CancelSale(s) \/ LeaveSale(s)
    \/ AcceptDrift

ChangeSpec == ChangeInit /\ [][ChangeNext]_changeVars

-----------------------------------------------------------------------------
(* Properties.                                                             *)

ChangeTypeOK ==
    /\ counts \in [Denominations -> Int] /\ reserved \in [Denominations -> Nat]
    /\ drifted \in BOOLEAN /\ attached \subseteq Purchases
    /\ collecting \in Purchases \cup {Nobody}
    /\ \A id \in DOMAIN reserves : reserves[id].plan \in [Denominations -> Nat]
    /\ cassette \in [Denominations -> Nat] /\ gone \in [Denominations -> Nat]

Booked(d) ==
    SumFunction([id \in DOMAIN reserves |->
                    IF reserves[id].status \in {"active", "ambiguous"}
                    THEN reserves[id].plan[d] ELSE 0])

\* A cancellation found the reserve that the payout had consumed: dispense does
\* not take it off the transaction, and it is released once more.
ReleasedTwice == \E s \in Purchases : payer[s] = "settled" /\ Due(s) > 0 /\ canceller[s] # "none"

\* Whatever payouts, refunds and cancellations interleave, each denomination
\* has exactly the coins of the open reserves booked, and the machine owns
\* them: max(0, ...) in release and consume hides no imbalance, unless a sale
\* is cancelled after its change was paid.
ReservesBalance ==
    ~ReleasedTwice =>
        \A d \in Denominations : reserved[d] = Booked(d) /\ reserved[d] <= counts[d]

\* plan_change finds a plan exactly when some selection of the available coins
\* makes the amount, and the plan is such a selection.
PlanIsExact ==
    LET free == Available(reserved)
        Selections == {p \in [Denominations -> 0 .. Max({Loaded[d] : d \in Denominations})] :
                          \A d \in Denominations : p[d] <= free[d]}
    IN  \A amount \in {Value(p) : p \in [Denominations -> 0 .. 1]} \cup Prices :
            LET plan == PlanChange(free, amount)
            IN  IF \E p \in Selections : Value(p) = amount
                THEN plan \in Selections /\ Value(plan) = amount
                ELSE plan = NoPlan

\* A sale that was accepted because every change could be given finds its plan
\* when the payment completes, with any combination of bills, whatever the
\* payouts and cancellations of earlier sales do meanwhile (assess_sale,
\* finalize_reserve).
SupportedSaleFindsChange ==
    [][\A s \in Purchases : payer[s] = "cash" => payer'[s] # "unpayable"]_changeVars

\* The accounting differs from what is in the machine only with drift to show
\* for it, or after a payout whose reserve a cancellation took away.
CountsAreTrue ==
    ~drifted /\ ~(\E s \in Purchases : canceller[s] # "none" /\ payer[s] # "cash") =>
        \/ Plus(counts, gone) = Loaded
        \/ \E id \in DOMAIN reserves : reserves[id].status = "ambiguous"

=============================================================================
