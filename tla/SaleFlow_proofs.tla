--------------------------- MODULE SaleFlow_proofs --------------------------
(***************************************************************************)
(* The sale, for any number of sales and any mix of customers, operators,  *)
(* supervisors and failures: its types, that no product leaves the machine *)
(* before it is paid, and its other safety properties that the main        *)
(* invariant gives.                                                        *)
(*                                                                         *)
(* TypeOK is not inductive as it stands: a task may only act on a real     *)
(* sale, and the validator task may only take the head of a queue that is  *)
(* not empty.  Basic adds these two facts.                                 *)
(*                                                                         *)
(* The validator task decides once that the price has been reached and     *)
(* then awaits up to six times before the motor turns.  The argument is    *)
(* that nothing which runs meanwhile takes recorded cash away: every       *)
(* method of the entity Advances the record, and the one assignment that   *)
(* resets it, create_transaction, only meets a sale without a session and  *)
(* therefore without cash (FreshSales).  Hence the sale of a validator     *)
(* task past its threshold stays paid (CompletingPaid), and only that task *)
(* releases products.                                                      *)
(***************************************************************************)
EXTENDS SaleProperties, TLAPS

-----------------------------------------------------------------------------
(* The methods of the Transaction entity.                                  *)

(* A method that neither takes cash away nor opens or drops a session.     *)
Advances(r, s) ==
    /\ s.accepted >= r.accepted
    /\ (s.session = "none") <=> (r.session = "none")
    /\ s.session = "none" => s.accepted = r.accepted
    /\ s.status = "unborn" => r.status = "unborn"

(* A method that changes neither the counted cash nor the change due.      *)
SameMoney(r, s) == s.accepted = r.accepted /\ s.due = r.due

LEMMA UnbornIsRecord ==
    UnbornTransaction \in TransactionRecords /\ NewTransaction \in TransactionRecords
BY DEF UnbornTransaction, NewTransaction, TransactionRecords, TransactionStatuses

LEMMA AdvancesReflexive == \A r \in TransactionRecords : Advances(r, r)
BY DEF Advances, TransactionRecords

LEMMA MethodsTyped ==
    ASSUME NEW r \in TransactionRecords
    PROVE  /\ AuthorizeVend(r) \in TransactionRecords
           /\ MarkChangePending(r) \in TransactionRecords
           /\ MarkChangeDispensed(r) \in TransactionRecords
           /\ MarkChangePartial(r) \in TransactionRecords
           /\ ReleaseReserve(r) \in TransactionRecords
           /\ MarkProductDispensed(r) \in TransactionRecords
           /\ MarkWindowOpened(r) \in TransactionRecords
           /\ ConfirmPickup(r) \in TransactionRecords
           /\ MarkWindowClosed(r) \in TransactionRecords
           /\ MarkPickupTimedOut(r) \in TransactionRecords
           /\ Cancel(r) \in TransactionRecords
           /\ MarkFaulted(r) \in TransactionRecords
           /\ MarkAmbiguous(r) \in TransactionRecords
<1> USE DEF TransactionRecords, TransactionStatuses
<1>1. AuthorizeVend(r) \in TransactionRecords
  BY DEF AuthorizeVend
<1>2. MarkChangePending(r) \in TransactionRecords
  BY DEF MarkChangePending
<1>3. MarkChangeDispensed(r) \in TransactionRecords
  BY DEF MarkChangeDispensed
<1>4. MarkChangePartial(r) \in TransactionRecords
  BY DEF MarkChangePartial
<1>5. ReleaseReserve(r) \in TransactionRecords
  BY DEF ReleaseReserve
<1>6. MarkProductDispensed(r) \in TransactionRecords
  BY DEF MarkProductDispensed
<1>7. MarkWindowOpened(r) \in TransactionRecords
  BY DEF MarkWindowOpened
<1>8. ConfirmPickup(r) \in TransactionRecords
  BY DEF ConfirmPickup
<1>9. MarkWindowClosed(r) \in TransactionRecords
  BY DEF MarkWindowClosed
<1>10. MarkPickupTimedOut(r) \in TransactionRecords
  BY DEF MarkPickupTimedOut
<1>11. Cancel(r) \in TransactionRecords
  BY DEF Cancel
<1>12. MarkFaulted(r) \in TransactionRecords
  BY DEF MarkFaulted
<1>13. MarkAmbiguous(r) \in TransactionRecords
  BY DEF MarkAmbiguous
<1>. QED
  BY ONLY <1>1, <1>2, <1>3, <1>4, <1>5, <1>6, <1>7, <1>8, <1>9, <1>10, <1>11, <1>12, <1>13

LEMMA MethodsAdvance ==
    ASSUME NEW r \in TransactionRecords
    PROVE  /\ Advances(r, AuthorizeVend(r))
           /\ Advances(r, MarkChangePending(r))
           /\ Advances(r, MarkChangeDispensed(r))
           /\ Advances(r, MarkChangePartial(r))
           /\ Advances(r, ReleaseReserve(r))
           /\ Advances(r, MarkProductDispensed(r))
           /\ Advances(r, MarkWindowOpened(r))
           /\ Advances(r, ConfirmPickup(r))
           /\ Advances(r, MarkWindowClosed(r))
           /\ Advances(r, MarkPickupTimedOut(r))
           /\ Advances(r, Cancel(r))
           /\ Advances(r, MarkFaulted(r))
           /\ Advances(r, MarkAmbiguous(r))
<1> USE DEF Advances, TransactionRecords
<1>1. Advances(r, AuthorizeVend(r))
  BY DEF AuthorizeVend
<1>2. Advances(r, MarkChangePending(r))
  BY DEF MarkChangePending
<1>3. Advances(r, MarkChangeDispensed(r))
  BY DEF MarkChangeDispensed
<1>4. Advances(r, MarkChangePartial(r))
  BY DEF MarkChangePartial
<1>5. Advances(r, ReleaseReserve(r))
  BY DEF ReleaseReserve
<1>6. Advances(r, MarkProductDispensed(r))
  BY DEF MarkProductDispensed
<1>7. Advances(r, MarkWindowOpened(r))
  BY DEF MarkWindowOpened
<1>8. Advances(r, ConfirmPickup(r))
  BY DEF ConfirmPickup
<1>9. Advances(r, MarkWindowClosed(r))
  BY DEF MarkWindowClosed
<1>10. Advances(r, MarkPickupTimedOut(r))
  BY DEF MarkPickupTimedOut
<1>11. Advances(r, Cancel(r))
  BY DEF Cancel
<1>12. Advances(r, MarkFaulted(r))
  BY DEF MarkFaulted
<1>13. Advances(r, MarkAmbiguous(r))
  BY DEF MarkAmbiguous
<1>. QED
  BY ONLY <1>1, <1>2, <1>3, <1>4, <1>5, <1>6, <1>7, <1>8, <1>9, <1>10, <1>11, <1>12, <1>13

LEMMA MethodsKeepMoney ==
    ASSUME NEW r \in TransactionRecords
    PROVE  /\ SameMoney(r, AuthorizeVend(r))
           /\ SameMoney(r, MarkChangePending(r))
           /\ SameMoney(r, MarkChangeDispensed(r))
           /\ SameMoney(r, MarkChangePartial(r))
           /\ SameMoney(r, ReleaseReserve(r))
           /\ SameMoney(r, MarkProductDispensed(r))
           /\ SameMoney(r, MarkWindowOpened(r))
           /\ SameMoney(r, ConfirmPickup(r))
           /\ SameMoney(r, MarkWindowClosed(r))
           /\ SameMoney(r, MarkPickupTimedOut(r))
           /\ SameMoney(r, Cancel(r))
           /\ SameMoney(r, MarkFaulted(r))
           /\ SameMoney(r, MarkAmbiguous(r))
<1> USE DEF SameMoney, TransactionRecords
<1>1. SameMoney(r, AuthorizeVend(r))
  BY DEF AuthorizeVend
<1>2. SameMoney(r, MarkChangePending(r))
  BY DEF MarkChangePending
<1>3. SameMoney(r, MarkChangeDispensed(r))
  BY DEF MarkChangeDispensed
<1>4. SameMoney(r, MarkChangePartial(r))
  BY DEF MarkChangePartial
<1>5. SameMoney(r, ReleaseReserve(r))
  BY DEF ReleaseReserve
<1>6. SameMoney(r, MarkProductDispensed(r))
  BY DEF MarkProductDispensed
<1>7. SameMoney(r, MarkWindowOpened(r))
  BY DEF MarkWindowOpened
<1>8. SameMoney(r, ConfirmPickup(r))
  BY DEF ConfirmPickup
<1>9. SameMoney(r, MarkWindowClosed(r))
  BY DEF MarkWindowClosed
<1>10. SameMoney(r, MarkPickupTimedOut(r))
  BY DEF MarkPickupTimedOut
<1>11. SameMoney(r, Cancel(r))
  BY DEF Cancel
<1>12. SameMoney(r, MarkFaulted(r))
  BY DEF MarkFaulted
<1>13. SameMoney(r, MarkAmbiguous(r))
  BY DEF MarkAmbiguous
<1>. QED
  BY ONLY <1>1, <1>2, <1>3, <1>4, <1>5, <1>6, <1>7, <1>8, <1>9,
          <1>10, <1>11, <1>12, <1>13

(* A method that sets the status, and perhaps the recovery status, of a    *)
(* sale whose session, cash and payment it leaves alone.                   *)
Becomes(r, s, status, recovery) ==
    /\ SameMoney(r, s)
    /\ s.session = r.session /\ s.cancelled = r.cancelled /\ s.payment = r.payment
    /\ s.status = status /\ s.recovery = recovery

LEMMA MethodsSet ==
    ASSUME NEW r \in TransactionRecords
    PROVE  /\ Becomes(r, AuthorizeVend(r), "dispensing_product", r.recovery)
           /\ Becomes(r, MarkChangePending(r), "dispensing_change", r.recovery)
           /\ Becomes(r, MarkChangeDispensed(r), r.status, r.recovery)
           /\ Becomes(r, ReleaseReserve(r), r.status, r.recovery)
           /\ Becomes(r, MarkProductDispensed(r), "opening_delivery_window", r.recovery)
           /\ Becomes(r, MarkWindowOpened(r), "waiting_for_customer_pickup", r.recovery)
           /\ Becomes(r, ConfirmPickup(r), "closing_delivery_window", r.recovery)
           /\ Becomes(r, MarkWindowClosed(r), "completed", r.recovery)
           /\ Becomes(r, MarkPickupTimedOut(r), "pickup_timed_out", "manual_review")
           /\ Becomes(r, MarkFaulted(r), "faulted", "pending")
           /\ Becomes(r, MarkAmbiguous(r), "ambiguous", "manual_review")
<1> USE DEF Becomes, SameMoney, TransactionRecords
<1>1. Becomes(r, AuthorizeVend(r), "dispensing_product", r.recovery)
  BY DEF AuthorizeVend
<1>2. Becomes(r, MarkChangePending(r), "dispensing_change", r.recovery)
  BY DEF MarkChangePending
<1>3. Becomes(r, MarkChangeDispensed(r), r.status, r.recovery)
  BY DEF MarkChangeDispensed
<1>4. Becomes(r, ReleaseReserve(r), r.status, r.recovery)
  BY DEF ReleaseReserve
<1>5. Becomes(r, MarkProductDispensed(r), "opening_delivery_window", r.recovery)
  BY DEF MarkProductDispensed
<1>6. Becomes(r, MarkWindowOpened(r), "waiting_for_customer_pickup", r.recovery)
  BY DEF MarkWindowOpened
<1>7. Becomes(r, ConfirmPickup(r), "closing_delivery_window", r.recovery)
  BY DEF ConfirmPickup
<1>8. Becomes(r, MarkWindowClosed(r), "completed", r.recovery)
  BY DEF MarkWindowClosed
<1>9. Becomes(r, MarkPickupTimedOut(r), "pickup_timed_out", "manual_review")
  BY DEF MarkPickupTimedOut
<1>10. Becomes(r, MarkFaulted(r), "faulted", "pending")
  BY DEF MarkFaulted
<1>11. Becomes(r, MarkAmbiguous(r), "ambiguous", "manual_review")
  BY DEF MarkAmbiguous
<1>. QED
  BY ONLY <1>1, <1>2, <1>3, <1>4, <1>5, <1>6, <1>7, <1>8, <1>9, <1>10, <1>11

(* What the methods do to the payment, the payout and the reserve.         *)
LEMMA MethodsPay ==
    ASSUME NEW r \in TransactionRecords
    PROVE  /\ MarkChangePending(r).reserve
           /\ MarkChangeDispensed(r).payout = "dispensed"
           /\ ReleaseReserve(r).payout = r.payout
           /\ MarkChangeDispensed(r).reserve = r.reserve
BY DEF TransactionRecords, MarkChangePending, MarkChangeDispensed, ReleaseReserve

LEMMA ConfirmSets ==
    ASSUME NEW r \in TransactionRecords, r.session # "none"
    PROVE  LET s == ConfirmPayment(r)
           IN  /\ s.status = "payment_accepted" /\ s.payment = "confirmed"
               /\ s.session = "completed"
               /\ s.recovery = r.recovery /\ s.cancelled = r.cancelled
BY DEF TransactionRecords, ConfirmPayment

LEMMA StartSets ==
    ASSUME NEW r \in TransactionRecords, NEW reserved \in BOOLEAN
    PROVE  LET s == StartCashSession(r, reserved)
           IN  s.recovery = r.recovery /\ s.cancelled = r.cancelled
BY DEF TransactionRecords, StartCashSession

LEMMA CashSets ==
    ASSUME NEW r \in TransactionRecords, NEW bill \in Nat
    PROVE  LET s == RecordStackedCash(r, bill)
           IN  /\ s.accepted = r.accepted + bill
               /\ s.status = r.status /\ s.recovery = r.recovery /\ s.session = r.session
               /\ s.cancelled = r.cancelled /\ s.due = r.due /\ s.payment = r.payment
BY DEF TransactionRecords, RecordStackedCash

LEMMA ConfirmTyped ==
    ASSUME NEW r \in TransactionRecords, CanConfirm(r)
    PROVE  ConfirmPayment(r) \in TransactionRecords
<1>1. r.accepted - Price \in Nat
  BY PriceAssumption DEF TransactionRecords, CanConfirm
<1>. QED
  BY <1>1 DEF TransactionRecords, TransactionStatuses, ConfirmPayment

LEMMA ConfirmAdvances ==
    ASSUME NEW r \in TransactionRecords, CanConfirm(r)
    PROVE  /\ Advances(r, ConfirmPayment(r))
           /\ ConfirmPayment(r).accepted >= Price
BY DEF Advances, TransactionRecords, ConfirmPayment, CanConfirm

LEMMA ConfirmDue ==
    ASSUME NEW r \in TransactionRecords
    PROVE  /\ ConfirmPayment(r).accepted = r.accepted
           /\ ConfirmPayment(r).due = r.accepted - Price
BY DEF TransactionRecords, ConfirmPayment

LEMMA CashAdvances ==
    ASSUME NEW r \in TransactionRecords, CanStack(r), NEW bill \in Nat
    PROVE  /\ RecordStackedCash(r, bill) \in TransactionRecords
           /\ Advances(r, RecordStackedCash(r, bill))
BY DEF Advances, TransactionRecords, TransactionStatuses, RecordStackedCash, CanStack

LEMMA SessionIsRecord ==
    ASSUME NEW r \in TransactionRecords, NEW reserved \in BOOLEAN
    PROVE  /\ StartCashSession(r, reserved) \in TransactionRecords
           /\ SameMoney(r, StartCashSession(r, reserved))
           /\ StartCashSession(r, reserved).session = "accepting"
           /\ StartCashSession(r, reserved).status = "accepting_cash"
<1>1. StartCashSession(r, reserved) \in TransactionRecords
  BY DEF TransactionRecords, TransactionStatuses, StartCashSession
<1>. QED
  BY <1>1 DEF TransactionRecords, StartCashSession, SameMoney

-----------------------------------------------------------------------------
(* The parts of the invariant.                                             *)

Basic == TypeOK /\ TasksHaveSales /\ EventInQueue

Working == Labels \ {"rest", "dead", "event"}

FsmOK == fsm \in MachineStates /\ shown \in MachineStates

StoreOK ==
    /\ journal \subseteq JournalRecords /\ before \subseteq JournalRecords
    /\ txnOpen \in BOOLEAN

PayoutOK == answers \in [Tx -> [Requests -> Answers]] /\ paid \in [Tx -> Nat]

TasksOK ==
    /\ pc \in [Tasks -> Labels] /\ on \in [Tasks -> SaleIds]
    /\ TasksHaveSales /\ EventInQueue

-----------------------------------------------------------------------------
(* The operations.                                                         *)

LEMMA TaskNames ==
    /\ \A k \in {"checkout", "validator", "cancel", "idle", "confirm", "timeout", "recover"} :
           k \in Tasks
    /\ Cancellers \subseteq Tasks
    /\ "validator" \notin Cancellers
    /\ Cancellers = {"cancel", "idle"}
BY DEF Tasks, Cancellers

LEMMA LabelNames ==
    /\ \A l \in { "sensor", "stop", "enable", "credited", "disable", "payout", "change",
                  "repay", "paid", "motor", "open", "announce", "refund", "refunded",
                  "leave", "elapsed", "close", "recover" } : l \in Working
    /\ Working \subseteq Labels
    /\ "rest" \in Labels /\ "dead" \in Labels /\ "event" \in Labels
BY DEF Labels, Working

LEMMA StateNames ==
    \A s \in { "IDLE", "CHECKING_AVAILABILITY", "WAITING_FOR_PAYMENT", "ACCEPTING_CASH",
               "PAYMENT_ACCEPTED", "DISPENSING_CHANGE", "DISPENSING_PRODUCT",
               "OPENING_DELIVERY_WINDOW", "WAITING_FOR_CUSTOMER_PICKUP",
               "CLOSING_DELIVERY_WINDOW", "CANCELLED", "FAULT", "SERVICE_MODE",
               "REFUND", "MANUAL_REVIEW", "RECOVERY_PENDING" } : s \in MachineStates
BY DEF MachineStates

LEMMA StepNames ==
    \A step \in { "enable", "disable", "change", "motor", "inventory", "open",
                  "cancel_disable", "refund", "confirm_close", "timeout_close" } : step \in Steps
BY DEF Steps

LEMMA PutTyped ==
    ASSUME TypeOK, NEW t, NEW r, t \in Tx => r \in TransactionRecords, Put(t, r)
    PROVE  tx' \in [Tx -> TransactionRecords]
BY DEF TypeOK, Put

LEMMA ShowTyped ==
    ASSUME NEW s \in MachineStates, Show(s)
    PROVE  FsmOK'
BY DEF Show, FsmOK

LEMMA PublishedTyped ==
    ASSUME active' \in SaleIds, Published
    PROVE  idleRef' \in SaleIds \cup {Unarmed}
BY DEF Published

LEMMA ClearActiveTyped ==
    ASSUME TypeOK, NEW t, ClearActive(t)
    PROVE  active' \in SaleIds
BY DEF ClearActive, TypeOK, SaleIds

LEMMA RecordsTyped ==
    ASSUME NEW t \in Tx, NEW step \in Steps
    PROVE  /\ Intent(t, step) \in JournalRecords
           /\ Outcome(t, step) \in JournalRecords
           /\ Resolved(t, step) \subseteq JournalRecords
BY DEF Intent, Outcome, Resolved, JournalRecords

LEMMA WriteTyped ==
    ASSUME TypeOK, NEW records, records \subseteq JournalRecords,
           Write(records) \/ WriteAndRaise(records) \/ UNCHANGED storeVars
    PROVE  StoreOK'
BY DEF TypeOK, Write, WriteAndRaise, StoreOK, storeVars

LEMMA DispenseTyped ==
    ASSUME TypeOK, NEW t \in Tx, NEW request \in Requests, NEW amounts, amounts \subseteq Nat,
           NEW answer \in Answers,
           Dispense(t, request, amounts, answer) \/ DispenseRaises(t, request, amounts)
    PROVE  PayoutOK'
<1>1. ASSUME NEW amount \in Nat, PayBack(t, amount)
      PROVE  paid' \in [Tx -> Nat]
  BY <1>1 DEF PayBack, TypeOK
<1>2. paid' \in [Tx -> Nat]
  BY <1>1 DEF Dispense, DispenseRaises, TypeOK
<1>3. answers' \in [Tx -> [Requests -> Answers]]
  <2>1. [answers[t] EXCEPT ![request] = answer] \in [Requests -> Answers]
    BY DEF TypeOK
  <2>2. [answers EXCEPT ![t][request] = answer] \in [Tx -> [Requests -> Answers]]
    BY <2>1 DEF TypeOK
  <2>. QED
    BY <2>2 DEF Dispense, DispenseRaises, TypeOK
<1>. QED
  BY <1>2, <1>3 DEF PayoutOK

LEMMA RefundNotPaidTyped ==
    ASSUME TypeOK, NEW t \in Tx, NEW amount \in Nat, RefundNotPaid(t, amount)
    PROVE  PayoutOK' /\ drift' \in BOOLEAN
<1>1. "refund" \in Requests /\ "failed" \in Answers
  BY DEF Requests, Answers
<1>2. 0 .. (amount - 1) \subseteq Nat /\ 0 .. amount \subseteq Nat
  OBVIOUS
<1>3. PayoutOK'
  BY <1>1, <1>2, DispenseTyped DEF RefundNotPaid, TypeOK, PayoutOK
<1>4. drift' \in BOOLEAN
  BY DEF RefundNotPaid, TypeOK
<1>. QED
  BY <1>3, <1>4

(* A task that is past its first await works for a sale.                   *)
LEMMA OnSale ==
    ASSUME Basic, NEW k \in Tasks, pc[k] \in Working
    PROVE  on[k] \in Tx
BY DEF Basic, TasksHaveSales, AtRest, Working

LEMMA GoKeeps ==
    ASSUME Basic, NEW k \in Tasks, NEW label, Go(k, label),
           label \in {"rest", "dead"} \/ (label \in Working /\ on[k] \in Tx),
           queue' = queue \/ k = "validator"
    PROVE  TasksOK'
<1>1. pc' \in [Tasks -> Labels] /\ on' \in [Tasks -> SaleIds]
  BY LabelNames DEF Basic, TypeOK, Go, SaleIds
<1>2. TasksHaveSales'
  BY DEF Basic, TypeOK, TasksHaveSales, AtRest, Go, Working
<1>3. EventInQueue'
  BY TaskNames DEF Basic, TypeOK, EventInQueue, Go, Working
<1>. QED
  BY <1>1, <1>2, <1>3 DEF TasksOK

LEMMA StartKeeps ==
    ASSUME Basic, NEW k \in Tasks, k # "validator", NEW t \in Tx, NEW label \in Working,
           Start(k, t, label), queue' = queue
    PROVE  TasksOK'
<1>1. pc' \in [Tasks -> Labels] /\ on' \in [Tasks -> SaleIds]
  BY LabelNames DEF Basic, TypeOK, Start, SaleIds
<1>2. TasksHaveSales'
  BY DEF Basic, TypeOK, TasksHaveSales, AtRest, Start, Working
<1>3. EventInQueue'
  BY TaskNames DEF Basic, TypeOK, EventInQueue, Start, Working
<1>. QED
  BY <1>1, <1>2, <1>3 DEF TasksOK

LEMMA StillKeeps ==
    ASSUME Basic, UNCHANGED <<pc, on>>, queue' = queue \/ queue' # << >>
    PROVE  TasksOK'
BY DEF Basic, TypeOK, TasksOK, TasksHaveSales, EventInQueue, AtRest

USE DEF fsmVars, permitVars, saleVars, deviceVars, taskVars, kioskVars, storeVars, cashVars

-----------------------------------------------------------------------------
(* The actions.                                                            *)

LEMMA InitBasic == Init => Basic
<1> SUFFICES ASSUME Init PROVE Basic
  OBVIOUS
<1>1. /\ fsm \in MachineStates /\ shown \in MachineStates
      /\ pc \in [Tasks -> Labels] /\ on \in [Tasks -> SaleIds]
  BY LabelNames, StateNames DEF Init, SaleIds
<1>2. tx \in [Tx -> TransactionRecords]
  BY UnbornIsRecord DEF Init
<1>3. queue \in Seq(ValidatorEvents)
  BY DEF Init
<1>4. answers \in [Tx -> [Requests -> Answers]]
  BY DEF Init, Answers
<1>5. TypeOK
  BY <1>1, <1>2, <1>3, <1>4, StateAssumption DEF Init, TypeOK, SaleIds
<1>6. TasksHaveSales /\ EventInQueue
  BY TaskNames DEF Init, TasksHaveSales, EventInQueue, AtRest
<1>. QED
  BY <1>5, <1>6 DEF Basic

LEMMA CheckoutBasic ==
    ASSUME Basic, CheckoutTask
    PROVE  Basic'
<1>1. CASE SensorMismatch
  BY <1>1, GoKeeps, TaskNames DEF SensorMismatch, Basic, TypeOK, TasksOK
<1>2. CASE RefusePurchase
  BY <1>2, GoKeeps, TaskNames DEF RefusePurchase, Basic, TypeOK, TasksOK
<1>3. CASE CreatePurchase
  <2>1. on["checkout"] \in Tx
    BY <1>3, OnSale, TaskNames, LabelNames DEF CreatePurchase
  <2>2. tx' \in [Tx -> TransactionRecords] /\ active' \in SaleIds
    BY <1>3, <2>1, PutTyped, UnbornIsRecord DEF CreatePurchase, Basic, SaleIds
  <2>3. FsmOK'
    BY <1>3, ShowTyped, StateNames DEF CreatePurchase, Basic, TypeOK, FsmOK
  <2>4. TasksOK'
    BY <1>3, <2>1, GoKeeps, TaskNames, LabelNames DEF CreatePurchase
  <2>. QED
    BY <1>3, <2>2, <2>3, <2>4 DEF CreatePurchase, Basic, TypeOK, FsmOK, TasksOK
<1>4. CASE StopFails
  BY <1>4, GoKeeps, TaskNames DEF StopFails, Basic, TypeOK, TasksOK
<1>5. CASE StartPayment
  <2>1. on["checkout"] \in Tx
    BY <1>5, OnSale, TaskNames, LabelNames DEF StartPayment
  <2>2. tx' \in [Tx -> TransactionRecords]
    BY <1>5, <2>1, PutTyped, SessionIsRecord DEF StartPayment, Basic, TypeOK
  <2>3. FsmOK'
    BY <1>5, ShowTyped, StateNames DEF StartPayment, Basic, TypeOK, FsmOK
  <2>4. StoreOK'
    BY <1>5, <2>1, WriteTyped, RecordsTyped, StepNames DEF StartPayment, Basic, TypeOK, StoreOK
  <2>5. TasksOK'
    BY <1>5, <2>1, GoKeeps, TaskNames, LabelNames DEF StartPayment
  <2>. QED
    BY <1>5, <2>2, <2>3, <2>4, <2>5, PublishedTyped
    DEF StartPayment, Basic, TypeOK, FsmOK, StoreOK, TasksOK
<1>6. CASE AcceptanceEnabled
  <2>1. on["checkout"] \in Tx
    BY <1>6, OnSale, TaskNames, LabelNames DEF AcceptanceEnabled
  <2>2. StoreOK'
    BY <1>6, <2>1, WriteTyped, RecordsTyped, StepNames DEF AcceptanceEnabled, Basic
  <2>3. TasksOK'
    BY <1>6, GoKeeps, TaskNames DEF AcceptanceEnabled
  <2>. QED
    BY <1>6, <2>1, <2>2, <2>3, PublishedTyped
    DEF AcceptanceEnabled, Basic, TypeOK, SaleIds, StoreOK, TasksOK
<1>7. CASE AcceptanceNotEnabled
  <2>1. on["checkout"] \in Tx
    BY <1>7, OnSale, TaskNames, LabelNames DEF AcceptanceNotEnabled
  <2>2. tx' \in [Tx -> TransactionRecords]
    BY <1>7, <2>1, PutTyped, MethodsTyped DEF AcceptanceNotEnabled, Basic, TypeOK
  <2>3. FsmOK'
    BY <1>7, ShowTyped, StateNames DEF AcceptanceNotEnabled, Basic, TypeOK, FsmOK
  <2>4. StoreOK'
    <3>1. Write({Outcome(on["checkout"], "enable")}) \/ UNCHANGED storeVars
      BY <1>7, Zenon DEF AcceptanceNotEnabled
    <3>. QED
      BY <2>1, <3>1, WriteTyped, RecordsTyped, StepNames DEF Basic
  <2>5. TasksOK'
    BY <1>7, GoKeeps, TaskNames DEF AcceptanceNotEnabled
  <2>6. blockers' \subseteq Blockers
    BY <1>7 DEF AcceptanceNotEnabled, Basic, TypeOK, Blockers
  <2>7. accepting' \in BOOLEAN
    BY <1>7 DEF AcceptanceNotEnabled, Basic, TypeOK
  <2>. QED
    BY <1>7, <2>2, <2>3, <2>4, <2>5, <2>6, <2>7
    DEF AcceptanceNotEnabled, Basic, TypeOK, FsmOK, StoreOK, TasksOK
<1>. QED
  BY <1>1, <1>2, <1>3, <1>4, <1>5, <1>6, <1>7 DEF CheckoutTask

LEMMA EventTyped ==
    ASSUME Basic, pc["validator"] = "event"
    PROVE  Head(queue) \in ValidatorEvents /\ Tail(queue) \in Seq(ValidatorEvents)
BY DEF Basic, TypeOK, EventInQueue

(* The bills: TakeEvent to BeginCompletion.                                *)
LEMMA BillsBasic ==
    ASSUME Basic,
           TakeEvent \/ CreditBill \/ ValidatorFault \/ BillNotEnough \/ BeginCompletion
    PROVE  Basic'
<1>1. CASE TakeEvent
  <2>1. pc' \in [Tasks -> Labels] /\ on' \in [Tasks -> SaleIds]
    BY <1>1, LabelNames DEF TakeEvent, Start, Basic, TypeOK
  <2>2. TasksHaveSales'
    BY <1>1, TaskNames DEF TakeEvent, Start, Basic, TypeOK, TasksHaveSales, AtRest
  <2>. QED
    BY <1>1, <2>1, <2>2, PublishedTyped DEF TakeEvent, Basic, TypeOK, EventInQueue
<1>2. CASE CreditBill
  <2>1. tx' \in [Tx -> TransactionRecords]
    BY <1>2, EventTyped, PutTyped, CashAdvances DEF CreditBill, Basic, TypeOK, ValidatorEvents
  <2>2. TasksOK'
    BY <1>2, GoKeeps, TaskNames, LabelNames DEF CreditBill, Basic, TypeOK, SaleIds
  <2>3. idleRef' \in SaleIds \cup {Unarmed}
    BY <1>2, PublishedTyped DEF CreditBill, Basic, TypeOK
  <2>. QED
    BY <1>2, <2>1, <2>2, <2>3, EventTyped DEF CreditBill, Basic, TypeOK, TasksOK
<1>3. CASE ValidatorFault
  <2>1. tx' \in [Tx -> TransactionRecords]
    BY <1>3, PutTyped, MethodsTyped DEF ValidatorFault, Basic, TypeOK
  <2>2. FsmOK'
    BY <1>3, ShowTyped, StateNames DEF ValidatorFault, Basic, TypeOK, FsmOK
  <2>3. TasksOK'
    BY <1>3, GoKeeps, TaskNames DEF ValidatorFault
  <2>4. blockers' \subseteq Blockers
    BY <1>3 DEF ValidatorFault, Basic, TypeOK, Blockers
  <2>. QED
    BY <1>3, <2>1, <2>2, <2>3, <2>4, EventTyped
    DEF ValidatorFault, Basic, TypeOK, FsmOK, TasksOK
<1>4. CASE BillNotEnough
  BY <1>4, GoKeeps, TaskNames DEF BillNotEnough, Basic, TypeOK, TasksOK
<1>5. CASE BeginCompletion
  <2>1. on["validator"] \in Tx
    BY <1>5, OnSale, TaskNames, LabelNames DEF BeginCompletion
  <2>2. tx' \in [Tx -> TransactionRecords]
    BY <1>5, <2>1, PutTyped, ConfirmTyped DEF BeginCompletion, Basic, TypeOK
  <2>3. StoreOK'
    BY <1>5, <2>1, WriteTyped, RecordsTyped, StepNames DEF BeginCompletion, Basic
  <2>4. TasksOK'
    BY <1>5, <2>1, GoKeeps, TaskNames, LabelNames DEF BeginCompletion
  <2>. QED
    BY <1>5, <2>2, <2>3, <2>4 DEF BeginCompletion, Basic, TypeOK, StoreOK, TasksOK
<1>. QED
  BY <1>1, <1>2, <1>3, <1>4, <1>5

(* The completion of a payment: CompletionDisabled to RepayFails.          *)
LEMMA CompletionBasic ==
    ASSUME Basic,
           \/ CompletionDisabled \/ CompletionDisableFails \/ RequestChange
           \/ ChangeDispensed \/ ChangeFails \/ Repaid \/ RepayFails
    PROVE  Basic'
<1> DEFINE t == on["validator"]
<1>0. t \in Tx /\ tx[t].due \in Nat /\ tx[t].accepted \in Nat
  <2>1. pc["validator"] \in Working
    BY LabelNames DEF CompletionDisabled, CompletionDisableFails, RequestChange,
                      ChangeDispensed, ChangeFails, Repaid, RepayFails
  <2>. QED
    BY <2>1, OnSale, TaskNames DEF Basic, TypeOK, TransactionRecords
<1>1. CASE CompletionDisabled
  <2>1. tx' \in [Tx -> TransactionRecords]
    BY <1>1, PutTyped, MethodsTyped DEF CompletionDisabled, Basic, TypeOK
  <2>2. FsmOK'
    BY <1>1, ShowTyped, StateNames DEF CompletionDisabled, Basic, TypeOK, FsmOK
  <2>3. StoreOK'
    BY <1>1, <1>0, WriteTyped, RecordsTyped, StepNames DEF CompletionDisabled, Basic
  <2>4. TasksOK'
    BY <1>1, <1>0, GoKeeps, TaskNames, LabelNames DEF CompletionDisabled
  <2>5. accepting' \in BOOLEAN /\ cached' \subseteq SaleIds
    BY <1>1, <1>0 DEF CompletionDisabled, DisableWithId, Basic, TypeOK, SaleIds
  <2>6. idleRef' \in SaleIds \cup {Unarmed}
    BY <1>1 DEF CompletionDisabled, Basic, TypeOK
  <2>. QED
    BY <1>1, <2>1, <2>2, <2>3, <2>4, <2>5, <2>6
    DEF CompletionDisabled, Basic, TypeOK, FsmOK, StoreOK, TasksOK
<1>2. CASE CompletionDisableFails
  <2>1. tx' \in [Tx -> TransactionRecords]
    BY <1>2, PutTyped, MethodsTyped
    DEF CompletionDisableFails, DisableFails, Basic, TypeOK
  <2>2. FsmOK'
    BY <1>2, ShowTyped, StateNames DEF CompletionDisableFails, DisableFails
  <2>3. StoreOK'
    BY <1>2, <1>0, WriteTyped, RecordsTyped, StepNames DEF CompletionDisableFails, Basic
  <2>4. TasksOK'
    BY <1>2, GoKeeps, TaskNames DEF CompletionDisableFails
  <2>5. accepting' \in BOOLEAN
    BY <1>2 DEF CompletionDisableFails, DisableFails, Basic, TypeOK
  <2>. QED
    BY <1>2, <2>1, <2>2, <2>3, <2>4, <2>5
    DEF CompletionDisableFails, Basic, TypeOK, FsmOK, StoreOK, TasksOK
<1>3. CASE RequestChange
  <2>1. StoreOK'
    BY <1>3, <1>0, WriteTyped, RecordsTyped, StepNames DEF RequestChange, Basic
  <2>2. TasksOK'
    BY <1>3, <1>0, GoKeeps, TaskNames, LabelNames DEF RequestChange
  <2>. QED
    BY <1>3, <2>1, <2>2 DEF RequestChange, Basic, TypeOK, StoreOK, TasksOK
<1>4. CASE ChangeDispensed
  <2>1. tx' \in [Tx -> TransactionRecords]
    BY <1>4, PutTyped, MethodsTyped DEF ChangeDispensed, Basic, TypeOK
  <2>2. StoreOK'
    BY <1>4, <1>0, WriteTyped, RecordsTyped, StepNames DEF ChangeDispensed, Basic
  <2>3. TasksOK'
    BY <1>4, <1>0, GoKeeps, TaskNames, LabelNames DEF ChangeDispensed
  <2>4. PayoutOK'
    BY <1>4, <1>0, DispenseTyped DEF ChangeDispensed, Basic, Requests, Answers
  <2>5. idleRef' \in SaleIds \cup {Unarmed}
    BY <1>4 DEF ChangeDispensed, Basic, TypeOK
  <2>. QED
    BY <1>4, <2>1, <2>2, <2>3, <2>4, <2>5
    DEF ChangeDispensed, Basic, TypeOK, StoreOK, TasksOK, PayoutOK
<1>5. CASE ChangeFails
  <2>1. tx' \in [Tx -> TransactionRecords] /\ drift' \in BOOLEAN
    BY <1>5, PutTyped, MethodsTyped DEF ChangeFails, Basic, TypeOK
  <2>2. StoreOK'
    BY <1>5, <1>0, WriteTyped, RecordsTyped, StepNames DEF ChangeFails, Basic
  <2>3. TasksOK'
    BY <1>5, <1>0, GoKeeps, TaskNames, LabelNames DEF ChangeFails
  <2>4. PayoutOK'
    <3>1. /\ 1 .. (tx[t].due - 1) \subseteq Nat /\ 0 .. tx[t].due \subseteq Nat
          /\ {0} \subseteq Nat
      BY <1>0
    <3>2. "change" \in Requests /\ {"partial", "failed"} \subseteq Answers
      BY DEF Requests, Answers
    <3>. QED
      BY <1>5, <1>0, <3>1, <3>2, DispenseTyped DEF ChangeFails, Basic
  <2>. QED
    BY <1>5, <2>1, <2>2, <2>3, <2>4
    DEF ChangeFails, Basic, TypeOK, StoreOK, TasksOK, PayoutOK
<1>6. CASE Repaid
  <2>1. TasksOK'
    BY <1>6, GoKeeps, TaskNames DEF Repaid
  <2>2. PayoutOK'
    BY <1>6, <1>0, DispenseTyped DEF Repaid, Basic, Requests, Answers
  <2>. QED
    BY <1>6, <2>1, <2>2, PublishedTyped DEF Repaid, Basic, TypeOK, TasksOK, PayoutOK
<1>7. CASE RepayFails
  <2>1. tx' \in [Tx -> TransactionRecords]
    BY <1>7, PutTyped, MethodsTyped DEF RepayFails, Basic, TypeOK
  <2>2. FsmOK'
    BY <1>7, ShowTyped, StateNames DEF RepayFails
  <2>3. TasksOK'
    BY <1>7, GoKeeps, TaskNames DEF RepayFails
  <2>4. PayoutOK' /\ drift' \in BOOLEAN
    BY <1>7, <1>0, RefundNotPaidTyped DEF RepayFails, Basic
  <2>. QED
    BY <1>7, <2>1, <2>2, <2>3, <2>4, PublishedTyped
    DEF RepayFails, Basic, TypeOK, FsmOK, TasksOK, PayoutOK
<1>. QED
  BY <1>1, <1>2, <1>3, <1>4, <1>5, <1>6, <1>7

LEMMA FaultSaleTyped ==
    ASSUME Basic, on["validator"] \in Tx, NEW step \in Steps,
           FaultSale(on["validator"], step)
    PROVE  /\ tx' \in [Tx -> TransactionRecords] /\ active' \in SaleIds
           /\ FsmOK' /\ StoreOK' /\ TasksOK'
           /\ idleRef' \in SaleIds \cup {Unarmed} /\ session' \in SaleIds
<1>1. tx' \in [Tx -> TransactionRecords] /\ active' \in SaleIds
  BY PutTyped, MethodsTyped, ClearActiveTyped DEF FaultSale, Basic, TypeOK
<1>2. FsmOK'
  BY ShowTyped, StateNames DEF FaultSale, Basic, TypeOK, FsmOK
<1>3. StoreOK'
  BY WriteTyped, RecordsTyped DEF FaultSale, Basic
<1>4. TasksOK'
  BY GoKeeps, TaskNames DEF FaultSale
<1>5. idleRef' \in SaleIds \cup {Unarmed} /\ session' \in SaleIds
  BY <1>1, PublishedTyped DEF FaultSale, Basic, TypeOK, SaleIds
<1>. QED
  BY <1>1, <1>2, <1>3, <1>4, <1>5

(* The release of the product: AuthorizeSale to WindowOpenFails.           *)
LEMMA VendBasic ==
    ASSUME Basic,
           AuthorizeSale \/ MotorDone \/ MotorFails \/ WindowOpens \/ WindowOpenFails
    PROVE  Basic'
<1> DEFINE t == on["validator"]
<1>0. t \in Tx
  BY OnSale, TaskNames, LabelNames
  DEF AuthorizeSale, MotorDone, MotorFails, WindowOpens, WindowOpenFails
<1>1. CASE AuthorizeSale
  <2>1. tx' \in [Tx -> TransactionRecords]
    BY <1>1, PutTyped, MethodsTyped DEF AuthorizeSale, Basic, TypeOK
  <2>2. FsmOK'
    BY <1>1, ShowTyped, StateNames DEF AuthorizeSale, Basic, TypeOK, FsmOK
  <2>3. StoreOK'
    BY <1>1, <1>0, WriteTyped, RecordsTyped, StepNames DEF AuthorizeSale, Basic
  <2>4. TasksOK'
    BY <1>1, <1>0, GoKeeps, TaskNames, LabelNames DEF AuthorizeSale
  <2>. QED
    BY <1>1, <2>1, <2>2, <2>3, <2>4, PublishedTyped
    DEF AuthorizeSale, Basic, TypeOK, FsmOK, StoreOK, TasksOK
<1>2. CASE MotorDone
  <2>1. tx' \in [Tx -> TransactionRecords] /\ stock' \in Nat
    BY <1>2, PutTyped, MethodsTyped DEF MotorDone, Basic, TypeOK
  <2>2. FsmOK'
    BY <1>2, ShowTyped, StateNames DEF MotorDone, Basic, TypeOK, FsmOK
  <2>3. StoreOK'
    BY <1>2, <1>0, WriteTyped, RecordsTyped, StepNames DEF MotorDone, Basic
  <2>4. TasksOK'
    BY <1>2, <1>0, GoKeeps, TaskNames, LabelNames DEF MotorDone
  <2>5. vended' \in [Tx -> Nat]
    BY <1>2, <1>0 DEF MotorDone, Basic, TypeOK
  <2>6. idleRef' \in SaleIds \cup {Unarmed}
    BY <1>2, PublishedTyped DEF MotorDone, Basic, TypeOK
  <2>. QED
    BY <1>2, <2>1, <2>2, <2>3, <2>4, <2>5, <2>6
    DEF MotorDone, Basic, TypeOK, FsmOK, StoreOK, TasksOK
<1>3. CASE MotorFails
  <2>1. vended' \in [Tx -> Nat]
    BY <1>3 DEF MotorFails, Basic, TypeOK
  <2>. QED
    BY <1>3, <1>0, <2>1, FaultSaleTyped, StepNames
    DEF MotorFails, Basic, TypeOK, FsmOK, StoreOK, TasksOK
<1>4. CASE WindowOpens
  <2>1. tx' \in [Tx -> TransactionRecords]
    BY <1>4, PutTyped, MethodsTyped DEF WindowOpens, Basic, TypeOK
  <2>2. FsmOK'
    BY <1>4, ShowTyped, StateNames DEF WindowOpens, Basic, TypeOK, FsmOK
  <2>3. StoreOK'
    BY <1>4, <1>0, WriteTyped, RecordsTyped, StepNames DEF WindowOpens, Basic
  <2>4. TasksOK'
    BY <1>4, GoKeeps, TaskNames DEF WindowOpens
  <2>5. idleRef' \in SaleIds \cup {Unarmed}
    BY <1>4, PublishedTyped DEF WindowOpens, Basic, TypeOK
  <2>. QED
    BY <1>4, <2>1, <2>2, <2>3, <2>4, <2>5
    DEF WindowOpens, Basic, TypeOK, FsmOK, StoreOK, TasksOK
<1>5. CASE WindowOpenFails
  <2>1. window' \in {"closed", "open"}
    BY <1>5 DEF WindowOpenFails, Basic, TypeOK
  <2>. QED
    BY <1>5, <1>0, <2>1, FaultSaleTyped, StepNames
    DEF WindowOpenFails, Basic, TypeOK, FsmOK, StoreOK, TasksOK
<1>. QED
  BY <1>1, <1>2, <1>3, <1>4, <1>5

LEMMA ValidatorBasic ==
    ASSUME Basic, ValidatorTask
    PROVE  Basic'
BY BillsBasic, CompletionBasic, VendBasic DEF ValidatorTask

LEMMA GiveUpTyped ==
    ASSUME Basic, NEW k \in Cancellers, NEW records, records \subseteq JournalRecords,
           GiveUp(k, records), queue' = queue
    PROVE  StoreOK' /\ TasksOK'
<1>1. TasksOK'
  BY GoKeeps, TaskNames DEF GiveUp
<1>2. StoreOK'
  BY WriteTyped DEF GiveUp, Basic, TypeOK, StoreOK
<1>. QED
  BY <1>1, <1>2

LEMMA EndSaleTyped ==
    ASSUME Basic, NEW k \in Cancellers, on[k] \in Tx, NEW records, records \subseteq JournalRecords,
           EndSale(k, records), queue' = queue
    PROVE  /\ tx' \in [Tx -> TransactionRecords] /\ active' \in SaleIds
           /\ FsmOK' /\ StoreOK' /\ TasksOK'
           /\ idleRef' \in SaleIds \cup {Unarmed} /\ session' \in SaleIds
<1>1. tx' \in [Tx -> TransactionRecords] /\ active' \in SaleIds
  BY PutTyped, MethodsTyped, ClearActiveTyped DEF EndSale, Basic, TypeOK
<1>2. FsmOK'
  BY ShowTyped, StateNames DEF EndSale, Basic, TypeOK, FsmOK
<1>3. StoreOK' /\ TasksOK'
  BY GiveUpTyped, GoKeeps, WriteTyped, TaskNames, LabelNames DEF EndSale, Basic
<1>4. idleRef' \in SaleIds \cup {Unarmed} /\ session' \in SaleIds
  BY <1>1, PublishedTyped DEF EndSale, Basic, TypeOK, SaleIds
<1>. QED
  BY <1>1, <1>2, <1>3, <1>4

LEMMA CancelBasic ==
    ASSUME Basic, NEW k \in Cancellers, CancelTask(k)
    PROVE  Basic'
<1>0. on[k] \in Tx /\ tx[on[k]].accepted \in Nat
  <2>1. pc[k] \in Working
    BY LabelNames DEF CancelTask, CancelDisabled, CancelDisableFails, RequestRefund,
                      RefundDispensed, RefundFails, EndCancel
  <2>. QED
    BY <2>1, OnSale, TaskNames DEF Basic, TypeOK, TransactionRecords
<1>1. CASE CancelDisabled(k)
  <2>1. accepting' \in BOOLEAN /\ cached' \subseteq SaleIds
    BY <1>1 DEF CancelDisabled, DisableWithId, Basic, TypeOK, SaleIds
  <2>2. CASE NeedsRefund(tx[on[k]])
    <3>1. tx' \in [Tx -> TransactionRecords]
      BY <1>1, <2>2, PutTyped, MethodsTyped DEF CancelDisabled, Basic, TypeOK
    <3>2. FsmOK'
      BY <1>1, <2>2, ShowTyped, StateNames DEF CancelDisabled, Basic, TypeOK, FsmOK
    <3>3. StoreOK'
      BY <1>1, <1>0, <2>2, WriteTyped, RecordsTyped, StepNames DEF CancelDisabled, Basic
    <3>4. TasksOK'
      BY <1>1, <1>0, <2>2, GoKeeps, TaskNames, LabelNames DEF CancelDisabled
    <3>. QED
      BY <1>1, <2>1, <2>2, <3>1, <3>2, <3>3, <3>4, PublishedTyped
      DEF CancelDisabled, Basic, TypeOK, FsmOK, StoreOK, TasksOK
  <2>3. CASE ~NeedsRefund(tx[on[k]])
    <3>1. {Outcome(on[k], "cancel_disable")} \subseteq JournalRecords
      BY <1>0, RecordsTyped, StepNames
    <3>. QED
      BY <1>1, <1>0, <2>1, <2>3, <3>1, EndSaleTyped
      DEF CancelDisabled, Basic, TypeOK, FsmOK, StoreOK, TasksOK
  <2>. QED
    BY <2>2, <2>3
<1>2. CASE CancelDisableFails(k)
  <2>1. tx' \in [Tx -> TransactionRecords]
    BY <1>2, PutTyped, MethodsTyped DEF CancelDisableFails, DisableFails, Basic, TypeOK
  <2>2. FsmOK'
    BY <1>2, ShowTyped, StateNames DEF CancelDisableFails, DisableFails
  <2>3. StoreOK' /\ TasksOK'
    BY <1>2, <1>0, GiveUpTyped, RecordsTyped, StepNames DEF CancelDisableFails
  <2>4. accepting' \in BOOLEAN
    BY <1>2 DEF CancelDisableFails, DisableFails, Basic, TypeOK
  <2>. QED
    BY <1>2, <2>1, <2>2, <2>3, <2>4
    DEF CancelDisableFails, Basic, TypeOK, FsmOK, StoreOK, TasksOK
<1>3. CASE RequestRefund(k)
  <2>1. StoreOK'
    BY <1>3, <1>0, WriteTyped, RecordsTyped, StepNames DEF RequestRefund, Basic
  <2>2. TasksOK'
    BY <1>3, <1>0, GoKeeps, TaskNames, LabelNames DEF RequestRefund
  <2>3. owed' \in [Cancellers -> Nat]
    BY <1>3, <1>0 DEF RequestRefund, Basic, TypeOK
  <2>. QED
    BY <1>3, <2>1, <2>2, <2>3 DEF RequestRefund, Basic, TypeOK, StoreOK, TasksOK
<1>4. CASE RefundDispensed(k)
  <2>1. FsmOK'
    BY <1>4, ShowTyped, StateNames DEF RefundDispensed, Basic, TypeOK, FsmOK
  <2>2. StoreOK'
    BY <1>4, <1>0, WriteTyped, RecordsTyped, StepNames DEF RefundDispensed, Basic
  <2>3. TasksOK'
    BY <1>4, <1>0, GoKeeps, TaskNames, LabelNames DEF RefundDispensed
  <2>4. PayoutOK' /\ owed' \in [Cancellers -> Nat]
    <3>1. {owed[k]} \subseteq Nat /\ "refund" \in Requests /\ "dispensed" \in Answers
      BY DEF Basic, TypeOK, Requests, Answers
    <3>. QED
      BY <1>4, <1>0, <3>1, DispenseTyped DEF RefundDispensed, Basic, TypeOK
  <2>. QED
    BY <1>4, <2>1, <2>2, <2>3, <2>4, PublishedTyped
    DEF RefundDispensed, Basic, TypeOK, FsmOK, StoreOK, TasksOK, PayoutOK
<1>5. CASE RefundFails(k)
  <2>1. tx' \in [Tx -> TransactionRecords]
    BY <1>5, PutTyped, MethodsTyped DEF RefundFails, Basic, TypeOK
  <2>2. FsmOK'
    BY <1>5, ShowTyped, StateNames DEF RefundFails
  <2>3. StoreOK' /\ TasksOK'
    BY <1>5, <1>0, GiveUpTyped, RecordsTyped, StepNames DEF RefundFails
  <2>4. PayoutOK' /\ drift' \in BOOLEAN /\ owed' \in [Cancellers -> Nat]
    BY <1>5, <1>0, RefundNotPaidTyped DEF RefundFails, Basic, TypeOK
  <2>. QED
    BY <1>5, <2>1, <2>2, <2>3, <2>4, PublishedTyped
    DEF RefundFails, Basic, TypeOK, FsmOK, StoreOK, TasksOK, PayoutOK
<1>6. CASE EndCancel(k)
  BY <1>6, <1>0, EndSaleTyped DEF EndCancel, Basic, TypeOK, FsmOK, StoreOK, TasksOK
<1>. QED
  BY <1>1, <1>2, <1>3, <1>4, <1>5, <1>6 DEF CancelTask

LEMMA ConfirmBasic ==
    ASSUME Basic, ConfirmTask
    PROVE  Basic'
<1>0. on["confirm"] \in Tx
  BY OnSale, TaskNames, LabelNames DEF ConfirmTask, PickupClosed, PickupCloseFails
<1>1. CASE PickupClosed
  <2>1. tx' \in [Tx -> TransactionRecords] /\ active' \in SaleIds
    BY <1>1, PutTyped, MethodsTyped, ClearActiveTyped DEF PickupClosed, Basic, TypeOK
  <2>2. FsmOK'
    BY <1>1, ShowTyped, StateNames DEF PickupClosed, Basic, TypeOK, FsmOK
  <2>3. StoreOK'
    BY <1>1, <1>0, WriteTyped, RecordsTyped, StepNames DEF PickupClosed, Basic
  <2>4. TasksOK'
    BY <1>1, GoKeeps, TaskNames DEF PickupClosed
  <2>5. idleRef' \in SaleIds \cup {Unarmed} /\ session' \in SaleIds
    BY <1>1, <2>1, PublishedTyped DEF PickupClosed, Basic, TypeOK, SaleIds
  <2>. QED
    BY <1>1, <2>1, <2>2, <2>3, <2>4, <2>5
    DEF PickupClosed, Basic, TypeOK, FsmOK, StoreOK, TasksOK
<1>2. CASE PickupCloseFails
  <2>1. tx' \in [Tx -> TransactionRecords]
    BY <1>2, PutTyped, MethodsTyped DEF PickupCloseFails, Basic, TypeOK
  <2>2. StoreOK'
    BY <1>2, <1>0, WriteTyped, RecordsTyped, StepNames DEF PickupCloseFails, Basic
  <2>3. TasksOK'
    BY <1>2, GoKeeps, TaskNames DEF PickupCloseFails
  <2>. QED
    BY <1>2, <2>1, <2>2, <2>3 DEF PickupCloseFails, Basic, TypeOK, StoreOK, TasksOK
<1>. QED
  BY <1>1, <1>2 DEF ConfirmTask

LEMMA TimeoutBasic ==
    ASSUME Basic, TimeoutTask
    PROVE  Basic'
<1>0. on["timeout"] \in Tx
  BY OnSale, TaskNames, LabelNames
  DEF TimeoutTask, TimeoutCloses, TimeoutClosed, TimeoutCloseFails
<1>1. CASE TimeoutCloses
  <2>1. FsmOK'
    BY <1>1, ShowTyped, StateNames DEF TimeoutCloses, Basic, TypeOK, FsmOK
  <2>2. StoreOK'
    BY <1>1, <1>0, WriteTyped, RecordsTyped, StepNames DEF TimeoutCloses, Basic
  <2>3. TasksOK'
    BY <1>1, <1>0, GoKeeps, TaskNames, LabelNames DEF TimeoutCloses
  <2>. QED
    BY <1>1, <2>1, <2>2, <2>3 DEF TimeoutCloses, Basic, TypeOK, FsmOK, StoreOK, TasksOK
<1>2. CASE TimeoutClosed
  <2>1. tx' \in [Tx -> TransactionRecords]
    BY <1>2, PutTyped, MethodsTyped DEF TimeoutClosed, Basic, TypeOK
  <2>2. FsmOK' /\ blockers' \subseteq Blockers
    BY <1>2, ShowTyped, StateNames DEF TimeoutClosed, Basic, TypeOK, Blockers
  <2>3. StoreOK'
    BY <1>2, <1>0, WriteTyped, RecordsTyped, StepNames DEF TimeoutClosed, Basic
  <2>4. TasksOK'
    BY <1>2, GoKeeps, TaskNames DEF TimeoutClosed
  <2>. QED
    BY <1>2, <2>1, <2>2, <2>3, <2>4, PublishedTyped
    DEF TimeoutClosed, Basic, TypeOK, FsmOK, StoreOK, TasksOK
<1>3. CASE TimeoutCloseFails
  <2>1. tx' \in [Tx -> TransactionRecords]
    BY <1>3, PutTyped, MethodsTyped DEF TimeoutCloseFails, Basic, TypeOK
  <2>2. FsmOK' /\ blockers' \subseteq Blockers
    BY <1>3, ShowTyped, StateNames DEF TimeoutCloseFails, Basic, TypeOK, Blockers
  <2>3. StoreOK'
    BY <1>3, <1>0, WriteTyped, RecordsTyped, StepNames DEF TimeoutCloseFails, Basic
  <2>4. TasksOK'
    BY <1>3, GoKeeps, TaskNames DEF TimeoutCloseFails
  <2>. QED
    BY <1>3, <2>1, <2>2, <2>3, <2>4, PublishedTyped
    DEF TimeoutCloseFails, Basic, TypeOK, SaleIds, FsmOK, StoreOK, TasksOK
<1>. QED
  BY <1>1, <1>2, <1>3 DEF TimeoutTask

(* The callers of cancel_purchase leave, and a recovery ends.              *)
LEMMA LeaveBasic ==
    ASSUME Basic, LeaveCancel \/ LeaveIdle \/ EndRecovery
    PROVE  Basic'
<1>1. CASE LeaveCancel
  <2>1. FsmOK' /\ active' \in SaleIds
    BY <1>1, ShowTyped, StateNames, ClearActiveTyped DEF LeaveCancel, Basic
  <2>2. TasksOK'
    BY <1>1, GoKeeps, TaskNames DEF LeaveCancel
  <2>. QED
    BY <1>1, <2>1, <2>2 DEF LeaveCancel, Basic, TypeOK, FsmOK, TasksOK
<1>2. CASE LeaveIdle
  <2>1. FsmOK' /\ active' \in SaleIds
    BY <1>2, ShowTyped, StateNames, ClearActiveTyped DEF LeaveIdle, Basic, TypeOK, FsmOK
  <2>2. TasksOK'
    BY <1>2, GoKeeps, TaskNames DEF LeaveIdle
  <2>. QED
    BY <1>2, <2>1, <2>2 DEF LeaveIdle, Basic, TypeOK, FsmOK, TasksOK
<1>3. CASE EndRecovery
  <2>1. tx' \in [Tx -> TransactionRecords] /\ active' \in SaleIds
    BY <1>3, PutTyped, MethodsTyped, ClearActiveTyped DEF EndRecovery, Basic, TypeOK
  <2>2. FsmOK' /\ blockers' \subseteq Blockers
    BY <1>3, ShowTyped, StateNames DEF EndRecovery, Basic, TypeOK, FsmOK
  <2>3. TasksOK'
    BY <1>3, GoKeeps, TaskNames DEF EndRecovery
  <2>4. idleRef' \in SaleIds \cup {Unarmed}
    BY <1>3, <2>1, PublishedTyped DEF EndRecovery, Basic, TypeOK
  <2>. QED
    BY <1>3, <2>1, <2>2, <2>3, <2>4 DEF EndRecovery, Basic, TypeOK, FsmOK, TasksOK
<1>. QED
  BY <1>1, <1>2, <1>3

LEMMA BeginCancelBasic ==
    ASSUME Basic, NEW k \in Cancellers, NEW t \in Tx, BeginCancel(k, t)
    PROVE  Basic'
<1>1. StoreOK'
  BY RecordsTyped, StepNames DEF BeginCancel, Basic, TypeOK, StoreOK
<1>2. TasksOK'
  BY StartKeeps, TaskNames, LabelNames DEF BeginCancel
<1>. QED
  BY <1>1, <1>2 DEF BeginCancel, Basic, TypeOK, StoreOK, TasksOK

LEMMA BeginConfirmBasic ==
    ASSUME Basic, NEW t \in Tx, BeginConfirm(t)
    PROVE  Basic'
<1>1. tx' \in [Tx -> TransactionRecords]
  BY PutTyped, MethodsTyped DEF BeginConfirm, Basic, TypeOK
<1>2. FsmOK'
  BY ShowTyped, StateNames DEF BeginConfirm, Basic, TypeOK, FsmOK
<1>3. StoreOK'
  BY WriteTyped, RecordsTyped, StepNames DEF BeginConfirm, Basic
<1>4. TasksOK'
  BY StartKeeps, StillKeeps, TaskNames, LabelNames DEF BeginConfirm
<1>. QED
  BY <1>1, <1>2, <1>3, <1>4 DEF BeginConfirm, Basic, TypeOK, FsmOK, StoreOK, TasksOK

LEMMA SupervisorsBasic ==
    ASSUME Basic, Supervisors
    PROVE  Basic'
<1>1. ASSUME NEW t \in Tx, PickupExpires(t)
      PROVE  Basic'
  <2>1. TasksOK'
    BY <1>1, StartKeeps, TaskNames, LabelNames DEF PickupExpires
  <2>. QED
    BY <1>1, <2>1, PublishedTyped DEF PickupExpires, Basic, TypeOK, TasksOK
<1>2. CASE IdleFires
  <2>1. IdleTarget \in Tx
    BY <1>2, StateAssumption DEF IdleFires, IdleTarget, Basic, TypeOK, SaleIds
  <2>. QED
    BY <1>2, <2>1, BeginCancelBasic, TaskNames DEF IdleFires
<1>3. CASE IdleRelaxes
  BY <1>3, StillKeeps DEF IdleRelaxes, Basic, TypeOK, TasksOK
<1>. QED
  BY <1>1, <1>2, <1>3 DEF Supervisors

LEMMA CustomerBasic ==
    ASSUME Basic, Customer
    PROVE  Basic'
<1>1. ASSUME NEW t \in Tx, TapBuy(t)
      PROVE  Basic'
  <2>1. TasksOK'
    BY <1>1, StartKeeps, TaskNames, LabelNames DEF TapBuy
  <2>. QED
    BY <1>1, <2>1, PublishedTyped DEF TapBuy, Basic, TypeOK, TasksOK
<1>2. ASSUME NEW b \in Bills, InsertBill(b)
      PROVE  Basic'
  <2>1. /\ queue' \in Seq(ValidatorEvents) /\ queue' # << >>
        /\ inserted' \in [SaleIds -> Nat]
    BY <1>2, StateAssumption DEF InsertBill, Basic, TypeOK, ValidatorEvents
  <2>2. TasksOK'
    BY <1>2, <2>1, StillKeeps DEF InsertBill
  <2>. QED
    BY <1>2, <2>1, <2>2 DEF InsertBill, Basic, TypeOK, TasksOK
<1>3. ASSUME NEW t \in Tx, TapPickup(t)
      PROVE  Basic'
  BY <1>3, BeginConfirmBasic DEF TapPickup
<1>4. ASSUME NEW t \in Tx, TapCancel(t)
      PROVE  Basic'
  BY <1>4, BeginCancelBasic, TaskNames DEF TapCancel
<1>5. CASE TapScreen
  BY <1>5, StillKeeps DEF TapScreen, Basic, TypeOK, TasksOK
<1>. QED
  BY <1>1, <1>2, <1>3, <1>4, <1>5 DEF Customer

LEMMA OperatorsBasic ==
    ASSUME Basic, Operators
    PROVE  Basic'
<1>1. ASSUME NEW t \in Tx, OrderDone(t)
      PROVE  Basic'
  BY <1>1, BeginConfirmBasic DEF OrderDone
<1>2. ASSUME NEW t \in Tx, OrderCancel(t)
      PROVE  Basic'
  BY <1>2, BeginCancelBasic, TaskNames DEF OrderCancel
<1>3. ASSUME NEW t \in Tx, BeginRecovery(t)
      PROVE  Basic'
  <2>1. FsmOK' /\ blockers' \subseteq Blockers
    BY <1>3, ShowTyped, StateNames DEF BeginRecovery, Basic, TypeOK, Blockers
  <2>2. TasksOK'
    BY <1>3, StartKeeps, StillKeeps, TaskNames, LabelNames DEF BeginRecovery
  <2>. QED
    BY <1>3, <2>1, <2>2, PublishedTyped DEF BeginRecovery, Basic, TypeOK, FsmOK, TasksOK
<1>4. CASE EnterServiceMode \/ ExitServiceMode
  <2>1. FsmOK'
    BY <1>4, ShowTyped, StateNames DEF EnterServiceMode, ExitServiceMode
  <2>2. TasksOK'
    BY <1>4, StillKeeps DEF EnterServiceMode, ExitServiceMode
  <2>. QED
    BY <1>4, <2>1, <2>2, PublishedTyped
    DEF EnterServiceMode, ExitServiceMode, Basic, TypeOK, FsmOK, TasksOK
<1>5. CASE RefreshStatus
  BY <1>5, StillKeeps, PublishedTyped DEF RefreshStatus, Basic, TypeOK, TasksOK
<1>6. CASE ClearDrift
  BY <1>6, StillKeeps DEF ClearDrift, Basic, TypeOK, TasksOK
<1>7. CASE ClearRestricted
  BY <1>7, StillKeeps DEF ClearRestricted, Basic, TypeOK, TasksOK, SaleIds
<1>. QED
  BY <1>1, <1>2, <1>3, <1>4, <1>5, <1>6, <1>7 DEF Operators

LEMMA EnvironmentBasic ==
    ASSUME Basic, Environment
    PROVE  Basic'
<1>1. CASE ValidatorBreaks
  <2>1. queue' \in Seq(ValidatorEvents) /\ queue' # << >>
    BY <1>1 DEF ValidatorBreaks, Basic, TypeOK, ValidatorEvents
  <2>2. TasksOK'
    BY <1>1, <2>1, StillKeeps DEF ValidatorBreaks
  <2>. QED
    BY <1>1, <2>1, <2>2 DEF ValidatorBreaks, Basic, TypeOK, TasksOK
<1>2. CASE HealthBlocks
  <2>1. blockers' \subseteq Blockers
    BY <1>2 DEF HealthBlocks, Basic, TypeOK, Blockers
  <2>2. TasksOK'
    BY <1>2, StillKeeps DEF HealthBlocks
  <2>. QED
    BY <1>2, <2>1, <2>2, PublishedTyped DEF HealthBlocks, Basic, TypeOK, TasksOK, SaleIds
<1>3. CASE HealthUnblocks
  BY <1>3, StillKeeps DEF HealthUnblocks, Basic, TypeOK, TasksOK
<1>. QED
  BY <1>1, <1>2, <1>3 DEF Environment

LEMMA StepBasic == Basic /\ [Next]_vars => Basic'
<1> SUFFICES ASSUME Basic, [Next]_vars PROVE Basic'
  OBVIOUS
<1>1. CASE UNCHANGED vars
  BY <1>1 DEF vars, Basic, TypeOK, TasksHaveSales, EventInQueue, AtRest
<1>2. CASE Next
  BY <1>2, CheckoutBasic, ValidatorBasic, CancelBasic, LeaveBasic, ConfirmBasic,
     TimeoutBasic, SupervisorsBasic, CustomerBasic, OperatorsBasic, EnvironmentBasic
  DEF Next
<1>. QED
  BY <1>1, <1>2

LEMMA BasicHolds == Spec => []Basic
BY InitBasic, StepBasic, PTL DEF Spec

(* Every variable keeps its type: sales are well-formed records whatever   *)
(* methods late callers invoke on them, payouts and bills never make an    *)
(* amount negative, and the validator task never reads an empty queue.     *)
THEOREM TypeCorrect == Spec => []TypeOK
<1>1. Basic => TypeOK
  BY DEF Basic
<1>. QED
  BY BasicHolds, <1>1, PTL

-----------------------------------------------------------------------------
(* No product leaves the machine before it is paid.                        *)

(* The cash of every sale advances in this step.                           *)
CashAdvancing == \A u \in Tx : Advances(tx[u], tx'[u])

(* The step leaves the validator task alone.                               *)
ValidatorStays ==
    pc'["validator"] = pc["validator"] /\ on'["validator"] = on["validator"]

(* The step starts no inventory check.                                     *)
NoNewCheck ==
    pc'["checkout"] = "sensor" =>
        pc["checkout"] = "sensor" /\ on'["checkout"] = on["checkout"]

SaleSafe == FreshSales /\ CompletingPaid /\ PaidBeforeVend

LEMMA InvariantParts == SaleInvariant <=> Basic /\ SaleSafe
BY DEF SaleInvariant, Basic, SaleSafe

-----------------------------------------------------------------------------
(* Steps that keep the parts of the invariant.                             *)

LEMMA PutAdvances ==
    ASSUME TypeOK, NEW t, NEW r, t \in Tx => Advances(tx[t], r), Put(t, r)
    PROVE  CashAdvancing
BY AdvancesReflexive DEF TypeOK, Put, CashAdvancing

LEMMA StaysAdvances ==
    ASSUME TypeOK, tx' = tx
    PROVE  CashAdvancing
BY AdvancesReflexive DEF TypeOK, CashAdvancing

(* A task that goes on, or starts, leaves the others where they are.       *)
LEMMA OthersStay ==
    ASSUME TypeOK, NEW k \in Tasks, NEW j \in Tasks, j # k, NEW t, NEW label,
           Go(k, label) \/ Start(k, t, label)
    PROVE  pc'[j] = pc[j] /\ on'[j] = on[j]
BY DEF TypeOK, Go, Start

LEMMA CheckoutGoes ==
    ASSUME TypeOK, NEW label, label # "sensor", Go("checkout", label)
    PROVE  NoNewCheck
BY TaskNames DEF TypeOK, Go, NoNewCheck

LEMMA FreshKept ==
    ASSUME Basic, FreshSales, CashAdvancing, NoNewCheck
    PROVE  FreshSales'
BY DEF FreshSales, CashAdvancing, NoNewCheck, Advances, Born

LEMMA CompletingOnSale ==
    ASSUME Basic, Completing
    PROVE  on["validator"] \in Tx
BY OnSale, TaskNames, LabelNames DEF Completing

(* Products are released for the sale of a completing task only.           *)
VendsForCompleting ==
    \A u \in Tx : vended'[u] > 0 => vended[u] > 0 \/ (Completing /\ u = on["validator"])

LEMMA PaidKept ==
    ASSUME Basic, SaleSafe, CashAdvancing, VendsForCompleting,
           \A u \in Tx : tx'[u] \in TransactionRecords
    PROVE  PaidBeforeVend'
<1> SUFFICES ASSUME NEW u \in Tx, vended'[u] > 0
             PROVE  tx'[u].accepted >= Price
  BY DEF PaidBeforeVend
<1>1. tx[u].accepted >= Price
  BY DEF VendsForCompleting, SaleSafe, PaidBeforeVend, CompletingPaid
<1>2. tx'[u].accepted >= tx[u].accepted
  BY DEF CashAdvancing, Advances
<1>3. tx[u].accepted \in Nat /\ tx'[u].accepted \in Nat /\ Price \in Nat
  BY PriceAssumption DEF Basic, TypeOK, TransactionRecords
<1>. QED
  BY <1>1, <1>2, <1>3

LEMMA CompletingKept ==
    ASSUME Basic, CompletingPaid, CashAdvancing,
           \A u \in Tx : tx'[u] \in TransactionRecords,
           Completing' => Completing /\ on'["validator"] = on["validator"]
    PROVE  CompletingPaid'
BY CompletingOnSale, PriceAssumption
DEF Basic, TypeOK, CompletingPaid, CashAdvancing, Advances, TransactionRecords

LEMMA RecordsStayTyped ==
    ASSUME Basic, [Next]_vars
    PROVE  \A u \in Tx : tx'[u] \in TransactionRecords
BY StepBasic DEF Basic, TypeOK

LEMMA SafeFrame ==
    ASSUME Basic, SaleSafe, [Next]_vars, CashAdvancing, NoNewCheck, VendsForCompleting,
           Completing' => Completing /\ on'["validator"] = on["validator"]
    PROVE  SaleSafe'
BY RecordsStayTyped, FreshKept, PaidKept, CompletingKept DEF SaleSafe

(* A step of another task than the validator's releases nothing.           *)
LEMMA OtherTaskFrame ==
    ASSUME Basic, SaleSafe, [Next]_vars, CashAdvancing, ValidatorStays, NoNewCheck,
           UNCHANGED vended
    PROVE  SaleSafe'
<1>1. Completing' => Completing /\ on'["validator"] = on["validator"]
  BY DEF Completing, ValidatorStays
<1>. QED
  BY <1>1, SafeFrame DEF VendsForCompleting

-----------------------------------------------------------------------------
(* The actions.                                                            *)

LEMMA CheckoutSafe ==
    ASSUME Basic, SaleSafe, [Next]_vars, CheckoutTask
    PROVE  SaleSafe'
<1>1. ValidatorStays /\ UNCHANGED vended
  <2>1. \E label : Go("checkout", label)
    BY DEF CheckoutTask, SensorMismatch, RefusePurchase, CreatePurchase, StopFails,
           StartPayment, AcceptanceEnabled, AcceptanceNotEnabled
  <2>2. UNCHANGED vended
    BY DEF CheckoutTask, SensorMismatch, RefusePurchase, CreatePurchase, StopFails,
           StartPayment, AcceptanceEnabled, AcceptanceNotEnabled
  <2>. QED
    BY <2>1, <2>2, OthersStay, TaskNames DEF Basic, ValidatorStays
<1>2. NoNewCheck
  BY CheckoutGoes
  DEF CheckoutTask, SensorMismatch, RefusePurchase, CreatePurchase, StopFails,
      StartPayment, AcceptanceEnabled, AcceptanceNotEnabled, Basic
<1>3. CASE SensorMismatch \/ RefusePurchase \/ StopFails \/ AcceptanceEnabled
  <2>1. CashAdvancing
    BY <1>3, StaysAdvances
    DEF SensorMismatch, RefusePurchase, StopFails, AcceptanceEnabled, Basic
  <2>. QED
    BY <1>1, <1>2, <2>1, OtherTaskFrame
<1>4. CASE AcceptanceNotEnabled
  <2>1. CashAdvancing
    BY <1>4, PutAdvances, MethodsAdvance DEF AcceptanceNotEnabled, Basic, TypeOK
  <2>. QED
    BY <1>1, <1>2, <2>1, OtherTaskFrame
<1>. DEFINE t == on["checkout"]
(* The new transaction replaces a record that never had a session.         *)
<1>5. CASE CreatePurchase
  <2>1. t \in Tx
    BY <1>5, OnSale, TaskNames, LabelNames DEF CreatePurchase
  <2>2. tx[t].session = "none" /\ tx[t].accepted = 0
    BY <1>5, <2>1 DEF CreatePurchase, SaleSafe, FreshSales
  <2>3. Advances(tx[t], NewTransaction)
    BY <2>2 DEF Advances, NewTransaction, UnbornTransaction
  <2>4. CashAdvancing
    BY <1>5, <2>3, PutAdvances DEF CreatePurchase, Basic
  <2>. QED
    BY <1>1, <1>2, <2>4, OtherTaskFrame
(* A session opens, on a record that keeps its cash.                       *)
<1>6. CASE StartPayment
  <2>1. t \in Tx
    BY <1>6, OnSale, TaskNames, LabelNames DEF StartPayment
  <2>2. CASE tx' = tx
    BY <1>1, <1>2, <2>2, StaysAdvances, OtherTaskFrame DEF Basic
  <2>3. CASE \E reserved \in BOOLEAN : Put(t, StartCashSession(tx[t], reserved))
    <3>1. /\ tx'[t].accepted = tx[t].accepted
          /\ tx'[t].session = "accepting" /\ tx'[t].status = "accepting_cash"
      <4>1. PICK reserved \in BOOLEAN : tx'[t] = StartCashSession(tx[t], reserved)
        BY <2>1, <2>3 DEF Put, Basic, TypeOK
      <4>2. tx[t] \in TransactionRecords
        BY <2>1 DEF Basic, TypeOK
      <4>. QED
        BY <4>1, <4>2, SessionIsRecord DEF SameMoney
    <3>2. \A u \in Tx : u # t => tx'[u] = tx[u]
      BY <2>1, <2>3 DEF Put, Basic, TypeOK
    <3>3. pc'["checkout"] # "sensor"
      BY <1>6, TaskNames DEF StartPayment, Go, Basic, TypeOK
    <3>4. FreshSales'
      BY <3>1, <3>2, <3>3 DEF SaleSafe, FreshSales, Born
    <3>5. \A u \in Tx : tx'[u].accepted = tx[u].accepted
      BY <3>1, <3>2
    <3>6. PaidBeforeVend'
      BY <1>1, <3>5 DEF SaleSafe, PaidBeforeVend
    <3>7. CompletingPaid'
      BY <1>1, <3>5, CompletingOnSale
      DEF SaleSafe, CompletingPaid, Completing, ValidatorStays
    <3>. QED
      BY <3>4, <3>6, <3>7 DEF SaleSafe
  <2>. QED
    BY <1>6, <2>2, <2>3 DEF StartPayment
<1>. QED
  BY <1>3, <1>4, <1>5, <1>6 DEF CheckoutTask

LEMMA ValidatorGoes ==
    ASSUME TypeOK, NEW label, NEW t, Go("validator", label) \/ Start("validator", t, label)
    PROVE  NoNewCheck /\ pc'["validator"] = label
<1>1. pc'["validator"] = label
  BY TaskNames DEF TypeOK, Go, Start
<1>2. pc'["checkout"] = pc["checkout"] /\ on'["checkout"] = on["checkout"]
  BY OthersStay, TaskNames
<1>. QED
  BY <1>1, <1>2 DEF NoNewCheck

LEMMA ValidatorKeepsSale ==
    ASSUME TypeOK, NEW label, Go("validator", label), Completing
    PROVE  Completing' => Completing /\ on'["validator"] = on["validator"]
BY TaskNames DEF TypeOK, Go, Completing

(* Before the threshold.                                                   *)
LEMMA BillsSafe ==
    ASSUME Basic, SaleSafe, [Next]_vars,
           TakeEvent \/ CreditBill \/ ValidatorFault \/ BillNotEnough
    PROVE  SaleSafe'
<1>1. ~Completing' /\ NoNewCheck
  <2>1. \E label \in {"rest", "dead", "event", "credited"} :
            Go("validator", label) \/ Start("validator", active, label)
    BY DEF TakeEvent, CreditBill, ValidatorFault, BillNotEnough
  <2>. QED
    BY <2>1, ValidatorGoes DEF Completing, Basic
<1>2. VendsForCompleting
  BY DEF TakeEvent, CreditBill, ValidatorFault, BillNotEnough, VendsForCompleting
<1>3. CASE TakeEvent \/ BillNotEnough
  <2>1. CashAdvancing
    BY <1>3, StaysAdvances DEF TakeEvent, BillNotEnough, Basic
  <2>. QED
    BY <1>1, <1>2, <2>1, SafeFrame
<1>4. CASE CreditBill
  <2>1. CashAdvancing
    BY <1>4, EventTyped, StaysAdvances, PutAdvances, CashAdvances
    DEF CreditBill, ValidatorEvents, Basic, TypeOK
  <2>. QED
    BY <1>1, <1>2, <2>1, SafeFrame
<1>5. CASE ValidatorFault
  <2>1. CashAdvancing
    BY <1>5, StaysAdvances, PutAdvances, MethodsAdvance DEF ValidatorFault, Basic, TypeOK
  <2>. QED
    BY <1>1, <1>2, <2>1, SafeFrame
<1>. QED
  BY <1>3, <1>4, <1>5

(* The threshold: the task starts completing a sale that can be confirmed. *)
LEMMA ThresholdSafe ==
    ASSUME Basic, SaleSafe, [Next]_vars, BeginCompletion
    PROVE  SaleSafe'
<1> DEFINE t == on["validator"]
<1>1. t \in Tx
  BY OnSale, TaskNames, LabelNames DEF BeginCompletion
<1>2. tx[t] \in TransactionRecords /\ CanConfirm(tx[t])
  BY <1>1 DEF BeginCompletion, Basic, TypeOK
<1>3. CashAdvancing
  BY <1>2, ConfirmAdvances, PutAdvances DEF BeginCompletion, Basic
<1>4. NoNewCheck
  BY ValidatorGoes DEF BeginCompletion, Basic
<1>5. FreshSales'
  BY <1>3, <1>4, FreshKept DEF SaleSafe
<1>6. PaidBeforeVend'
  BY <1>3, RecordsStayTyped, PaidKept DEF BeginCompletion, VendsForCompleting
<1>7. tx'[t].accepted >= Price
  BY <1>1, <1>2, ConfirmAdvances DEF BeginCompletion, Put, Basic, TypeOK
<1>8. on'["validator"] = t
  BY TaskNames DEF BeginCompletion, Go
<1>. QED
  BY <1>5, <1>6, <1>7, <1>8 DEF SaleSafe, CompletingPaid

(* Past the threshold.                                                     *)
LEMMA CompletionSafe ==
    ASSUME Basic, SaleSafe, [Next]_vars,
           \/ CompletionDisabled \/ CompletionDisableFails \/ RequestChange
           \/ ChangeDispensed \/ ChangeFails \/ Repaid \/ RepayFails
           \/ AuthorizeSale \/ MotorDone \/ MotorFails \/ WindowOpens \/ WindowOpenFails
    PROVE  SaleSafe'
<1>1. Completing
  BY DEF CompletionDisabled, CompletionDisableFails, RequestChange, ChangeDispensed,
         ChangeFails, Repaid, RepayFails, AuthorizeSale, MotorDone, MotorFails,
         WindowOpens, WindowOpenFails, Completing
<1>2. \E label : Go("validator", label)
  BY DEF CompletionDisabled, CompletionDisableFails, RequestChange, ChangeDispensed,
         ChangeFails, Repaid, RepayFails, AuthorizeSale, MotorDone, MotorFails,
         WindowOpens, WindowOpenFails, FaultSale
<1>3. /\ NoNewCheck
      /\ Completing' => Completing /\ on'["validator"] = on["validator"]
  BY <1>1, <1>2, ValidatorGoes, ValidatorKeepsSale DEF Basic
<1>4. CASE Repaid \/ RequestChange
  <2>1. CashAdvancing /\ VendsForCompleting
    BY <1>4, StaysAdvances DEF Repaid, RequestChange, VendsForCompleting, Basic
  <2>. QED
    BY <1>3, <2>1, SafeFrame
<1>5. CASE \/ CompletionDisabled \/ CompletionDisableFails
           \/ ChangeDispensed \/ ChangeFails \/ RepayFails
  <2>1. CashAdvancing
    BY <1>5, StaysAdvances, PutAdvances, MethodsAdvance
    DEF CompletionDisabled, CompletionDisableFails, DisableFails, ChangeDispensed,
        ChangeFails, RepayFails, Basic, TypeOK
  <2>2. VendsForCompleting
    BY <1>5 DEF CompletionDisabled, CompletionDisableFails, ChangeDispensed, ChangeFails,
                RepayFails, VendsForCompleting
  <2>. QED
    BY <1>3, <2>1, <2>2, SafeFrame
<1>6. CASE AuthorizeSale \/ WindowOpens \/ WindowOpenFails
  <2>1. CashAdvancing
    BY <1>6, StaysAdvances, PutAdvances, MethodsAdvance
    DEF AuthorizeSale, WindowOpens, WindowOpenFails, FaultSale, Basic, TypeOK
  <2>2. VendsForCompleting
    BY <1>6 DEF AuthorizeSale, WindowOpens, WindowOpenFails, VendsForCompleting
  <2>. QED
    BY <1>3, <2>1, <2>2, SafeFrame
(* The motor turns, surely or perhaps, for the sale of this task.          *)
<1>7. CASE MotorDone \/ MotorFails
  <2>1. CashAdvancing
    BY <1>7, StaysAdvances, PutAdvances, MethodsAdvance
    DEF MotorDone, MotorFails, FaultSale, Basic, TypeOK
  <2>2. VendsForCompleting
    BY <1>1, <1>7 DEF MotorDone, MotorFails, VendsForCompleting, Basic, TypeOK
  <2>. QED
    BY <1>3, <2>1, <2>2, SafeFrame
<1>. QED
  BY <1>4, <1>5, <1>6, <1>7

LEMMA ValidatorSafe ==
    ASSUME Basic, SaleSafe, [Next]_vars, ValidatorTask
    PROVE  SaleSafe'
BY BillsSafe, ThresholdSafe, CompletionSafe DEF ValidatorTask

(* A task other than the checkout and the validator goes on or starts.     *)
LEMMA OtherTask ==
    ASSUME TypeOK, NEW k \in Tasks \ {"checkout", "validator"}, NEW t, NEW label,
           Go(k, label) \/ Start(k, t, label) \/ UNCHANGED <<pc, on>>
    PROVE  ValidatorStays /\ NoNewCheck
BY OthersStay, TaskNames DEF ValidatorStays, NoNewCheck

LEMMA CancelSafely ==
    ASSUME Basic, SaleSafe, [Next]_vars, NEW k \in Cancellers, CancelTask(k)
    PROVE  SaleSafe'
<1>1. ValidatorStays /\ NoNewCheck
  <2>1. \E label : Go(k, label)
    BY DEF CancelTask, CancelDisabled, CancelDisableFails, RequestRefund, RefundDispensed,
           RefundFails, EndCancel, EndSale, GiveUp
  <2>2. k \in Tasks \ {"checkout", "validator"}
    BY TaskNames DEF Cancellers
  <2>. QED
    BY <2>1, <2>2, OtherTask DEF Basic
<1>2. UNCHANGED vended
  BY DEF CancelTask, CancelDisabled, CancelDisableFails, RequestRefund, RefundDispensed,
         RefundFails, EndCancel
<1>3. \A r \in TransactionRecords : Advances(r, Cancel(ReleaseReserve(r)))
  <2> SUFFICES ASSUME NEW r \in TransactionRecords
               PROVE  Advances(r, Cancel(ReleaseReserve(r)))
    OBVIOUS
  <2>1. /\ ReleaseReserve(r) \in TransactionRecords
        /\ Cancel(ReleaseReserve(r)) \in TransactionRecords
    BY MethodsTyped
  <2>2. /\ Advances(r, ReleaseReserve(r))
        /\ Advances(ReleaseReserve(r), Cancel(ReleaseReserve(r)))
    BY <2>1, MethodsAdvance
  <2>. QED
    BY <2>1, <2>2 DEF Advances, TransactionRecords
<1>4. CashAdvancing
  BY <1>3, StaysAdvances, PutAdvances, MethodsAdvance
  DEF CancelTask, CancelDisabled, CancelDisableFails, DisableFails, RequestRefund,
      RefundDispensed, RefundFails, EndCancel, EndSale, Basic, TypeOK
<1>. QED
  BY <1>1, <1>2, <1>4, OtherTaskFrame

LEMMA ConfirmSafe ==
    ASSUME Basic, SaleSafe, [Next]_vars, ConfirmTask
    PROVE  SaleSafe'
<1>1. ValidatorStays /\ NoNewCheck
  BY OtherTask, TaskNames DEF ConfirmTask, PickupClosed, PickupCloseFails, Basic
<1>2. CashAdvancing
  BY PutAdvances, MethodsAdvance DEF ConfirmTask, PickupClosed, PickupCloseFails, Basic, TypeOK
<1>3. UNCHANGED vended
  BY DEF ConfirmTask, PickupClosed, PickupCloseFails
<1>. QED
  BY <1>1, <1>2, <1>3, OtherTaskFrame

LEMMA TimeoutSafe ==
    ASSUME Basic, SaleSafe, [Next]_vars, TimeoutTask
    PROVE  SaleSafe'
<1>1. ValidatorStays /\ NoNewCheck
  BY OtherTask, TaskNames
  DEF TimeoutTask, TimeoutCloses, TimeoutClosed, TimeoutCloseFails, Basic
<1>2. CashAdvancing
  BY StaysAdvances, PutAdvances, MethodsAdvance
  DEF TimeoutTask, TimeoutCloses, TimeoutClosed, TimeoutCloseFails, Basic, TypeOK
<1>3. UNCHANGED vended
  BY DEF TimeoutTask, TimeoutCloses, TimeoutClosed, TimeoutCloseFails
<1>. QED
  BY <1>1, <1>2, <1>3, OtherTaskFrame

LEMMA LeaveSafe ==
    ASSUME Basic, SaleSafe, [Next]_vars, LeaveCancel \/ LeaveIdle \/ EndRecovery
    PROVE  SaleSafe'
<1>1. ValidatorStays /\ NoNewCheck
  BY OtherTask, TaskNames DEF LeaveCancel, LeaveIdle, EndRecovery, Basic
<1>2. CashAdvancing
  BY StaysAdvances, PutAdvances, MethodsAdvance
  DEF LeaveCancel, LeaveIdle, EndRecovery, Basic, TypeOK
<1>3. UNCHANGED vended
  BY DEF LeaveCancel, LeaveIdle, EndRecovery
<1>. QED
  BY <1>1, <1>2, <1>3, OtherTaskFrame

(* What starts a cancellation, a confirmation, a timeout or a recovery.    *)
LEMMA StartsSafe ==
    ASSUME Basic, SaleSafe, [Next]_vars, NEW t \in Tx,
           \/ BeginCancel("cancel", t) \/ BeginCancel("idle", t)
           \/ BeginConfirm(t) \/ PickupExpires(t) \/ BeginRecovery(t)
    PROVE  SaleSafe'
<1>1. ValidatorStays /\ NoNewCheck
  BY OtherTask, TaskNames DEF BeginCancel, BeginConfirm, PickupExpires, BeginRecovery, Basic
<1>2. CashAdvancing
  BY StaysAdvances, PutAdvances, MethodsAdvance
  DEF BeginCancel, BeginConfirm, PickupExpires, BeginRecovery, Basic, TypeOK
<1>3. UNCHANGED vended
  BY DEF BeginCancel, BeginConfirm, PickupExpires, BeginRecovery
<1>. QED
  BY <1>1, <1>2, <1>3, OtherTaskFrame

(* A purchase begins: an inventory check starts, of a sale not yet born.   *)
LEMMA TapBuySafe ==
    ASSUME Basic, SaleSafe, [Next]_vars, NEW t \in Tx, TapBuy(t)
    PROVE  SaleSafe'
<1>1. pc'["validator"] = pc["validator"] /\ on'["validator"] = on["validator"]
  BY OthersStay, TaskNames DEF TapBuy, Basic
<1>2. UNCHANGED <<tx, vended>>
  BY DEF TapBuy
<1>3. on'["checkout"] = t /\ ~Born(t)
  BY TaskNames DEF TapBuy, Start, Basic, TypeOK
<1>4. FreshSales'
  BY <1>2, <1>3 DEF SaleSafe, FreshSales, Born
<1>5. CompletingPaid'
  BY <1>1, <1>2 DEF SaleSafe, CompletingPaid, Completing
<1>6. PaidBeforeVend'
  BY <1>2 DEF SaleSafe, PaidBeforeVend
<1>. QED
  BY <1>4, <1>5, <1>6 DEF SaleSafe

(* The steps that touch neither a task nor a transaction.                  *)
LEMMA StillSafe ==
    ASSUME Basic, SaleSafe, UNCHANGED <<tx, pc, on, vended>>
    PROVE  SaleSafe'
BY DEF SaleSafe, FreshSales, Born, CompletingPaid, Completing, PaidBeforeVend

LEMMA StepSafe ==
    ASSUME Basic, SaleSafe, [Next]_vars
    PROVE  SaleSafe'
<1>1. CASE UNCHANGED vars
  BY <1>1, StillSafe DEF vars
<1>2. CASE CheckoutTask \/ ValidatorTask \/ ConfirmTask \/ TimeoutTask
  BY <1>2, CheckoutSafe, ValidatorSafe, ConfirmSafe, TimeoutSafe
<1>3. CASE \E k \in Cancellers : CancelTask(k)
  BY <1>3, CancelSafely
<1>4. CASE LeaveCancel \/ LeaveIdle \/ EndRecovery
  BY <1>4, LeaveSafe
<1>5. CASE Supervisors
  <2>1. CASE IdleFires
    <3>1. IdleTarget \in Tx
      BY <2>1, StateAssumption DEF IdleFires, IdleTarget, Basic, TypeOK, SaleIds
    <3>. QED
      BY <2>1, <3>1, StartsSafe DEF IdleFires
  <2>2. CASE IdleRelaxes
    BY <2>2, StillSafe DEF IdleRelaxes
  <2>. QED
    BY <1>5, <2>1, <2>2, StartsSafe DEF Supervisors
<1>6. CASE Customer
  <2>1. ASSUME NEW b \in Bills, InsertBill(b)
        PROVE  SaleSafe'
    BY <2>1, StillSafe DEF InsertBill
  <2>2. CASE TapScreen
    BY <2>2, StillSafe DEF TapScreen
  <2>3. ASSUME NEW t \in Tx, TapPickup(t) \/ TapCancel(t)
        PROVE  SaleSafe'
    BY <2>3, StartsSafe DEF TapPickup, TapCancel
  <2>. QED
    BY <1>6, <2>1, <2>2, <2>3, TapBuySafe DEF Customer
<1>7. CASE Operators
  <2>1. ASSUME NEW t \in Tx, OrderDone(t) \/ OrderCancel(t) \/ BeginRecovery(t)
        PROVE  SaleSafe'
    BY <2>1, StartsSafe DEF OrderDone, OrderCancel
  <2>2. CASE EnterServiceMode \/ ExitServiceMode \/ RefreshStatus \/ ClearDrift
             \/ ClearRestricted
    BY <2>2, StillSafe
    DEF EnterServiceMode, ExitServiceMode, RefreshStatus, ClearDrift, ClearRestricted
  <2>. QED
    BY <1>7, <2>1, <2>2 DEF Operators
<1>8. CASE Environment
  BY <1>8, StillSafe DEF Environment, ValidatorBreaks, HealthBlocks, HealthUnblocks
<1>. QED
  BY <1>1, <1>2, <1>3, <1>4, <1>5, <1>6, <1>7, <1>8 DEF Next

-----------------------------------------------------------------------------
(* The theorems.                                                           *)

(* The inductive invariant: besides the types and the promise itself, a    *)
(* sale without a session has no cash, and the sale of a validator task    *)
(* past its threshold is still paid.                                       *)
THEOREM InvariantHolds == Spec => []SaleInvariant
<1>1. Init => SaleInvariant
  <2>1. Init => SaleSafe
    BY TaskNames
    DEF Init, SaleSafe, FreshSales, Born, UnbornTransaction, CompletingPaid, Completing,
        PaidBeforeVend
  <2>. QED
    BY <2>1, InitBasic, InvariantParts
<1>2. SaleInvariant /\ [Next]_vars => SaleInvariant'
  BY StepBasic, StepSafe, InvariantParts DEF SaleInvariant, Basic, SaleSafe
<1>. QED
  BY <1>1, <1>2, PTL DEF Spec

(* A product is released only when the price of its sale has been stacked, *)
(* whatever cancellations, repeated bills, timeouts and operators do while *)
(* complete_payment and handle_vend_authorized wait for their devices.     *)
THEOREM NoVendUnpaid == Spec => []PaidBeforeVend
<1>1. SaleInvariant => PaidBeforeVend
  BY DEF SaleInvariant
<1>. QED
  BY InvariantHolds, <1>1, PTL

-----------------------------------------------------------------------------
(***************************************************************************)
(* One release per sale, after its change.  Customers who wait until a     *)
(* bill has been counted never leave a second one behind for a sale that   *)
(* is paid: the bill at the head of the queue is always for a sale that    *)
(* still owes, so no sale passes the threshold twice.                      *)
(***************************************************************************)

(* The money of every sale stands, except that a sale without cash may be  *)
(* created, and open sessions stay.                                        *)
MoneyStands ==
    \A u \in Tx :
        /\ \/ SameMoney(tx[u], tx'[u])
           \/ tx[u].session = "none" /\ tx'[u].accepted = 0
        /\ tx[u].session # "none" => tx'[u].session # "none"

(* Nothing comes back into the machine, and the step dispenses no change.  *)
NoChangePaid ==
    \A u \in Tx : /\ paid'[u] >= paid[u]
                  /\ answers'[u]["change"] = answers[u]["change"]

(* The sale in use stays, ends or is a new one.                            *)
ActiveMoves ==
    \/ active' = active \/ active' = NoTx
    \/ active' \in Tx /\ tx'[active'].accepted = 0

OnceBasic == Basic /\ SaleSafe /\ OnceInvariant

LEMMA PutStands ==
    ASSUME TypeOK, NEW t, NEW r, Put(t, r),
           t \in Tx => SameMoney(tx[t], r) /\ Advances(tx[t], r)
    PROVE  MoneyStands
BY DEF TypeOK, Put, MoneyStands, SameMoney, Advances

LEMMA StaysStands ==
    ASSUME TypeOK, tx' = tx
    PROVE  MoneyStands
BY DEF MoneyStands, SameMoney

LEMMA NothingPaid ==
    ASSUME TypeOK, UNCHANGED <<paid, answers>>
    PROVE  NoChangePaid
BY DEF NoChangePaid, TypeOK

(* A refund, on whichever request, leaves the answer about the change.     *)
LEMMA RefundPaysNoChange ==
    ASSUME TypeOK, NEW t \in Tx, NEW amounts, amounts \subseteq Nat, NEW answer,
           Dispense(t, "refund", amounts, answer) \/ DispenseRaises(t, "refund", amounts)
    PROVE  NoChangePaid
<1>1. ASSUME NEW amount \in Nat, PayBack(t, amount)
      PROVE  \A u \in Tx : paid'[u] >= paid[u]
  BY <1>1 DEF PayBack, TypeOK
<1>2. \A u \in Tx : paid'[u] >= paid[u]
  BY <1>1 DEF Dispense, DispenseRaises, TypeOK
<1>3. \A u \in Tx : answers'[u]["change"] = answers[u]["change"]
  BY DEF Dispense, DispenseRaises, TypeOK, Requests
<1>. QED
  BY <1>2, <1>3 DEF NoChangePaid

LEMMA RefundNotPaidPaysNoChange ==
    ASSUME TypeOK, NEW t \in Tx, NEW amount \in Nat, RefundNotPaid(t, amount)
    PROVE  NoChangePaid
<1>1. 0 .. (amount - 1) \subseteq Nat /\ 0 .. amount \subseteq Nat
  OBVIOUS
<1>. QED
  BY <1>1, NothingPaid, RefundPaysNoChange DEF RefundNotPaid

(* What the sale of a task at work keeps while the money stands.           *)
LEMMA OweKept ==
    ASSUME Basic, MoneyStands, Price > 0, NEW t, t \in Tx \/ t = NoTx, StillOwes(t)
    PROVE  StillOwes(t)'
BY StateAssumption, PriceAssumption DEF StillOwes, MoneyStands, SameMoney, CanConfirm

(* A fault waits behind what waits already.                                *)
LEMMA FaultWaits ==
    ASSUME TypeOK, queue # << >> => HoldsNoBill(Tail(queue)),
           queue' = Append(queue, [kind |-> "fault", bill |-> 0])
    PROVE  /\ queue' # << >> /\ HoldsNoBill(Tail(queue'))
           /\ Head(queue').kind = "stacked" => queue # << >> /\ Head(queue).kind = "stacked"
<1> DEFINE e == [kind |-> "fault", bill |-> 0]
<1>0. queue \in Seq(ValidatorEvents) /\ e \in ValidatorEvents /\ e.kind # "stacked"
  BY DEF TypeOK, ValidatorEvents
<1> HIDE DEF e
<1>1. CASE queue = << >>
  <2>1. queue' = <<e>> /\ Tail(queue') = << >> /\ Head(queue') = e
    BY <1>0, <1>1 DEF e
  <2>. QED
    BY <1>0, <2>1 DEF HoldsNoBill
<1>2. CASE queue # << >>
  <2>1. Head(queue') = Head(queue) /\ queue' # << >>
    BY <1>0, <1>2 DEF e
  <2>2. Len(queue') = Len(queue) + 1 /\ Len(queue) \in Nat \ {0}
    BY <1>0, <1>2 DEF e
  <2>3. /\ Len(Tail(queue')) = Len(queue)
        /\ Len(Tail(queue)) = Len(queue) - 1
    BY <1>0, <1>2, <2>2 DEF e
  <2>4. \A i \in 1 .. Len(queue) : Tail(queue')[i] = queue'[i + 1]
    BY <1>0, <1>2, <2>2 DEF e
  <2>5. \A i \in 1 .. Len(queue) - 1 : queue'[i + 1] = Tail(queue)[i]
    BY <1>0, <1>2, <2>2 DEF e
  <2>6. queue'[Len(queue) + 1] = e
    BY <1>0 DEF e
  <2>7. ASSUME NEW i \in 1 .. Len(Tail(queue'))
        PROVE  Tail(queue')[i].kind # "stacked"
    <3>1. CASE i \in 1 .. Len(queue) - 1
      BY <1>2, <2>2, <2>3, <2>4, <2>5, <3>1 DEF HoldsNoBill
    <3>2. CASE i = Len(queue)
      BY <1>0, <2>2, <2>4, <2>6, <3>2
    <3>3. i \in 1 .. Len(queue)
      BY ONLY <2>3, i \in 1 .. Len(Tail(queue'))
    <3>4. i \in 1 .. Len(queue) - 1 \/ i = Len(queue)
      BY ONLY <2>2, <3>3
    <3>. QED
      BY ONLY <3>1, <3>2, <3>4
  <2>. QED
    BY <1>2, <2>1, <2>7 DEF HoldsNoBill
<1>. QED
  BY <1>1, <1>2

(* A step that leaves the validator task, the products and the change be.  *)
LEMMA OnceFrame ==
    ASSUME OnceBasic, Basic', ValidatorStays, UNCHANGED vended, MoneyStands, NoChangePaid,
           ActiveMoves,
           queue' = queue \/ queue' = Append(queue, [kind |-> "fault", bill |-> 0])
    PROVE  OnceInvariant'
<1> USE DEF OnceBasic, OnceInvariant
<1>1. BillsOneByOne'
  <2> SUFFICES ASSUME queue' # << >>
               PROVE  /\ HoldsNoBill(Tail(queue'))
                      /\ Head(queue').kind = "stacked" =>
                            /\ Price > 0
                            /\ \/ pc["validator"] = "rest"  /\ StillOwes(active)'
                               \/ pc["validator"] = "event" /\ StillOwes(on["validator"])'
    BY DEF BillsOneByOne, ValidatorStays, StillOwes
  <2>1. /\ HoldsNoBill(Tail(queue'))
        /\ Head(queue').kind = "stacked" => queue # << >> /\ Head(queue).kind = "stacked"
    BY FaultWaits DEF BillsOneByOne, Basic
  <2> SUFFICES ASSUME queue # << >>, Head(queue).kind = "stacked"
               PROVE  /\ Price > 0
                      /\ \/ pc["validator"] = "rest"  /\ StillOwes(active)'
                         \/ pc["validator"] = "event" /\ StillOwes(on["validator"])'
    BY <2>1
  <2>2. Price > 0
    BY DEF BillsOneByOne
  <2>3. CASE pc["validator"] = "rest" /\ StillOwes(active)
    <3>1. CASE active' = active
      BY <2>2, <2>3, <3>1, OweKept DEF Basic, TypeOK, SaleIds, StillOwes
    <3>2. CASE active' = NoTx
      BY <2>2, <2>3, <3>2 DEF StillOwes
    <3>3. CASE active' \in Tx /\ tx'[active'].accepted = 0
      BY <2>2, <2>3, <3>3, PriceAssumption DEF StillOwes, CanConfirm
    <3>. QED
      BY <3>1, <3>2, <3>3 DEF ActiveMoves
  <2>4. CASE pc["validator"] = "event" /\ StillOwes(on["validator"])
    BY <2>2, <2>4, OweKept, TaskNames DEF ValidatorStays, Basic, TypeOK, SaleIds, StillOwes
  <2>. QED
    BY <2>2, <2>3, <2>4 DEF BillsOneByOne
<1>2. CompletesOnce'
  <2>1. \A u \in Tx : CanConfirm(tx[u]) => CanConfirm(tx'[u]) \/ tx[u].session = "none"
    BY DEF MoneyStands, SameMoney, CanConfirm
  <2>2. \A u \in Tx : tx[u].session = "none" /\ CanConfirm(tx[u]) => CanConfirm(tx'[u])
    BY PriceAssumption DEF MoneyStands, SameMoney, SaleSafe, FreshSales, CanConfirm, Basic,
                           TypeOK, TransactionRecords
  <2>3. pc["validator"] \in {"credited", "disable", "payout", "change", "paid", "motor"}
          => on["validator"] \in Tx
    BY OnSale, TaskNames, LabelNames
  <2>. QED
    BY <2>1, <2>2, <2>3 DEF CompletesOnce, NoChangePaid, ValidatorStays
<1>3. ChangeIsDue'
  <2>1. pc["validator"] \in {"credited", "disable", "payout", "change", "paid", "motor"}
          => on["validator"] \in Tx
    BY OnSale, TaskNames, LabelNames
  <2>2. \A u \in Tx : paid[u] \in Nat /\ paid'[u] \in Nat
    BY DEF Basic, TypeOK
  <2>3. \A u \in Tx : tx[u].due \in Nat
    BY DEF Basic, TypeOK, TransactionRecords
  <2> DEFINE t == on["validator"]
  <2>4. pc["validator"] \in {"credited", "disable", "payout", "change", "paid", "motor"}
          => tx'[t].session # "none" /\ SameMoney(tx[t], tx'[t]) /\ paid'[t] >= paid[t]
    BY <2>1 DEF ChangeIsDue, MoneyStands, NoChangePaid
  <2>. QED
    BY <2>1, <2>2, <2>3, <2>4 DEF ChangeIsDue, SameMoney, ValidatorStays
<1>4. AtMostOneVend'
  BY DEF AtMostOneVend
<1>. QED
  BY <1>1, <1>2, <1>3, <1>4

LEMMA NoBillBehind ==
    ASSUME NEW q \in Seq(ValidatorEvents), q # << >>, HoldsNoBill(q)
    PROVE  Head(q).kind # "stacked" /\ HoldsNoBill(Tail(q))
<1>1. Len(q) \in Nat \ {0} /\ Head(q) = q[1]
  OBVIOUS
<1>2. Head(q).kind # "stacked"
  BY <1>1 DEF HoldsNoBill
<1>3. /\ Len(Tail(q)) = Len(q) - 1
      /\ \A i \in 1 .. Len(Tail(q)) : Tail(q)[i] = q[i + 1] /\ i + 1 \in 1 .. Len(q)
  BY <1>1
<1>. QED
  BY <1>2, <1>3 DEF HoldsNoBill

(* Once an event has been taken off, no bill waits.                        *)
LEMMA TakenOff ==
    ASSUME OnceBasic, queue # << >>, queue' = Tail(queue)
    PROVE  BillsOneByOne'
<1>1. Tail(queue) \in Seq(ValidatorEvents) /\ HoldsNoBill(Tail(queue))
  BY DEF OnceBasic, OnceInvariant, BillsOneByOne, Basic, TypeOK
<1>. QED
  BY <1>1, NoBillBehind DEF BillsOneByOne

LEMMA NoBillWaits ==
    ASSUME OnceBasic, pc["validator"] \notin {"rest", "event"}, queue' = queue
    PROVE  BillsOneByOne'
BY DEF OnceBasic, OnceInvariant, BillsOneByOne

(* A step that leaves the validator task with no payment in its hands.     *)
LEMMA HandsEmpty ==
    ASSUME OnceBasic, Basic', MoneyStands,
           pc'["validator"] \in {"rest", "dead", "event", "repay", "open"},
           \A u \in Tx : answers'[u]["change"] # "none" =>
               answers[u]["change"] # "none" \/ CanConfirm(tx[u])
    PROVE  CompletesOnce' /\ ChangeIsDue'
<1>1. \A u \in Tx : CanConfirm(tx[u]) => CanConfirm(tx'[u])
  BY PriceAssumption DEF MoneyStands, SameMoney, SaleSafe, FreshSales, CanConfirm,
                         OnceBasic, Basic, TypeOK, TransactionRecords
<1>. QED
  BY <1>1 DEF OnceBasic, OnceInvariant, CompletesOnce, ChangeIsDue

LEMMA ValidatorMoves ==
    ASSUME TypeOK, NEW label, NEW t, Go("validator", label) \/ Start("validator", t, label)
    PROVE  pc'["validator"] = label
BY TaskNames DEF TypeOK, Go, Start

(* The bills.                                                              *)
LEMMA BillsOnce ==
    ASSUME OnceBasic, Basic', TakeEvent \/ CreditBill \/ ValidatorFault \/ BillNotEnough
    PROVE  OnceInvariant'
<1> USE DEF OnceBasic
<1>0. AtMostOneVend'
  BY DEF TakeEvent, CreditBill, ValidatorFault, BillNotEnough, OnceInvariant, AtMostOneVend
<1>1. CASE TakeEvent
  <2>1. pc'["validator"] = "event" /\ on'["validator"] = active
    BY <1>1, TaskNames DEF TakeEvent, Start, Basic, TypeOK
  <2>2. BillsOneByOne'
    BY <1>1, <2>1 DEF TakeEvent, OnceInvariant, BillsOneByOne, StillOwes
  <2>3. CompletesOnce' /\ ChangeIsDue'
    BY <1>1, <2>1, StaysStands, HandsEmpty DEF TakeEvent, Basic
  <2>. QED
    BY <1>0, <2>2, <2>3 DEF OnceInvariant
<1>2. CASE ValidatorFault
  <2>1. pc'["validator"] \in {"rest", "dead"}
    BY <1>2, ValidatorMoves DEF ValidatorFault, Basic
  <2>2. MoneyStands
    BY <1>2, StaysStands, PutStands, MethodsKeepMoney, MethodsAdvance
    DEF ValidatorFault, Basic, TypeOK
  <2>3. BillsOneByOne'
    BY <1>2, TakenOff DEF ValidatorFault, Basic, EventInQueue
  <2>4. CompletesOnce' /\ ChangeIsDue'
    BY <1>2, <2>1, <2>2, HandsEmpty DEF ValidatorFault
  <2>. QED
    BY <1>0, <2>3, <2>4 DEF OnceInvariant
<1>3. CASE BillNotEnough
  <2>1. pc'["validator"] = "rest"
    BY <1>3, ValidatorMoves DEF BillNotEnough, Basic
  <2>2. BillsOneByOne'
    BY <1>3, NoBillWaits DEF BillNotEnough
  <2>3. CompletesOnce' /\ ChangeIsDue'
    BY <1>3, <2>1, StaysStands, HandsEmpty DEF BillNotEnough, Basic
  <2>. QED
    BY <1>0, <2>2, <2>3 DEF OnceInvariant
<1>4. CASE CreditBill
  <2> DEFINE t == on["validator"]
             e == Head(queue)
  <2>0. BillsOneByOne'
    BY <1>4, TakenOff DEF CreditBill, Basic, EventInQueue
  <2>1. CASE tx' = tx /\ (Go("validator", "rest") \/ Go("validator", "dead"))
    <3>1. pc'["validator"] \in {"rest", "dead"}
      BY <2>1, ValidatorMoves DEF Basic
    <3>2. CompletesOnce' /\ ChangeIsDue'
      BY <1>4, <2>1, <3>1, StaysStands, HandsEmpty DEF CreditBill, Basic
    <3>. QED
      BY <1>0, <2>0, <3>2 DEF OnceInvariant
  (* The bill goes to a sale that still owes: nothing was released for it. *)
  <2>2. CASE /\ t # NoTx /\ CanStack(tx[t])
             /\ Put(t, RecordStackedCash(tx[t], e.bill))
             /\ Go("validator", "credited")
    <3>1. t \in Tx /\ pc'["validator"] = "credited" /\ on'["validator"] = t
      BY <2>2, TaskNames, ValidatorMoves DEF Basic, TypeOK, SaleIds, Go
    <3>2. ~CanConfirm(tx[t])
      BY <1>4, <2>2 DEF CreditBill, OnceInvariant, BillsOneByOne, Basic, EventInQueue, StillOwes
    <3>3. vended[t] = 0 /\ answers[t]["change"] = "none"
      <4>1. vended[t] \in Nat /\ ~(vended[t] > 0)
        BY <3>1, <3>2 DEF Basic, TypeOK, SaleSafe, PaidBeforeVend, CanConfirm
      <4>2. answers[t]["change"] = "none"
        BY <3>1, <3>2 DEF OnceInvariant, CompletesOnce
      <4>. QED
        BY <4>1, <4>2
    <3>4. CashAdvancing
      BY <1>4, <2>2, <3>1, EventTyped, PutAdvances, CashAdvances
      DEF CreditBill, ValidatorEvents, Basic, TypeOK
    <3>5. \A u \in Tx : CanConfirm(tx[u]) => CanConfirm(tx'[u])
      BY <3>4, PriceAssumption DEF CashAdvancing, Advances, CanConfirm, Basic, TypeOK,
                                   TransactionRecords
    <3>6. CompletesOnce'
      BY <1>4, <3>1, <3>3, <3>5 DEF CreditBill, OnceInvariant, CompletesOnce
    <3>7. ChangeIsDue'
      BY <2>2, <3>1, <3>4 DEF ChangeIsDue, CanStack, CashAdvancing, Advances
    <3>. QED
      BY <1>0, <2>0, <3>6, <3>7 DEF OnceInvariant
  <2>. QED
    BY <1>4, <2>1, <2>2 DEF CreditBill
<1>. QED
  BY <1>1, <1>2, <1>3, <1>4

(* The threshold.                                                          *)
LEMMA ThresholdOnce ==
    ASSUME OnceBasic, Basic', BeginCompletion
    PROVE  OnceInvariant'
<1> USE DEF OnceBasic
<1> DEFINE t == on["validator"]
<1>1. t \in Tx /\ pc'["validator"] = "disable" /\ on'["validator"] = t
  BY OnSale, TaskNames, LabelNames, ValidatorMoves DEF BeginCompletion, Basic, Go
<1>2. /\ tx[t] \in TransactionRecords /\ CanConfirm(tx[t])
      /\ tx' = [tx EXCEPT ![t] = ConfirmPayment(tx[t])]
  BY <1>1 DEF BeginCompletion, Put, Basic, TypeOK
<1>3. /\ Advances(tx[t], ConfirmPayment(tx[t])) /\ ConfirmPayment(tx[t]).accepted >= Price
      /\ ConfirmPayment(tx[t]).accepted = tx[t].accepted
      /\ ConfirmPayment(tx[t]).due = tx[t].accepted - Price
  BY <1>2, ConfirmAdvances, ConfirmDue
<1>4. /\ tx'[t] = ConfirmPayment(tx[t])
      /\ \A u \in Tx : u # t => tx'[u] = tx[u]
  BY <1>1, <1>2 DEF Basic, TypeOK
<1>5. BillsOneByOne' /\ AtMostOneVend'
  BY NoBillWaits DEF BeginCompletion, OnceInvariant, AtMostOneVend
<1>6. CompletesOnce'
  BY <1>1, <1>3, <1>4 DEF BeginCompletion, OnceInvariant, CompletesOnce, CanConfirm
<1>7. ChangeIsDue'
  BY <1>1, <1>3, <1>4 DEF BeginCompletion, OnceInvariant, ChangeIsDue, Advances
<1>. QED
  BY <1>5, <1>6, <1>7 DEF OnceInvariant

(* Past the threshold the task either keeps the sale in its hands, with    *)
(* its money as it is, or lets go of it.                                   *)
LEMMA HandsFull ==
    ASSUME OnceBasic, Basic', MoneyStands, UNCHANGED <<vended, answers, paid>>,
           NEW label, Go("validator", label),
           pc["validator"] \in {"disable", "payout", "change", "paid", "motor"},
           \/ label \in {"payout", "change"} /\ pc["validator"] \in {"disable", "payout"}
           \/ label = "paid" /\ tx[on["validator"]].due = 0
           \/ label = "motor" /\ pc["validator"] = "paid"
    PROVE  CompletesOnce' /\ ChangeIsDue'
<1> DEFINE t == on["validator"]
<1>1. t \in Tx /\ pc'["validator"] = label /\ on'["validator"] = t
  BY OnSale, TaskNames, LabelNames, ValidatorMoves DEF OnceBasic, Basic, Go
<1>2. \A u \in Tx : CanConfirm(tx[u]) => CanConfirm(tx'[u])
  BY PriceAssumption DEF MoneyStands, SameMoney, SaleSafe, FreshSales, CanConfirm,
                         OnceBasic, Basic, TypeOK, TransactionRecords
<1>3. CompletesOnce'
  BY <1>1, <1>2 DEF OnceBasic, OnceInvariant, CompletesOnce
<1>4. /\ tx[t].session # "none" /\ tx'[t].session # "none"
      /\ SameMoney(tx[t], tx'[t]) /\ tx[t].due = tx[t].accepted - Price
  BY <1>1 DEF OnceBasic, OnceInvariant, ChangeIsDue, MoneyStands
<1>5. paid[t] \in Nat
  BY <1>1 DEF OnceBasic, Basic, TypeOK
<1>6. ChangeIsDue'
  BY <1>1, <1>4, <1>5 DEF OnceBasic, OnceInvariant, ChangeIsDue, SameMoney
<1>. QED
  BY <1>3, <1>6

LEMMA ChangeOnce ==
    ASSUME OnceBasic, Basic',
           \/ CompletionDisabled \/ CompletionDisableFails \/ RequestChange
           \/ ChangeDispensed \/ ChangeFails \/ Repaid \/ RepayFails
    PROVE  OnceInvariant'
<1> USE DEF OnceBasic
<1> DEFINE t == on["validator"]
<1>0. t \in Tx /\ tx[t] \in TransactionRecords
  BY OnSale, TaskNames, LabelNames
  DEF CompletionDisabled, CompletionDisableFails, RequestChange, ChangeDispensed,
      ChangeFails, Repaid, RepayFails, Basic, TypeOK
<1>1. BillsOneByOne' /\ AtMostOneVend'
  BY NoBillWaits
  DEF CompletionDisabled, CompletionDisableFails, RequestChange, ChangeDispensed,
      ChangeFails, Repaid, RepayFails, OnceInvariant, AtMostOneVend
<1>2. MoneyStands
  BY StaysStands, PutStands, MethodsKeepMoney, MethodsAdvance
  DEF CompletionDisabled, CompletionDisableFails, DisableFails, RequestChange,
      ChangeDispensed, ChangeFails, Repaid, RepayFails, Basic, TypeOK
<1>3. CASE CompletionDisabled
  <2>1. CASE Go("validator", "dead") \/ Go("validator", "repay")
    BY <1>1, <1>2, <1>3, <2>1, ValidatorMoves, HandsEmpty
    DEF CompletionDisabled, Basic, OnceInvariant
  <2>2. CASE Go("validator", "paid") /\ tx[t].due = 0
    BY <1>1, <1>2, <1>3, <2>2, HandsFull DEF CompletionDisabled, OnceInvariant
  <2>3. CASE Go("validator", "payout")
    BY <1>1, <1>2, <1>3, <2>3, HandsFull DEF CompletionDisabled, OnceInvariant
  <2>. QED
    BY <1>3, <2>1, <2>2, <2>3 DEF CompletionDisabled
<1>4. CASE RequestChange
  <2>1. CASE Go("validator", "repay")
    BY <1>1, <1>2, <1>4, <2>1, ValidatorMoves, HandsEmpty DEF RequestChange, Basic, OnceInvariant
  <2>2. CASE Go("validator", "change")
    BY <1>1, <1>2, <1>4, <2>2, HandsFull DEF RequestChange, OnceInvariant
  <2>. QED
    BY <1>4, <2>1, <2>2 DEF RequestChange
<1>5. CASE CompletionDisableFails
  BY <1>1, <1>2, <1>5, ValidatorMoves, HandsEmpty
  DEF CompletionDisableFails, Basic, OnceInvariant
(* The change leaves the machine in this step: it was not dispensed before.*)
<1>6. CASE ChangeDispensed
  <2>1. CanConfirm(tx[t])
    BY <1>6 DEF ChangeDispensed, SaleSafe, CompletingPaid, Completing, CanConfirm
  <2>2. answers[t]["change"] = "none" /\ vended[t] = 0
    BY <1>6 DEF ChangeDispensed, OnceInvariant, CompletesOnce
  <2>3. \A u \in Tx : u # t => answers'[u] = answers[u]
    BY <1>6 DEF ChangeDispensed, Dispense, Basic, TypeOK
  <2>4. CASE Go("validator", "repay")
    BY <1>1, <1>2, <1>6, <2>1, <2>3, <2>4, ValidatorMoves, HandsEmpty DEF Basic, OnceInvariant
  <2>5. CASE Go("validator", "paid")
    <3>1. pc'["validator"] = "paid" /\ on'["validator"] = t
      BY <2>5, ValidatorMoves DEF Basic, Go
    <3>2. paid' = [paid EXCEPT ![t] = @ + tx[t].due]
      BY <1>6, <2>2 DEF ChangeDispensed, Dispense, PayBack
    <3>3. paid'[t] = paid[t] + tx[t].due /\ paid[t] \in Nat /\ tx[t].due \in Nat
      BY <1>0, <3>2 DEF Basic, TypeOK, TransactionRecords
    <3>4. /\ tx[t].session # "none" /\ tx'[t].session # "none"
          /\ SameMoney(tx[t], tx'[t]) /\ tx[t].due = tx[t].accepted - Price
      BY <1>0, <1>2, <1>6 DEF ChangeDispensed, OnceInvariant, ChangeIsDue, MoneyStands
    <3>5. ChangeIsDue'
      BY <3>1, <3>3, <3>4 DEF ChangeIsDue, SameMoney
    <3>6. \A u \in Tx : CanConfirm(tx[u]) => CanConfirm(tx'[u])
      BY <1>2, PriceAssumption DEF MoneyStands, SameMoney, SaleSafe, FreshSales, CanConfirm,
                                   Basic, TypeOK, TransactionRecords
    <3>7. CompletesOnce'
      BY <1>6, <2>1, <2>2, <2>3, <3>1, <3>6 DEF ChangeDispensed, OnceInvariant, CompletesOnce
    <3>. QED
      BY <1>1, <3>5, <3>7 DEF OnceInvariant
  <2>. QED
    BY <1>6, <2>4, <2>5 DEF ChangeDispensed
<1>7. CASE ChangeFails
  <2>1. CanConfirm(tx[t])
    BY <1>7 DEF ChangeFails, SaleSafe, CompletingPaid, Completing, CanConfirm
  <2>2. \A u \in Tx : u # t => answers'[u] = answers[u]
    BY <1>7 DEF ChangeFails, Dispense, DispenseRaises, Basic, TypeOK
  <2>3. pc'["validator"] = "repay"
    BY <1>7, ValidatorMoves DEF ChangeFails, Basic
  <2>4. CompletesOnce' /\ ChangeIsDue'
    BY <1>2, <2>1, <2>2, <2>3, HandsEmpty
  <2>. QED
    BY <1>1, <2>4 DEF OnceInvariant
<1>8. CASE Repaid
  <2>1. NoChangePaid
    BY <1>0, <1>8, RefundPaysNoChange DEF Repaid, Basic, TransactionRecords
  <2>. QED
    BY <1>1, <1>2, <1>8, <2>1, ValidatorMoves, HandsEmpty
    DEF Repaid, Basic, OnceInvariant, NoChangePaid
<1>9. CASE RepayFails
  <2>1. NoChangePaid
    BY <1>0, <1>9, RefundNotPaidPaysNoChange DEF RepayFails, Basic, TransactionRecords
  <2>. QED
    BY <1>1, <1>2, <1>9, <2>1, ValidatorMoves, HandsEmpty
    DEF RepayFails, Basic, OnceInvariant, NoChangePaid
<1>. QED
  BY <1>3, <1>4, <1>5, <1>6, <1>7, <1>8, <1>9

LEMMA VendOnce ==
    ASSUME OnceBasic, Basic',
           AuthorizeSale \/ MotorDone \/ MotorFails \/ WindowOpens \/ WindowOpenFails
    PROVE  OnceInvariant'
<1> USE DEF OnceBasic
<1> DEFINE t == on["validator"]
<1>0. t \in Tx /\ tx[t] \in TransactionRecords
  BY OnSale, TaskNames, LabelNames
  DEF AuthorizeSale, MotorDone, MotorFails, WindowOpens, WindowOpenFails, Basic, TypeOK
<1>1. BillsOneByOne'
  BY NoBillWaits DEF AuthorizeSale, MotorDone, MotorFails, WindowOpens, WindowOpenFails
<1>2. MoneyStands
  BY StaysStands, PutStands, MethodsKeepMoney, MethodsAdvance
  DEF AuthorizeSale, MotorDone, MotorFails, WindowOpens, WindowOpenFails, FaultSale,
      Basic, TypeOK
<1>3. CASE AuthorizeSale
  <2>1. AtMostOneVend'
    BY <1>3 DEF AuthorizeSale, OnceInvariant, AtMostOneVend
  <2>2. CASE Go("validator", "dead")
    BY <1>1, <1>2, <1>3, <2>1, <2>2, ValidatorMoves, HandsEmpty
    DEF AuthorizeSale, Basic, OnceInvariant
  <2>3. CASE Go("validator", "motor")
    BY <1>1, <1>2, <1>3, <2>1, <2>3, HandsFull DEF AuthorizeSale, OnceInvariant
  <2>. QED
    BY <1>3, <2>2, <2>3 DEF AuthorizeSale
<1>4. CASE MotorDone \/ MotorFails
  <2>1. vended[t] = 0
    BY <1>4 DEF MotorDone, MotorFails, OnceInvariant, CompletesOnce
  <2>2. vended' = vended \/ vended' = [vended EXCEPT ![t] = @ + 1]
    BY <1>4 DEF MotorDone, MotorFails
  <2>3. AtMostOneVend'
    <3>1. vended \in [Tx -> Nat]
      BY DEF Basic, TypeOK
    <3>2. \A u \in Tx : vended[u] <= 1
      BY DEF OnceInvariant, AtMostOneVend
    <3>. QED
      BY <1>0, <2>1, <2>2, <3>1, <3>2 DEF AtMostOneVend
  <2>4. pc'["validator"] \in {"dead", "open"}
    BY <1>4, ValidatorMoves DEF MotorDone, MotorFails, FaultSale, Basic
  <2>5. CompletesOnce' /\ ChangeIsDue'
    BY <1>2, <1>4, <2>4, HandsEmpty DEF MotorDone, MotorFails
  <2>. QED
    BY <1>1, <2>3, <2>5 DEF OnceInvariant
<1>5. CASE WindowOpens \/ WindowOpenFails
  <2>1. AtMostOneVend'
    BY <1>5 DEF WindowOpens, WindowOpenFails, OnceInvariant, AtMostOneVend
  <2>2. pc'["validator"] \in {"dead", "rest"}
    BY <1>5, ValidatorMoves DEF WindowOpens, WindowOpenFails, FaultSale, Basic
  <2>3. CompletesOnce' /\ ChangeIsDue'
    BY <1>2, <1>5, <2>2, HandsEmpty DEF WindowOpens, WindowOpenFails
  <2>. QED
    BY <1>1, <2>1, <2>3 DEF OnceInvariant
<1>. QED
  BY <1>3, <1>4, <1>5

(* The other tasks.                                                        *)
LEMMA CheckoutOnce ==
    ASSUME OnceBasic, Basic', CheckoutTask
    PROVE  OnceInvariant'
<1> USE DEF OnceBasic
<1> DEFINE t == on["checkout"]
<1>1. ValidatorStays
  <2>1. \E label : Go("checkout", label)
    BY DEF CheckoutTask, SensorMismatch, RefusePurchase, CreatePurchase, StopFails,
           StartPayment, AcceptanceEnabled, AcceptanceNotEnabled
  <2>. QED
    BY <2>1, OthersStay, TaskNames DEF Basic, ValidatorStays
<1>2. UNCHANGED <<vended, answers, paid, queue>>
  BY DEF CheckoutTask, SensorMismatch, RefusePurchase, CreatePurchase, StopFails,
         StartPayment, AcceptanceEnabled, AcceptanceNotEnabled
<1>3. NoChangePaid
  BY <1>2, NothingPaid DEF Basic
<1>4. CASE SensorMismatch \/ RefusePurchase \/ StopFails \/ AcceptanceEnabled
  <2>1. MoneyStands /\ ActiveMoves
    BY <1>4, StaysStands
    DEF SensorMismatch, RefusePurchase, StopFails, AcceptanceEnabled, Basic, ActiveMoves
  <2>. QED
    BY <1>1, <1>2, <1>3, <2>1, OnceFrame
<1>5. CASE AcceptanceNotEnabled
  <2>1. MoneyStands /\ ActiveMoves
    BY <1>5, PutStands, MethodsAdvance, MethodsKeepMoney
    DEF AcceptanceNotEnabled, Basic, TypeOK, ActiveMoves
  <2>. QED
    BY <1>1, <1>2, <1>3, <2>1, OnceFrame
(* The sale created now is a record without cash.                          *)
<1>6. CASE CreatePurchase
  <2>1. t \in Tx /\ tx[t].session = "none"
    BY <1>6, OnSale, TaskNames, LabelNames DEF CreatePurchase, SaleSafe, FreshSales
  <2>2. /\ tx'[t] = NewTransaction /\ active' = t
        /\ \A u \in Tx : u # t => tx'[u] = tx[u]
    BY <1>6, <2>1 DEF CreatePurchase, Put, Basic, TypeOK
  <2>3. NewTransaction.accepted = 0
    BY DEF NewTransaction, UnbornTransaction
  <2>4. MoneyStands /\ ActiveMoves
    BY <2>1, <2>2, <2>3 DEF MoneyStands, SameMoney, ActiveMoves
  <2>. QED
    BY <1>1, <1>2, <1>3, <2>4, OnceFrame
<1>7. CASE StartPayment
  <2>1. t \in Tx /\ tx[t] \in TransactionRecords
    BY <1>7, OnSale, TaskNames, LabelNames DEF StartPayment, Basic, TypeOK
  <2>2. ActiveMoves
    BY <1>7 DEF StartPayment, ActiveMoves
  <2>3. CASE tx' = tx
    BY <1>1, <1>2, <1>3, <2>2, <2>3, StaysStands, OnceFrame DEF Basic
  <2>4. CASE \E reserved \in BOOLEAN : Put(t, StartCashSession(tx[t], reserved))
    <3>1. PICK reserved \in BOOLEAN : tx' = [tx EXCEPT ![t] = StartCashSession(tx[t], reserved)]
      BY <2>4 DEF Put
    <3>2. SameMoney(tx[t], tx'[t]) /\ tx'[t].session = "accepting"
      BY <2>1, <3>1, SessionIsRecord DEF Basic, TypeOK
    <3>3. \A u \in Tx : u # t => tx'[u] = tx[u]
      BY <3>1 DEF Basic, TypeOK
    <3>4. MoneyStands
      BY <3>2, <3>3 DEF MoneyStands, SameMoney
    <3>. QED
      BY <1>1, <1>2, <1>3, <2>2, <3>4, OnceFrame
  <2>. QED
    BY <1>7, <2>3, <2>4 DEF StartPayment
<1>. QED
  BY <1>4, <1>5, <1>6, <1>7 DEF CheckoutTask

LEMMA CancelStands ==
    ASSUME TypeOK, NEW t \in Tx, Put(t, Cancel(ReleaseReserve(tx[t])))
    PROVE  MoneyStands
<1> DEFINE r == ReleaseReserve(tx[t])
<1>1. tx[t] \in TransactionRecords /\ r \in TransactionRecords /\ Cancel(r) \in TransactionRecords
  BY MethodsTyped DEF TypeOK
<1>2. /\ SameMoney(tx[t], r) /\ SameMoney(r, Cancel(r))
      /\ Advances(tx[t], r) /\ Advances(r, Cancel(r))
  BY <1>1, MethodsAdvance, MethodsKeepMoney
<1>3. SameMoney(tx[t], Cancel(r)) /\ Advances(tx[t], Cancel(r))
  BY <1>1, <1>2 DEF SameMoney, Advances, TransactionRecords
<1>. QED
  BY <1>3, PutStands

LEMMA CancelOnce ==
    ASSUME OnceBasic, Basic', NEW k \in Cancellers, CancelTask(k)
    PROVE  OnceInvariant'
<1> USE DEF OnceBasic
<1> DEFINE t == on[k]
<1>1. ValidatorStays
  <2>1. \E label : Go(k, label)
    BY DEF CancelTask, CancelDisabled, CancelDisableFails, RequestRefund, RefundDispensed,
           RefundFails, EndCancel, EndSale, GiveUp
  <2>2. k \in Tasks \ {"checkout", "validator"}
    BY TaskNames DEF Cancellers
  <2>. QED
    BY <2>1, <2>2, OtherTask DEF Basic
<1>2. UNCHANGED <<vended, queue>>
  BY DEF CancelTask, CancelDisabled, CancelDisableFails, RequestRefund, RefundDispensed,
         RefundFails, EndCancel
<1>3. t \in Tx /\ tx[t] \in TransactionRecords /\ owed[k] \in Nat
  BY OnSale, TaskNames, LabelNames
  DEF CancelTask, CancelDisabled, CancelDisableFails, RequestRefund, RefundDispensed,
      RefundFails, EndCancel, Basic, TypeOK
<1>4. ActiveMoves
  BY DEF CancelTask, CancelDisabled, CancelDisableFails, RequestRefund, RefundDispensed,
         RefundFails, EndCancel, EndSale, ClearActive, ActiveMoves
<1>5. MoneyStands
  BY <1>3, StaysStands, PutStands, CancelStands, MethodsAdvance, MethodsKeepMoney
  DEF CancelTask, CancelDisabled, CancelDisableFails, DisableFails, RequestRefund,
      RefundDispensed, RefundFails, EndCancel, EndSale, Basic
<1>6. NoChangePaid
  <2>1. CASE RefundDispensed(k)
    BY <1>3, <2>1, RefundPaysNoChange DEF RefundDispensed, Basic
  <2>2. CASE RefundFails(k)
    BY <1>3, <2>2, RefundNotPaidPaysNoChange DEF RefundFails, Basic
  <2>3. CASE ~RefundDispensed(k) /\ ~RefundFails(k)
    BY <2>3, NothingPaid
    DEF CancelTask, CancelDisabled, CancelDisableFails, RequestRefund, EndCancel, Basic
  <2>. QED
    BY <2>1, <2>2, <2>3
<1>. QED
  BY <1>1, <1>2, <1>4, <1>5, <1>6, OnceFrame

(* The tasks that only hand a sale over, time it out, or let go of it.     *)
LEMMA ClosingOnce ==
    ASSUME OnceBasic, Basic', ConfirmTask \/ TimeoutTask \/ LeaveCancel \/ LeaveIdle \/ EndRecovery
    PROVE  OnceInvariant'
<1> USE DEF OnceBasic, ConfirmTask, TimeoutTask
<1>1. ValidatorStays
  BY OtherTask, TaskNames
  DEF PickupClosed, PickupCloseFails, TimeoutCloses, TimeoutClosed, TimeoutCloseFails,
      LeaveCancel, LeaveIdle, EndRecovery, Basic
<1>2. UNCHANGED <<vended, answers, paid, queue>>
  BY DEF PickupClosed, PickupCloseFails, TimeoutCloses, TimeoutClosed, TimeoutCloseFails,
         LeaveCancel, LeaveIdle, EndRecovery
<1>3. NoChangePaid
  BY <1>2, NothingPaid DEF Basic
<1>4. MoneyStands
  BY StaysStands, PutStands, MethodsAdvance, MethodsKeepMoney
  DEF PickupClosed, PickupCloseFails, TimeoutCloses, TimeoutClosed, TimeoutCloseFails,
      LeaveCancel, LeaveIdle, EndRecovery, Basic, TypeOK
<1>5. ActiveMoves
  BY DEF PickupClosed, PickupCloseFails, TimeoutCloses, TimeoutClosed, TimeoutCloseFails,
         LeaveCancel, LeaveIdle, EndRecovery, ClearActive, ActiveMoves
<1>. QED
  BY <1>1, <1>2, <1>3, <1>4, <1>5, OnceFrame

LEMMA StartsOnce ==
    ASSUME OnceBasic, Basic', NEW t \in Tx,
           \/ BeginCancel("cancel", t) \/ BeginCancel("idle", t) \/ TapBuy(t)
           \/ BeginConfirm(t) \/ PickupExpires(t) \/ BeginRecovery(t)
    PROVE  OnceInvariant'
<1> USE DEF OnceBasic
<1>1. ValidatorStays
  BY OthersStay, TaskNames
  DEF BeginCancel, TapBuy, BeginConfirm, PickupExpires, BeginRecovery, ValidatorStays, Basic
<1>2. UNCHANGED <<vended, answers, paid, queue, active>>
  BY DEF BeginCancel, TapBuy, BeginConfirm, PickupExpires, BeginRecovery
<1>3. NoChangePaid /\ ActiveMoves
  BY <1>2, NothingPaid DEF Basic, ActiveMoves
<1>4. MoneyStands
  BY StaysStands, PutStands, MethodsAdvance, MethodsKeepMoney
  DEF BeginCancel, TapBuy, BeginConfirm, PickupExpires, BeginRecovery, Basic, TypeOK
<1>. QED
  BY <1>1, <1>2, <1>3, <1>4, OnceFrame

(* The steps that touch neither a task, a sale nor its money.              *)
LEMMA StillOnce ==
    ASSUME OnceBasic, Basic', UNCHANGED <<active, tx, pc, on, vended, answers, paid>>,
           queue' = queue \/ queue' = Append(queue, [kind |-> "fault", bill |-> 0])
    PROVE  OnceInvariant'
BY NothingPaid, StaysStands, OnceFrame DEF OnceBasic, Basic, ValidatorStays, ActiveMoves

(* A customer who waits inserts the only bill, for a sale that still owes. *)
LEMMA InsertOnce ==
    ASSUME UnhurriedCustomers, OnceBasic, Basic', NEW b \in Bills, InsertBill(b)
    PROVE  OnceInvariant'
<1> USE DEF OnceBasic
<1>1. /\ queue = << >> /\ pc["validator"] = "rest"
      /\ active # NoTx /\ ~CanConfirm(tx[active])
  BY DEF InsertBill, CountedUp, UnhurriedCustomers
<1>2. active \in Tx /\ tx[active].accepted \in Nat /\ Price \in Nat
  BY <1>1, PriceAssumption DEF Basic, TypeOK, SaleIds, TransactionRecords
<1>3. Price > 0
  BY <1>1, <1>2 DEF CanConfirm
<1>4. UNCHANGED <<active, tx, pc, on, vended, answers, paid>>
  BY DEF InsertBill
<1>5. BillsOneByOne'
  <2> DEFINE e == [kind |-> "stacked", bill |-> b]
  <2>1. queue' = <<e>>
    BY <1>1 DEF InsertBill
  <2>2. Tail(queue') = << >> /\ Head(queue') = e
    BY <2>1
  <2>. QED
    BY <1>1, <1>3, <1>4, <2>2 DEF BillsOneByOne, HoldsNoBill, StillOwes
<1>6. CompletesOnce' /\ ChangeIsDue' /\ AtMostOneVend'
  BY <1>1, <1>4 DEF OnceInvariant, CompletesOnce, ChangeIsDue, AtMostOneVend
<1>. QED
  BY <1>5, <1>6 DEF OnceInvariant

LEMMA StepOnce ==
    ASSUME UnhurriedCustomers, OnceBasic, Basic', [Next]_vars
    PROVE  OnceInvariant'
<1>1. CASE UNCHANGED vars
  BY <1>1, StillOnce DEF vars
<1>2. CASE CheckoutTask \/ (\E k \in Cancellers : CancelTask(k))
  BY <1>2, CheckoutOnce, CancelOnce
<1>3. CASE ValidatorTask
  BY <1>3, BillsOnce, ThresholdOnce, ChangeOnce, VendOnce DEF ValidatorTask
<1>4. CASE ConfirmTask \/ TimeoutTask \/ LeaveCancel \/ LeaveIdle \/ EndRecovery
  BY <1>4, ClosingOnce
<1>5. CASE Supervisors
  <2>1. CASE IdleFires
    <3>1. IdleTarget \in Tx
      BY <2>1, StateAssumption DEF IdleFires, IdleTarget, OnceBasic, Basic, TypeOK, SaleIds
    <3>. QED
      BY <2>1, <3>1, StartsOnce DEF IdleFires
  <2>2. CASE IdleRelaxes
    BY <2>2, StillOnce DEF IdleRelaxes
  <2>. QED
    BY <1>5, <2>1, <2>2, StartsOnce DEF Supervisors
<1>6. CASE Customer
  <2>1. CASE TapScreen
    BY <2>1, StillOnce DEF TapScreen
  <2>2. ASSUME NEW t \in Tx, TapPickup(t) \/ TapCancel(t)
        PROVE  OnceInvariant'
    BY <2>2, StartsOnce DEF TapPickup, TapCancel
  <2>. QED
    BY <1>6, <2>1, <2>2, StartsOnce, InsertOnce DEF Customer
<1>7. CASE Operators
  <2>1. ASSUME NEW t \in Tx, OrderDone(t) \/ OrderCancel(t) \/ BeginRecovery(t)
        PROVE  OnceInvariant'
    BY <2>1, StartsOnce DEF OrderDone, OrderCancel
  <2>2. CASE EnterServiceMode \/ ExitServiceMode \/ RefreshStatus \/ ClearDrift
             \/ ClearRestricted
    BY <2>2, StillOnce
    DEF EnterServiceMode, ExitServiceMode, RefreshStatus, ClearDrift, ClearRestricted
  <2>. QED
    BY <1>7, <2>1, <2>2 DEF Operators
<1>8. CASE Environment
  BY <1>8, StillOnce DEF Environment, ValidatorBreaks, HealthBlocks, HealthUnblocks
<1>. QED
  BY <1>1, <1>2, <1>3, <1>4, <1>5, <1>6, <1>7, <1>8 DEF Next

(* Nothing but the motor releases a product.                               *)
LEMMA VendsByMotor ==
    ASSUME [Next]_vars, vended' # vended
    PROVE  MotorDone \/ MotorFails
<1> SUFFICES ASSUME ~MotorDone, ~MotorFails
             PROVE  FALSE
  OBVIOUS
<1>1. ~CheckoutTask
  BY DEF CheckoutTask, SensorMismatch, RefusePurchase, CreatePurchase, StopFails,
         StartPayment, AcceptanceEnabled, AcceptanceNotEnabled
<1>2. ~ValidatorTask
  BY DEF ValidatorTask, TakeEvent, CreditBill, ValidatorFault, BillNotEnough,
         BeginCompletion, CompletionDisabled, CompletionDisableFails, RequestChange,
         ChangeDispensed, ChangeFails, Repaid, RepayFails, AuthorizeSale, WindowOpens,
         WindowOpenFails
<1>3. ~\E k \in Cancellers : CancelTask(k)
  BY DEF CancelTask, CancelDisabled, CancelDisableFails, RequestRefund, RefundDispensed,
         RefundFails, EndCancel
<1>4. ~(ConfirmTask \/ TimeoutTask \/ LeaveCancel \/ LeaveIdle \/ EndRecovery)
  BY DEF ConfirmTask, PickupClosed, PickupCloseFails, TimeoutTask, TimeoutCloses,
         TimeoutClosed, TimeoutCloseFails, LeaveCancel, LeaveIdle, EndRecovery
<1>5. ~Supervisors
  BY DEF Supervisors, PickupExpires, IdleFires, IdleRelaxes, BeginCancel
<1>6. ~Customer
  BY DEF Customer, TapBuy, InsertBill, TapPickup, BeginConfirm, TapCancel, BeginCancel,
         TapScreen
<1>7. ~(Operators \/ Environment)
  BY DEF Operators, OrderDone, BeginConfirm, OrderCancel, BeginCancel, BeginRecovery,
         EnterServiceMode, ExitServiceMode, RefreshStatus, ClearDrift, ClearRestricted,
         Environment, ValidatorBreaks, HealthBlocks, HealthUnblocks
<1>. QED
  BY <1>1, <1>2, <1>3, <1>4, <1>5, <1>6, <1>7 DEF Next, vars

(* The motor turns when the change due is out.                             *)
LEMMA VendAfterChange ==
    ASSUME OnceBasic, [Next]_vars
    PROVE  \A t \in Tx : vended'[t] > vended[t] => paid[t] >= tx[t].accepted - Price
<1> SUFFICES ASSUME NEW t \in Tx, vended'[t] > vended[t]
             PROVE  paid[t] >= tx[t].accepted - Price
  OBVIOUS
<1>1. vended[t] \in Nat
  BY DEF OnceBasic, Basic, TypeOK
<1>2. vended' # vended
  BY <1>1
<1>3. MotorDone \/ MotorFails
  BY <1>2, VendsByMotor
<1>4. t = on["validator"] /\ pc["validator"] = "motor"
  BY <1>1, <1>3 DEF MotorDone, MotorFails, OnceBasic, Basic, TypeOK
<1>. QED
  BY <1>4 DEF OnceBasic, OnceInvariant, ChangeIsDue

LEMMA OnceHolds ==
    ASSUME UnhurriedCustomers
    PROVE  Spec => [](OnceBasic)
<1>1. Init => OnceBasic
  <2>1. Init => SaleSafe
    BY TaskNames
    DEF Init, SaleSafe, FreshSales, Born, UnbornTransaction, CompletingPaid, Completing,
        PaidBeforeVend
  <2>2. Init => OnceInvariant
    BY TaskNames
    DEF Init, OnceInvariant, BillsOneByOne, CompletesOnce, ChangeIsDue, AtMostOneVend, Requests
  <2>. QED
    BY <2>1, <2>2, InitBasic DEF OnceBasic
<1>2. OnceBasic /\ [Next]_vars => OnceBasic'
  BY StepBasic, StepSafe, StepOnce DEF OnceBasic
<1>. QED
  BY <1>1, <1>2, PTL DEF Spec

(* A sale is released at most once, however many bills, cancellations,     *)
(* confirmations, recoveries and faults follow the one that paid for it,   *)
(* when no customer inserts a bill before the last one has been counted    *)
(* (process_validator_event and complete_payment look at nothing but the   *)
(* accepted amount before they complete a payment).                        *)
THEOREM ReleasedOnce ==
    ASSUME UnhurriedCustomers
    PROVE  Spec => []AtMostOneVend
<1>1. OnceBasic => AtMostOneVend
  BY DEF OnceBasic, OnceInvariant
<1>. QED
  BY OnceHolds, <1>1, PTL

(* Under the same hypothesis the motor turns only when all the change due  *)
(* has been paid out, although complete_payment hands over to              *)
(* handle_vend_authorized across two published events.                     *)
THEOREM ChangeBeforeRelease ==
    ASSUME UnhurriedCustomers
    PROVE  Spec => ChangeSettledBeforeVend
<1> DEFINE A == \A t \in Tx : vended'[t] > vended[t] => paid[t] >= tx[t].accepted - Price
<1>1. OnceBasic /\ [Next]_vars => [A]_vars
  BY VendAfterChange
<1> HIDE DEF A
<1>2. Spec => [][A]_vars
  BY OnceHolds, <1>1, PTL DEF Spec
<1>. QED
  BY <1>2 DEF A, ChangeSettledBeforeVend

-----------------------------------------------------------------------------
(***************************************************************************)
(* The intent to turn the motor is durable before the motor turns.  Only   *)
(* the kiosk's cancellation holds a database transaction open across its   *)
(* awaits; where nobody cancels from the kiosk, what is journalled is on   *)
(* disk, and the validator task has journalled the intent of the sale in   *)
(* its hands.                                                              *)
(***************************************************************************)

Journalling == Basic /\ JournalCommits

(* The step leaves the connection in autocommit and takes nothing back.    *)
Commits ==
    /\ pc'["cancel"] = pc["cancel"] /\ txnOpen' = txnOpen
    /\ journal \subseteq journal'

LEMMA NoCancelTask ==
    ASSUME NoKioskCancellation, Journalling, [Next]_vars
    PROVE  Commits
<1> USE DEF Journalling, Basic
<1>1. CASE UNCHANGED vars
  BY <1>1 DEF vars, Commits
<1>2. CASE CheckoutTask
  <2>1. \E label : Go("checkout", label)
    BY <1>2 DEF CheckoutTask, SensorMismatch, RefusePurchase, CreatePurchase, StopFails,
                StartPayment, AcceptanceEnabled, AcceptanceNotEnabled
  <2>2. UNCHANGED storeVars \/ \E records : Write(records)
    BY <1>2 DEF CheckoutTask, SensorMismatch, RefusePurchase, CreatePurchase, StopFails,
                StartPayment, AcceptanceEnabled, AcceptanceNotEnabled
  <2>. QED
    BY <2>1, <2>2, OthersStay, TaskNames DEF Commits, Write
<1>3. CASE ValidatorTask
  <2>1. \E label, t : Go("validator", label) \/ Start("validator", t, label)
    BY <1>3 DEF ValidatorTask, TakeEvent, CreditBill, ValidatorFault, BillNotEnough,
         BeginCompletion, CompletionDisabled, CompletionDisableFails, RequestChange,
         ChangeDispensed, ChangeFails, Repaid, RepayFails, AuthorizeSale, MotorDone,
         MotorFails, WindowOpens, WindowOpenFails, FaultSale
  <2>2. UNCHANGED storeVars \/ \E records : Write(records) \/ WriteAndRaise(records)
    <3>1. CASE TakeEvent \/ CreditBill \/ ValidatorFault \/ BillNotEnough \/ BeginCompletion
      BY <3>1 DEF TakeEvent, CreditBill, ValidatorFault, BillNotEnough, BeginCompletion
    <3>2. CASE \/ CompletionDisabled \/ CompletionDisableFails \/ RequestChange
               \/ ChangeDispensed \/ ChangeFails \/ Repaid \/ RepayFails
      BY <3>2 DEF CompletionDisabled, CompletionDisableFails, RequestChange, ChangeDispensed,
                  ChangeFails, Repaid, RepayFails
    <3>3. CASE AuthorizeSale \/ MotorDone \/ MotorFails \/ WindowOpens \/ WindowOpenFails
      BY <3>3 DEF AuthorizeSale, MotorDone, MotorFails, WindowOpens, WindowOpenFails, FaultSale
    <3>. QED
      BY <1>3, <3>1, <3>2, <3>3 DEF ValidatorTask
  <2>. QED
    BY <2>1, <2>2, OthersStay, TaskNames DEF Commits, Write, WriteAndRaise
<1>4. CASE \E k \in Cancellers : CancelTask(k)
  <2>1. CancelTask("idle")
    BY <1>4, TaskNames
    DEF JournalCommits, CancelTask, CancelDisabled, CancelDisableFails, RequestRefund,
        RefundDispensed, RefundFails, EndCancel
  <2>2. \E label : Go("idle", label)
    BY <2>1 DEF CancelTask, CancelDisabled, CancelDisableFails, RequestRefund,
                RefundDispensed, RefundFails, EndCancel, EndSale, GiveUp
  <2>3. \E records : Write(records)
    BY <2>1 DEF CancelTask, CancelDisabled, CancelDisableFails, RequestRefund,
                RefundDispensed, RefundFails, EndCancel, EndSale, GiveUp
  <2>. QED
    BY <2>2, <2>3, OthersStay, TaskNames DEF Commits, Write
<1>5. CASE ConfirmTask \/ TimeoutTask \/ LeaveIdle \/ EndRecovery
  <2>1. \E k \in {"confirm", "timeout", "idle", "recover"} : \E label : Go(k, label)
    BY <1>5 DEF ConfirmTask, PickupClosed, PickupCloseFails, TimeoutTask, TimeoutCloses,
                TimeoutClosed, TimeoutCloseFails, LeaveIdle, EndRecovery
  <2>2. UNCHANGED storeVars \/ \E records : Write(records) \/ WriteAndRaise(records)
    BY <1>5 DEF ConfirmTask, PickupClosed, PickupCloseFails, TimeoutTask, TimeoutCloses,
                TimeoutClosed, TimeoutCloseFails, LeaveIdle, EndRecovery
  <2>. QED
    BY <2>1, <2>2, OthersStay, TaskNames DEF Commits, Write, WriteAndRaise
<1>6. CASE LeaveCancel
  BY <1>6 DEF LeaveCancel, JournalCommits
<1>7. CASE IdleFires \/ IdleRelaxes
  BY <1>7, OthersStay, TaskNames
  DEF IdleFires, IdleRelaxes, BeginCancel, Commits
<1>8. CASE Customer \/ Operators \/ Environment
  <2>1. ~(\E t \in Tx : TapCancel(t) \/ OrderCancel(t))
    BY DEF TapCancel, OrderCancel, NoKioskCancellation
  <2>2. ASSUME NEW t \in Tx, TapBuy(t) \/ TapPickup(t) \/ OrderDone(t) \/ BeginRecovery(t)
        PROVE  Commits
    BY <2>2, OthersStay, TaskNames
    DEF TapBuy, TapPickup, OrderDone, BeginConfirm, BeginRecovery, Commits, Write
  <2>3. CASE \/ \E b \in Bills : InsertBill(b)
             \/ TapScreen \/ EnterServiceMode \/ ExitServiceMode \/ RefreshStatus
             \/ ClearDrift \/ ClearRestricted \/ Environment
    BY <2>3
    DEF InsertBill, TapScreen, EnterServiceMode, ExitServiceMode, RefreshStatus, ClearDrift,
        ClearRestricted, Environment, ValidatorBreaks, HealthBlocks, HealthUnblocks, Commits
  <2>. QED
    BY <1>8, <2>1, <2>2, <2>3 DEF Customer, Operators
<1>9. CASE \E t \in Tx : PickupExpires(t)
  BY <1>9, OthersStay, TaskNames DEF PickupExpires, Commits
<1>. QED
  BY <1>1, <1>2, <1>3, <1>4, <1>5, <1>6, <1>7, <1>8, <1>9 DEF Next, Supervisors

(* Nobody else moves the validator task.                                   *)
LEMMA OnlyItself ==
    ASSUME TypeOK, [Next]_vars, ~ValidatorTask
    PROVE  ValidatorStays
<1>1. CASE CheckoutTask
  <2>1. \E label : Go("checkout", label)
    BY <1>1 DEF CheckoutTask, SensorMismatch, RefusePurchase, CreatePurchase, StopFails,
                StartPayment, AcceptanceEnabled, AcceptanceNotEnabled
  <2>. QED
    BY <2>1, OthersStay, TaskNames DEF ValidatorStays
<1>2. CASE \E k \in Cancellers : CancelTask(k)
  <2>1. \E k \in Cancellers : \E label : Go(k, label)
    BY <1>2 DEF CancelTask, CancelDisabled, CancelDisableFails, RequestRefund,
                RefundDispensed, RefundFails, EndCancel, EndSale, GiveUp
  <2>. QED
    BY <2>1, OtherTask, TaskNames
<1>3. CASE ConfirmTask \/ TimeoutTask \/ LeaveCancel \/ LeaveIdle \/ EndRecovery
  BY <1>3, OtherTask, TaskNames
  DEF ConfirmTask, PickupClosed, PickupCloseFails, TimeoutTask, TimeoutCloses,
      TimeoutClosed, TimeoutCloseFails, LeaveCancel, LeaveIdle, EndRecovery
<1>4. CASE Supervisors
  BY <1>4, OthersStay, TaskNames
  DEF Supervisors, PickupExpires, IdleFires, IdleRelaxes, BeginCancel, ValidatorStays
<1>5. CASE Customer
  BY <1>5, OthersStay, TaskNames
  DEF Customer, TapBuy, InsertBill, TapPickup, BeginConfirm, TapCancel, BeginCancel,
      TapScreen, ValidatorStays
<1>6. CASE Operators \/ Environment
  BY <1>6, OthersStay, TaskNames
  DEF Operators, OrderDone, BeginConfirm, OrderCancel, BeginCancel, BeginRecovery,
      EnterServiceMode, ExitServiceMode, RefreshStatus, ClearDrift, ClearRestricted,
      Environment, ValidatorBreaks, HealthBlocks, HealthUnblocks, ValidatorStays
<1>. QED
  BY <1>1, <1>2, <1>3, <1>4, <1>5, <1>6 DEF Next, vars, ValidatorStays

(* The motor is asked by the handler that has just journalled its intent.  *)
LEMMA MotorAsked ==
    ASSUME Journalling, [Next]_vars, pc'["validator"] = "motor"
    PROVE  \/ pc["validator"] = "motor" /\ on'["validator"] = on["validator"]
           \/ Intent(on'["validator"], "motor") \in journal'
<1> USE DEF Journalling, Basic
<1>1. CASE ValidatorStays
  BY <1>1 DEF ValidatorStays
<1>2. CASE ValidatorTask
  <2>1. AuthorizeSale
    <3>1. ASSUME NEW label, NEW t, label # "motor",
                 Go("validator", label) \/ Start("validator", t, label)
          PROVE  FALSE
      BY <3>1, ValidatorMoves
    <3>. QED
      BY <1>2, <3>1
      DEF ValidatorTask, TakeEvent, CreditBill, ValidatorFault, BillNotEnough,
          BeginCompletion, CompletionDisabled, CompletionDisableFails, RequestChange,
          ChangeDispensed, ChangeFails, Repaid, RepayFails, MotorDone, MotorFails,
          WindowOpens, WindowOpenFails, FaultSale
  <2>2. Go("validator", "motor") /\ Write({Intent(on["validator"], "motor")})
    <3>1. ~Go("validator", "dead")
      BY ValidatorMoves
    <3>. QED
      BY <2>1, <3>1 DEF AuthorizeSale
  <2>. QED
    BY <2>2 DEF Go, Write
<1>. QED
  BY <1>1, <1>2, OnlyItself

LEMMA StepCommits ==
    ASSUME NoKioskCancellation, Journalling, [Next]_vars
    PROVE  JournalCommits'
BY NoCancelTask, MotorAsked DEF Journalling, JournalCommits, Commits

LEMMA CommitsHold ==
    ASSUME NoKioskCancellation
    PROVE  Spec => []Journalling
<1>1. Init => Journalling
  BY InitBasic, TaskNames DEF Init, Journalling, JournalCommits
<1>2. Journalling /\ [Next]_vars => Journalling'
  BY StepBasic, StepCommits DEF Journalling
<1>. QED
  BY <1>1, <1>2, PTL DEF Spec

(* A restart after the motor has turned finds its intent: it was on disk   *)
(* before handle_vend_authorized sent the command.  The hypothesis is what *)
(* the code needs: the kiosk's CancelPurchase joins the intent to its own  *)
(* transaction and may roll it back.                                       *)
THEOREM IntentBeforeMotor ==
    ASSUME NoKioskCancellation
    PROVE  Spec => MotorIntentDurable
<1> DEFINE A == \A t \in Tx : vended'[t] > vended[t] => Intent(t, "motor") \in Durable
<1>1. Journalling /\ [Next]_vars => [A]_vars
  <2> SUFFICES ASSUME Journalling, [Next]_vars, NEW t \in Tx, vended'[t] > vended[t]
               PROVE  Intent(t, "motor") \in Durable
    OBVIOUS
  <2>1. vended[t] \in Nat
    BY DEF Journalling, Basic, TypeOK
  <2>2. MotorDone \/ MotorFails
    <3>1. vended' # vended
      BY <2>1
    <3>. QED
      BY <3>1, VendsByMotor
  <2>3. t = on["validator"] /\ pc["validator"] = "motor"
    BY <2>1, <2>2 DEF MotorDone, MotorFails, Journalling, Basic, TypeOK
  <2>. QED
    BY <2>3 DEF Journalling, JournalCommits, Durable
<1> HIDE DEF A
<1>2. Spec => [][A]_vars
  BY CommitsHold, <1>1, PTL DEF Spec
<1>. QED
  BY <1>2 DEF A, MotorIntentDurable

=============================================================================
