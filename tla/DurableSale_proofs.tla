------------------------- MODULE DurableSale_proofs -------------------------
(***************************************************************************)
(* The sale under power failures.  Every step between two of them is one   *)
(* of SaleFlow, so what SaleFlow_proofs shows of a step holds here too;    *)
(* what is added is that a power failure and a start keep the invariants,  *)
(* and what the projector has written by when.                             *)
(***************************************************************************)
EXTENDS DurableSale, SaleFlow_proofs

USE DEF fsmVars, permitVars, saleVars, deviceVars, taskVars, kioskVars, storeVars, cashVars,
        diskVars, bootVars

-----------------------------------------------------------------------------
(* Types.                                                                  *)

LEMMA RunIsStep == Run => Next
BY DEF Run, PaymentSaves, ReleaseSaves, PickupSaves, CancelSaves, OperatorSaves, SilentStep,
       Next, ValidatorTask, CancelTask, ConfirmTask, TimeoutTask, Supervisors, Operators,
       Environment

LEMMA DurableBasic == DurableTypeOK => Basic
BY DEF DurableTypeOK, Basic

(* The tables stay, come back, or take up the sales that are to be saved.  *)
LEMMA RowsMove ==
    ASSUME Run
    PROVE  \/ rows' = rows
           \/ RolledBack /\ rows' = rowsBefore
           \/ \E t : Save(t)
BY DEF Run, PaymentSaves, ReleaseSaves, PickupSaves, CancelSaves, OperatorSaves, SilentStep,
       NothingSaved, SaveUnlessRolledBack

LEMMA SaveTyped ==
    ASSUME RowsTyped(rows), Basic', NEW t, Save(t)
    PROVE  RowsTyped(rows')
BY DEF RowsTyped, Save, Basic, TypeOK

LEMMA RunTyped ==
    ASSUME DurableTypeOK, Run
    PROVE  DurableTypeOK'
<1>1. Basic'
  BY RunIsStep, DurableBasic, StepBasic
<1>2. RowsTyped(rows')
  BY <1>1, RowsMove, SaveTyped DEF DurableTypeOK
<1>3. /\ RowsTyped(rowsBefore') /\ powered' /\ byHand' \subseteq old
      /\ UNCHANGED <<old, assembly, powered>>
  BY DEF Run, DurableTypeOK
<1>. QED
  BY <1>1, <1>2, <1>3 DEF DurableTypeOK, Basic

LEMMA LossTyped ==
    ASSUME DurableTypeOK, PowerLoss
    PROVE  DurableTypeOK'
<1> USE DEF DurableTypeOK, PowerLoss, TypeOK
<1>1. vended' \in [Tx -> Nat]
  <2>1. MotorMayHaveTurned /\ vended \in [Tx -> Nat]
    OBVIOUS
  <2>. QED
    BY ONLY <2>1 DEF MotorMayHaveTurned
<1>2. paid' \in [Tx -> Nat]
  <2>1. PICK gone \in SUBSET Paying :
            LET Left(k, t) == IF k \in gone /\ on[k] = t THEN AmountOf(k) ELSE 0
            IN  paid' = [t \in Tx |-> paid[t] + Left("validator", t) + Left("cancel", t)
                                              + Left("idle", t)]
    BY DEF MoneyMayHaveLeft
  <2>2. ASSUME NEW k \in Paying, NEW t \in Tx, on[k] = t PROVE AmountOf(k) \in Nat
    <3>1. tx[t] \in TransactionRecords
      OBVIOUS
    <3>2. tx[t].due \in Nat /\ tx[t].accepted \in Nat
      BY <3>1 DEF TransactionRecords
    <3>3. CASE pc[k] \in {"change", "repay"}
      BY <2>2, <3>2, <3>3 DEF AmountOf
    <3>4. CASE pc[k] \notin {"change", "repay"}
      <4>1. k \in Cancellers /\ AmountOf(k) = owed[k]
        BY <3>4 DEF AmountOf, Paying
      <4>. QED
        BY <4>1
    <3>. QED
      BY <3>3, <3>4
  <2>3. ASSUME NEW k, NEW t \in Tx
        PROVE  (IF k \in gone /\ on[k] = t THEN AmountOf(k) ELSE 0) \in Nat
    BY <2>2
  <2> DEFINE L(k, t) == IF k \in gone /\ on[k] = t THEN AmountOf(k) ELSE 0
  <2>4. paid' = [t \in Tx |-> paid[t] + L("validator", t) + L("cancel", t) + L("idle", t)]
    BY <2>1
  <2>5. \A k, t : t \in Tx => L(k, t) \in Nat
    BY <2>3
  <2> HIDE DEF L
  <2>. QED
    BY <2>4, <2>5
<1>3. /\ journal' \subseteq JournalRecords /\ before' \subseteq JournalRecords
      /\ txnOpen' \in BOOLEAN
  BY DEF Durable
<1>4. /\ pc' = [k \in Tasks |-> "rest"] /\ pc' \in [Tasks -> Labels] /\ on' \in [Tasks -> SaleIds]
      /\ TasksHaveSales' /\ EventInQueue'
  BY TaskNames, LabelNames DEF SaleIds, TasksHaveSales, AtRest, EventInQueue
<1>5. RowsTyped(rows') /\ RowsTyped(rowsBefore')
  BY DEF DiskRows, NoRows, RowsTyped
<1>6. /\ answers' \in [Tx -> [Requests -> Answers]]
      /\ ~accepting' /\ accepting' \in BOOLEAN /\ cached' \subseteq SaleIds
      /\ queue' = << >> /\ queue' \in Seq(ValidatorEvents)
  <2>1. DevicesStop
    OBVIOUS
  <2>2. answers' \in [Tx -> [Requests -> Answers]]
    BY <2>1 DEF DevicesStop, Answers
  <2>3. queue' = << >> /\ queue' \in Seq(ValidatorEvents)
    BY <2>1 DEF DevicesStop
  <2>4. ~accepting' /\ accepting' \in BOOLEAN /\ cached' \subseteq SaleIds
    BY <2>1 DEF DevicesStop
  <2>. QED
    BY <2>2, <2>3, <2>4
<1>8. /\ owed' \in [Cancellers -> Nat]
      /\ idleRef' \in SaleIds \cup {Unarmed} /\ session' \in SaleIds
  BY DEF SaleIds
<1>9. window' \in {"closed", "open"}
  BY DEF WindowMayHaveMoved
<1>7. UNCHANGED <<fsmVars, permitVars, saleVars, inserted, assembly, old>>
  OBVIOUS
<1>. QED
  BY <1>1, <1>2, <1>3, <1>4, <1>5, <1>6, <1>7, <1>8, <1>9

(* What detect_unresolved_intents makes of a saved sale.                   *)
LEMMA DetectKeeps ==
    ASSUME NEW r \in TransactionRecords, NEW t
    PROVE  /\ Detect(t, r) \in TransactionRecords
           /\ Detect(t, r).accepted = r.accepted /\ Detect(t, r).session = r.session
           /\ Detect(t, r).status = "unborn" => r.status = "unborn"
<1>1. MarkAmbiguous(r) \in TransactionRecords /\ Advances(r, MarkAmbiguous(r))
  BY MethodsTyped, MethodsAdvance
<1>2. Becomes(r, MarkAmbiguous(r), "ambiguous", "manual_review")
  BY MethodsSet
<1>3. /\ MarkRecoveryPending(r) \in TransactionRecords
      /\ MarkRecoveryPending(r).accepted = r.accepted
      /\ MarkRecoveryPending(r).session = r.session
      /\ MarkRecoveryPending(r).status = r.status
  BY DEF MarkRecoveryPending, TransactionRecords
<1>. QED
  BY <1>1, <1>2, <1>3 DEF Detect, Becomes, SameMoney

LEMMA RestoredTyped ==
    ASSUME RowsTyped(rows), NEW t \in Tx
    PROVE  RestoredSale(t) \in TransactionRecords
BY UnbornIsRecord, DetectKeeps DEF RestoredSale, RowsTyped

LEMMA ReturnTyped ==
    ASSUME DurableTypeOK, PowerReturns
    PROVE  DurableTypeOK'
<1> USE DEF DurableTypeOK, PowerReturns, TypeOK
<1>1. tx' = [t \in Tx |-> RestoredSale(t)] /\ tx' \in [Tx -> TransactionRecords]
  BY RestoredTyped
<1>2. active' \in SaleIds
  BY DEF SaleIds, Restored, RowsTyped
<1>3. /\ fsm' \in MachineStates /\ shown' \in MachineStates /\ blockers' \subseteq Blockers
      /\ service' \in BOOLEAN
  BY StateNames DEF RestartLocked, Blockers
<1>4. RowsTyped(rows')
  BY <1>1 DEF RowsTyped
<1>5. pc' = pc /\ on' = on /\ owed' = owed /\ TasksHaveSales' /\ EventInQueue'
  BY DEF TasksStart, TasksHaveSales, AtRest, EventInQueue
<1>6. stock' \in Nat /\ drift' \in BOOLEAN
  BY StateAssumption DEF RowsTyped
<1>7. UNCHANGED <<deviceVars, kioskVars, storeVars, cashVars, rowsBefore, assembly>>
  OBVIOUS
<1>8. powered' /\ old' \subseteq Tx /\ powered' \in BOOLEAN
  OBVIOUS
<1>. QED
  BY <1>1, <1>2, <1>3, <1>4, <1>5, <1>6, <1>7, <1>8

LEMMA StillTyped ==
    ASSUME DurableTypeOK, UNCHANGED durableVars
    PROVE  DurableTypeOK'
<1>1. Basic'
  BY DurableBasic, StepBasic DEF durableVars
<1>. QED
  BY <1>1 DEF DurableTypeOK, durableVars, Basic, RowsTyped, vars

LEMMA StepTyped == DurableTypeOK /\ [DurableNext]_durableVars => DurableTypeOK'
BY RunTyped, LossTyped, ReturnTyped, StillTyped DEF DurableNext

LEMMA InitTyped == DurableInit => DurableTypeOK
<1>. SUFFICES ASSUME DurableInit PROVE DurableTypeOK
  OBVIOUS
<1>1. Basic
  BY InitBasic DEF DurableInit
<1>. QED
  BY <1>1 DEF DurableInit, DurableTypeOK, Basic, NoRows, RowsTyped

(* Every variable keeps its type through power failures and restarts by    *)
(* either assembly; a machine without power has nothing at work.           *)
THEOREM DurableTypeCorrect == DurableSpec => []DurableTypeOK
BY InitTyped, StepTyped, PTL DEF DurableSpec

-----------------------------------------------------------------------------
(* Sales of an earlier boot.                                               *)

DurableSafe == DurableTypeOK /\ OldSalesRest

Fault0 == [kind |-> "fault", bill |-> 0]

(* The checkout task stays where it is, no sale becomes active, acceptance *)
(* is not switched on, and at most a fault joins the queue.                *)
Calm ==
    /\ active' = active \/ active' = NoTx
    /\ accepting' \in {accepting, FALSE}
    /\ queue' = queue \/ queue' = Append(queue, Fault0)
    /\ pc'["checkout"] = pc["checkout"] /\ on'["checkout"] = on["checkout"]

LEMMA NoTxIsNew == DurableTypeOK => NoTx \notin old
BY StateAssumption DEF DurableTypeOK

LEMMA FaultJoins ==
    ASSUME NEW q \in Seq(ValidatorEvents)
    PROVE  /\ HoldsNoBill(q) => HoldsNoBill(Append(q, Fault0))
           /\ q # << >> => Head(Append(q, Fault0)) = Head(q)
<1>1. /\ Len(Append(q, Fault0)) = Len(q) + 1
      /\ \A i \in 1 .. Len(q) : Append(q, Fault0)[i] = q[i]
      /\ Append(q, Fault0)[Len(q) + 1] = Fault0
  BY DEF Fault0, ValidatorEvents
<1>. QED
  BY <1>1 DEF HoldsNoBill, Fault0

LEMMA CalmRests ==
    ASSUME DurableSafe, Calm, ValidatorStays, old' = old
    PROVE  OldSalesRest'
<1> USE DEF DurableSafe, OldSalesRest, DurableTypeOK, TypeOK
<1>1. pc'["checkout"] # "rest" => on'["checkout"] \notin old'
  BY DEF Calm
<1>2. active' \in old' =>
          ~accepting' /\ HoldsNoBill(queue') /\ pc'["checkout"] \in {"rest", "sensor"}
  BY NoTxIsNew, FaultJoins DEF Calm
<1>3. on'["validator"] \in old' => pc'["validator"] = "event" /\ Head(queue').kind = "fault"
  BY FaultJoins DEF Calm, ValidatorStays, EventInQueue
<1>. QED
  BY <1>1, <1>2, <1>3

(* A purchase is begun for a sale that is new to this machine.             *)
LEMMA TapBuyRests ==
    ASSUME DurableSafe, NEW t \in Tx, TapBuy(t), FreshIdentity, old' = old
    PROVE  OldSalesRest'
<1> USE DEF DurableSafe, DurableTypeOK
<1>1. ValidatorStays
  BY OthersStay, TaskNames DEF TapBuy, ValidatorStays
<1>2. pc'["checkout"] = "sensor" /\ on'["checkout"] = t /\ t \notin old
  BY TaskNames DEF TapBuy, Start, FreshIdentity, TypeOK
<1>. QED
  BY <1>1, <1>2 DEF OldSalesRest, TapBuy, ValidatorStays

LEMMA CheckoutRests ==
    ASSUME DurableSafe, CheckoutTask, old' = old
    PROVE  OldSalesRest'
<1> USE DEF DurableSafe, DurableTypeOK
<1>1. PICK label : Go("checkout", label)
  BY DEF CheckoutTask, SensorMismatch, RefusePurchase, CreatePurchase, StopFails,
         StartPayment, AcceptanceEnabled, AcceptanceNotEnabled
<1>2. /\ ValidatorStays /\ pc'["checkout"] = label
      /\ on'["checkout"] \in {on["checkout"], NoTx}
  BY <1>1, OthersStay, TaskNames DEF ValidatorStays, Go, TypeOK
<1>3. pc["checkout"] # "rest" /\ queue' = queue
  BY DEF CheckoutTask, SensorMismatch, RefusePurchase, CreatePurchase, StopFails,
         StartPayment, AcceptanceEnabled, AcceptanceNotEnabled
<1>4. on'["checkout"] \notin old' /\ on["checkout"] \notin old
  BY <1>2, <1>3, NoTxIsNew DEF OldSalesRest
<1>5. active' \in old' => ~accepting' /\ HoldsNoBill(queue') /\ label = "rest"
  <2>1. CASE CreatePurchase
    BY <2>1, <1>4 DEF CreatePurchase
  <2>2. CASE SensorMismatch \/ RefusePurchase
    BY <2>2, <1>2, <1>3, TaskNames DEF SensorMismatch, RefusePurchase, OldSalesRest, Go, TypeOK
  <2>3. CASE pc["checkout"] \in {"stop", "enable"}
    <3>1. active' = active
      BY <2>3 DEF CheckoutTask, SensorMismatch, RefusePurchase, CreatePurchase, StopFails,
                  StartPayment, AcceptanceEnabled, AcceptanceNotEnabled
    <3>. QED
      BY <2>3, <3>1 DEF OldSalesRest
  <2>. QED
    BY <2>1, <2>2, <2>3
    DEF CheckoutTask, StopFails, StartPayment, AcceptanceEnabled, AcceptanceNotEnabled
<1>. QED
  BY <1>2, <1>3, <1>4, <1>5 DEF OldSalesRest, ValidatorStays

(* The validator task takes up an event, and drops it or credits it.       *)
LEMMA EventRests ==
    ASSUME DurableSafe, Basic', TakeEvent \/ CreditBill \/ ValidatorFault, old' = old
    PROVE  OldSalesRest'
<1> USE DEF DurableSafe, DurableTypeOK
<1>1. /\ UNCHANGED <<active, accepting>>
      /\ pc'["checkout"] = pc["checkout"] /\ on'["checkout"] = on["checkout"]
  BY OthersStay, TaskNames DEF TakeEvent, CreditBill, ValidatorFault
<1>2. queue # << >>
  BY DEF TakeEvent, CreditBill, ValidatorFault, EventInQueue
<1>3. HoldsNoBill(queue) => Head(queue).kind = "fault" /\ HoldsNoBill(Tail(queue))
  <2>1. queue \in Seq(ValidatorEvents) /\ Head(queue) \in ValidatorEvents
    BY <1>2 DEF TypeOK
  <2>. QED
    BY <1>2, <2>1, NoBillBehind DEF ValidatorEvents
<1>4. queue' = queue \/ queue' = Tail(queue)
  BY DEF TakeEvent, CreditBill, ValidatorFault
<1>5. on'["validator"] \in old' => pc'["validator"] = "event" /\ Head(queue').kind = "fault"
  <2>1. CASE TakeEvent
    BY <2>1, <1>3, TaskNames DEF TakeEvent, Start, TypeOK, OldSalesRest
  <2>2. CASE CreditBill
    <3>1. on["validator"] \notin old
      BY <2>2 DEF CreditBill, OldSalesRest
    <3>. QED
      BY <2>2, <3>1, NoTxIsNew, TaskNames DEF CreditBill, Go, TypeOK
  <2>3. CASE ValidatorFault
    BY <2>3, NoTxIsNew, TaskNames DEF ValidatorFault, Go, TypeOK
  <2>. QED
    BY <2>1, <2>2, <2>3
<1>. QED
  BY <1>1, <1>3, <1>4, <1>5 DEF OldSalesRest

LEMMA ValidatorRests ==
    ASSUME DurableSafe, Basic', ValidatorTask, old' = old
    PROVE  OldSalesRest'
<1> USE DEF DurableSafe, DurableTypeOK
<1>1. CASE TakeEvent \/ CreditBill \/ ValidatorFault
  BY <1>1, EventRests
<1>2. CASE ~(TakeEvent \/ CreditBill \/ ValidatorFault)
  <2>1. \E label : Go("validator", label)
    BY <1>2 DEF ValidatorTask, BillNotEnough,
         BeginCompletion, CompletionDisabled, CompletionDisableFails, RequestChange,
         ChangeDispensed, ChangeFails, Repaid, RepayFails, AuthorizeSale, MotorDone,
         MotorFails, WindowOpens, WindowOpenFails, FaultSale
  <2>2. pc["validator"] \notin {"rest", "event"} /\ queue' = queue
    BY <1>2 DEF ValidatorTask, BillNotEnough,
         BeginCompletion, CompletionDisabled, CompletionDisableFails, RequestChange,
         ChangeDispensed, ChangeFails, Repaid, RepayFails, AuthorizeSale, MotorDone,
         MotorFails, WindowOpens, WindowOpenFails, FaultSale
  <2>3. active' = active \/ active' = NoTx
    BY <1>2 DEF ValidatorTask, BillNotEnough,
         BeginCompletion, CompletionDisabled, CompletionDisableFails, RequestChange,
         ChangeDispensed, ChangeFails, Repaid, RepayFails, AuthorizeSale, MotorDone,
         MotorFails, WindowOpens, WindowOpenFails, FaultSale, ClearActive
  <2>6. accepting' \in {accepting, FALSE}
    BY <1>2 DEF ValidatorTask, BillNotEnough,
         BeginCompletion, CompletionDisabled, CompletionDisableFails, RequestChange,
         ChangeDispensed, ChangeFails, Repaid, RepayFails, AuthorizeSale, MotorDone,
         MotorFails, WindowOpens, WindowOpenFails, FaultSale, DisableWithId, DisableFails
  <2>4. pc'["checkout"] = pc["checkout"] /\ on'["checkout"] = on["checkout"]
    BY <2>1, OthersStay, TaskNames
  <2>5. on["validator"] \notin old /\ on'["validator"] \in {on["validator"], NoTx}
    BY <2>1, <2>2, TaskNames DEF Go, TypeOK, OldSalesRest
  <2>7. NoTx \notin old /\ OldSalesRest
    BY NoTxIsNew
  <2>8. ~accepting => ~accepting'
    BY <2>6
  <2>9. on'["validator"] \notin old'
    BY <2>5, <2>7
  <2>. QED
    BY ONLY <2>2, <2>3, <2>4, <2>7, <2>8, <2>9, old' = old DEF OldSalesRest
<1>. QED
  BY <1>1, <1>2

(* Whoever else moves leaves an old sale as it was for the validator.      *)
LEMMA OthersCalm ==
    ASSUME DurableSafe, Next, ~ValidatorTask, ~CheckoutTask,
           ~(\E t \in Tx : TapBuy(t)), ~(\E b \in Bills : InsertBill(b))
    PROVE  Calm
<1> USE DEF DurableSafe, DurableTypeOK
<1>1. CASE \E k \in Cancellers : CancelTask(k)
  <2>1. PICK k \in Cancellers : CancelTask(k)
    BY <1>1
  <2>2. \E label : Go(k, label)
    BY <2>1 DEF CancelTask, CancelDisabled, CancelDisableFails, RequestRefund,
                RefundDispensed, RefundFails, EndCancel, EndSale, GiveUp
  <2>3. queue' = queue /\ accepting' \in {accepting, FALSE}
    BY <2>1 DEF CancelTask, CancelDisabled, CancelDisableFails, RequestRefund,
                RefundDispensed, RefundFails, EndCancel, DisableWithId, DisableFails
  <2>4. active' = active \/ active' = NoTx
    BY <2>1 DEF CancelTask, CancelDisabled, CancelDisableFails, RequestRefund,
                RefundDispensed, RefundFails, EndCancel, EndSale, ClearActive
  <2>. QED
    BY <2>2, <2>3, <2>4, OthersStay, TaskNames DEF Calm
<1>2. CASE ConfirmTask \/ TimeoutTask \/ LeaveCancel \/ LeaveIdle \/ EndRecovery
  <2>1. \E k \in Tasks \ {"checkout"} : \E label : Go(k, label)
    BY <1>2, TaskNames
    DEF ConfirmTask, PickupClosed, PickupCloseFails, TimeoutTask, TimeoutCloses,
        TimeoutClosed, TimeoutCloseFails, LeaveCancel, LeaveIdle, EndRecovery
  <2>2. UNCHANGED <<queue, accepting>> /\ (active' = active \/ active' = NoTx)
    BY <1>2
    DEF ConfirmTask, PickupClosed, PickupCloseFails, TimeoutTask, TimeoutCloses,
        TimeoutClosed, TimeoutCloseFails, LeaveCancel, LeaveIdle, EndRecovery, ClearActive
  <2>. QED
    BY <2>1, <2>2, OthersStay, TaskNames DEF Calm
<1>3. CASE Supervisors \/ Customer \/ Operators \/ Environment
  <2>1. ASSUME NEW t \in Tx, NEW k \in Cancellers,
               \/ BeginCancel(k, t) \/ BeginConfirm(t) \/ PickupExpires(t) \/ BeginRecovery(t)
        PROVE  Calm
    BY <2>1, OthersStay, TaskNames
    DEF BeginCancel, BeginConfirm, PickupExpires, BeginRecovery, Calm
  <2>2. CASE IdleFires
    <3>1. IdleTarget \in Tx
      BY <2>2 DEF IdleFires, IdleTarget, TypeOK, SaleIds
    <3>. QED
      BY <2>1, <2>2, <3>1, TaskNames DEF IdleFires
  <2>3. CASE \/ IdleRelaxes \/ TapScreen \/ EnterServiceMode \/ ExitServiceMode
             \/ RefreshStatus \/ ClearDrift \/ ClearRestricted \/ Environment
    BY <2>3
    DEF IdleRelaxes, TapScreen, EnterServiceMode, ExitServiceMode, RefreshStatus, ClearDrift,
        ClearRestricted, Environment, ValidatorBreaks, HealthBlocks, HealthUnblocks, Calm,
        Fault0
  <2>4. CASE \E t \in Tx : TapPickup(t) \/ TapCancel(t) \/ OrderDone(t) \/ OrderCancel(t)
    BY <2>1, <2>4, TaskNames DEF TapPickup, TapCancel, OrderDone, OrderCancel
  <2>5. CASE \E t \in Tx : BeginRecovery(t) \/ PickupExpires(t)
    BY <2>1, <2>5, TaskNames
  <2>. QED
    BY <1>3, <2>2, <2>3, <2>4, <2>5 DEF Supervisors, Customer, Operators
<1>. QED
  BY <1>1, <1>2, <1>3 DEF Next

(* A bill comes in only while acceptance is on, which no old sale sees.    *)
LEMMA BillRests ==
    ASSUME DurableSafe, NEW b \in Bills, InsertBill(b), old' = old
    PROVE  OldSalesRest'
<1> USE DEF DurableSafe, DurableTypeOK, OldSalesRest, InsertBill
<1>1. active \notin old
  OBVIOUS
<1>2. /\ UNCHANGED <<active, pc, on>>
      /\ queue' = Append(queue, [kind |-> "stacked", bill |-> b])
  OBVIOUS
<1>3. queue # << >> => Head(queue') = Head(queue)
  BY <1>2 DEF TypeOK
<1>. QED
  BY <1>1, <1>2, <1>3 DEF EventInQueue

LEMMA RunRests ==
    ASSUME DurableSafe, Run
    PROVE  OldSalesRest'
<1>1. /\ Next /\ DurableTypeOK /\ Basic /\ Basic' /\ TypeOK /\ old' = old /\ FreshIdentity
  BY RunIsStep, DurableBasic, StepBasic DEF DurableSafe, Run, DurableTypeOK
<1>2. CASE ValidatorTask
  BY <1>1, <1>2, ValidatorRests
<1>3. CASE CheckoutTask
  BY <1>1, <1>3, CheckoutRests
<1>4. CASE \E t \in Tx : TapBuy(t)
  BY <1>1, <1>4, TapBuyRests
<1>5. CASE \E b \in Bills : InsertBill(b)
  BY <1>1, <1>5, BillRests
<1>6. CASE ~(ValidatorTask \/ CheckoutTask \/ (\E t \in Tx : TapBuy(t))
                \/ \E b \in Bills : InsertBill(b))
  BY <1>1, <1>6, OthersCalm, OnlyItself, CalmRests
<1>. QED
  BY <1>2, <1>3, <1>4, <1>5, <1>6

LEMMA StepRests == DurableSafe /\ [DurableNext]_durableVars => DurableSafe'
<1> SUFFICES ASSUME DurableSafe, [DurableNext]_durableVars
             PROVE  OldSalesRest'
  BY StepTyped DEF DurableSafe
<1> USE DEF DurableSafe
<1>1. CASE Run
  BY <1>1, RunRests
<1>2. CASE PowerLoss
  BY <1>2, NoTxIsNew, TaskNames
  DEF PowerLoss, DevicesStop, OldSalesRest, HoldsNoBill
<1>3. CASE PowerReturns
  <2>1. /\ pc = [k \in Tasks |-> "rest"] /\ queue = << >> /\ ~accepting
        /\ UNCHANGED <<pc, on, queue, accepting>>
    BY <1>3 DEF PowerReturns, TasksStart, DurableTypeOK
  <2>2. on' = [k \in Tasks |-> NoTx] /\ old' \subseteq Tx
    BY <1>3 DEF PowerReturns, TasksStart, DurableTypeOK
  <2>. QED
    BY <1>3, <2>1, <2>2, StateAssumption, TaskNames DEF OldSalesRest, HoldsNoBill
<1>4. CASE UNCHANGED durableVars
  BY <1>4 DEF durableVars, vars, OldSalesRest
<1>. QED
  BY <1>1, <1>2, <1>3, <1>4 DEF DurableNext

(* A product leaves the machine by its motor, for the validator's sale.    *)
LEMMA VendsOwnSale ==
    ASSUME TypeOK, [Next]_vars, NEW t \in Tx, vended'[t] # vended[t]
    PROVE  pc["validator"] = "motor" /\ on["validator"] = t
BY VendsByMotor DEF MotorDone, MotorFails, TypeOK

LEMMA OldStayUnreleased ==
    ASSUME DurableSafe, DurableNext, NEW t \in old
    PROVE  vended'[t] = vended[t]
<1> USE DEF DurableSafe
<1>1. t \in Tx /\ TypeOK
  BY DEF DurableTypeOK
<1>2. ~(pc["validator"] = "motor" /\ on["validator"] = t)
  BY DEF OldSalesRest
<1>3. CASE Run
  BY <1>1, <1>2, <1>3, RunIsStep, VendsOwnSale
<1>4. CASE PowerLoss
  <2>1. MotorMayHaveTurned
    BY <1>4 DEF PowerLoss
  <2>. QED
    BY <1>1, <1>2, <2>1 DEF MotorMayHaveTurned, Awaits, TypeOK
<1>5. CASE PowerReturns
  BY <1>5 DEF PowerReturns
<1>. QED
  BY <1>3, <1>4, <1>5 DEF DurableNext

(* The machine never releases a product for a sale of an earlier boot,     *)
(* whichever assembly restored it and whoever taps, cancels, recovers or   *)
(* services the machine afterwards: the validator task of the new boot     *)
(* starts at rest, acceptance is off, and when a later purchase switches   *)
(* it on, that purchase has taken the place of the restored sale           *)
(* (_complete_startup_flow, create_transaction, process_validator_event).  *)
THEOREM OldSalesAreNotReleased == DurableSpec => NoReleaseAfterRestart
<1> DEFINE A == \A t \in old : vended'[t] = vended[t]
<1>1. DurableInit => DurableSafe
  <2>1. DurableInit => OldSalesRest
    BY TaskNames DEF DurableInit, OldSalesRest
  <2>. QED
    BY <2>1, InitTyped DEF DurableSafe
<1>2. DurableSafe /\ [DurableNext]_durableVars => [A]_durableVars
  BY OldStayUnreleased
<1> HIDE DEF A
<1>3. DurableSpec => [][A]_durableVars
  BY <1>1, <1>2, StepRests, PTL DEF DurableSpec
<1>. QED
  BY <1>3 DEF A, NoReleaseAfterRestart

-----------------------------------------------------------------------------
(***************************************************************************)
(* What is on the disk when a product leaves.  payment_confirmed makes the *)
(* projector write the sale with its cash before vend_authorized is        *)
(* published; from then on the row can only gain, as the cash of a sale    *)
(* does.  Where nobody cancels from the kiosk no database transaction is   *)
(* held open, so nothing that was written is taken back.                   *)
(***************************************************************************)

CashGrows == \A u \in Tx : tx'[u].accepted >= tx[u].accepted

LEMMA AdvancingGrows == CashAdvancing => CashGrows
BY DEF CashAdvancing, CashGrows, Advances

LEMMA StillGrows ==
    ASSUME TypeOK, tx' = tx
    PROVE  CashGrows
BY StaysAdvances, AdvancingGrows

LEMMA CheckoutGrows ==
    ASSUME Basic, SaleSafe, CheckoutTask
    PROVE  CashGrows
<1> DEFINE t == on["checkout"]
<1>1. CASE SensorMismatch \/ RefusePurchase \/ StopFails \/ AcceptanceEnabled
  BY <1>1, StillGrows DEF SensorMismatch, RefusePurchase, StopFails, AcceptanceEnabled, Basic
<1>2. CASE AcceptanceNotEnabled
  BY <1>2, PutAdvances, MethodsAdvance, AdvancingGrows DEF AcceptanceNotEnabled, Basic, TypeOK
(* The sale created now has had no cash.                                   *)
<1>3. CASE CreatePurchase
  <2>1. t \in Tx /\ tx[t].accepted = 0
    BY <1>3, OnSale, TaskNames, LabelNames DEF CreatePurchase, SaleSafe, FreshSales
  <2>2. /\ tx'[t] = NewTransaction
        /\ \A u \in Tx : u # t => tx'[u] = tx[u]
    BY <1>3, <2>1 DEF CreatePurchase, Put, Basic, TypeOK
  <2>3. \A u \in Tx : tx[u].accepted \in Nat
    BY DEF Basic, TypeOK, TransactionRecords
  <2>. QED
    BY <2>1, <2>2, <2>3 DEF CashGrows, NewTransaction, UnbornTransaction
<1>4. CASE StartPayment
  <2>1. t \in Tx /\ tx[t] \in TransactionRecords
    BY <1>4, OnSale, TaskNames, LabelNames DEF StartPayment, Basic, TypeOK
  <2>2. CASE tx' = tx
    BY <2>2, StillGrows DEF Basic
  <2>3. CASE \E reserved \in BOOLEAN : Put(t, StartCashSession(tx[t], reserved))
    <3>1. PICK reserved \in BOOLEAN : tx' = [tx EXCEPT ![t] = StartCashSession(tx[t], reserved)]
      BY <2>3 DEF Put
    <3>2. SameMoney(tx[t], tx'[t]) /\ \A u \in Tx : u # t => tx'[u] = tx[u]
      BY <2>1, <3>1, SessionIsRecord DEF Basic, TypeOK
    <3>3. \A u \in Tx : tx[u].accepted \in Nat
      BY DEF Basic, TypeOK, TransactionRecords
    <3>. QED
      BY <3>2, <3>3 DEF CashGrows, SameMoney
  <2>. QED
    BY <1>4, <2>2, <2>3 DEF StartPayment
<1>. QED
  BY <1>1, <1>2, <1>3, <1>4 DEF CheckoutTask

LEMMA ValidatorGrows ==
    ASSUME Basic, SaleSafe, ValidatorTask
    PROVE  CashGrows
<1>1. CASE TakeEvent \/ BillNotEnough \/ Repaid \/ RequestChange
  BY <1>1, StillGrows DEF TakeEvent, BillNotEnough, Repaid, RequestChange, Basic
<1>2. CASE CreditBill
  BY <1>2, EventTyped, StaysAdvances, PutAdvances, CashAdvances, AdvancingGrows
  DEF CreditBill, ValidatorEvents, Basic, TypeOK
<1>3. CASE ValidatorFault
  BY <1>3, StaysAdvances, PutAdvances, MethodsAdvance, AdvancingGrows
  DEF ValidatorFault, Basic, TypeOK
<1>4. CASE BeginCompletion
  <2>1. on["validator"] \in Tx
    BY <1>4, OnSale, TaskNames, LabelNames DEF BeginCompletion
  <2>2. tx[on["validator"]] \in TransactionRecords /\ CanConfirm(tx[on["validator"]])
    BY <1>4, <2>1 DEF BeginCompletion, Basic, TypeOK
  <2>. QED
    BY <1>4, <2>2, ConfirmAdvances, PutAdvances, AdvancingGrows DEF BeginCompletion, Basic
<1>5. CASE \/ CompletionDisabled \/ CompletionDisableFails \/ ChangeDispensed \/ ChangeFails
           \/ RepayFails
  BY <1>5, StaysAdvances, PutAdvances, MethodsAdvance, AdvancingGrows
  DEF CompletionDisabled, CompletionDisableFails, DisableFails, ChangeDispensed,
      ChangeFails, RepayFails, Basic, TypeOK
<1>6. CASE AuthorizeSale \/ MotorDone \/ MotorFails \/ WindowOpens \/ WindowOpenFails
  BY <1>6, StaysAdvances, PutAdvances, MethodsAdvance, AdvancingGrows
  DEF AuthorizeSale, MotorDone, MotorFails, WindowOpens, WindowOpenFails, FaultSale,
      Basic, TypeOK
<1>. QED
  BY <1>1, <1>2, <1>3, <1>4, <1>5, <1>6 DEF ValidatorTask

LEMMA CancelGrows ==
    ASSUME Basic, NEW k \in Cancellers, CancelTask(k)
    PROVE  CashGrows
<1>1. \A r \in TransactionRecords : Advances(r, Cancel(ReleaseReserve(r)))
  <2> SUFFICES ASSUME NEW r \in TransactionRecords
               PROVE  Advances(r, Cancel(ReleaseReserve(r)))
    OBVIOUS
  <2>1. /\ ReleaseReserve(r) \in TransactionRecords
        /\ Cancel(ReleaseReserve(r)) \in TransactionRecords
    BY MethodsTyped
  <2>2. /\ Advances(r, ReleaseReserve(r))
        /\ Advances(ReleaseReserve(r), Cancel(ReleaseReserve(r)))
    BY <2>1, MethodsAdvance
  <2>. QED
    BY <2>1, <2>2 DEF Advances, TransactionRecords
<1>. QED
  BY <1>1, StaysAdvances, PutAdvances, MethodsAdvance, AdvancingGrows
  DEF CancelTask, CancelDisabled, CancelDisableFails, DisableFails, RequestRefund,
      RefundDispensed, RefundFails, EndCancel, EndSale, Basic, TypeOK

LEMMA ClosingGrows ==
    ASSUME Basic, ConfirmTask \/ TimeoutTask \/ LeaveCancel \/ LeaveIdle \/ EndRecovery
    PROVE  CashGrows
<1>1. CASE ConfirmTask \/ TimeoutTask
  BY <1>1, StaysAdvances, PutAdvances, MethodsAdvance, AdvancingGrows
  DEF ConfirmTask, PickupClosed, PickupCloseFails, TimeoutTask, TimeoutCloses,
      TimeoutClosed, TimeoutCloseFails, Basic, TypeOK
<1>2. CASE LeaveCancel \/ LeaveIdle \/ EndRecovery
  BY <1>2, StaysAdvances, PutAdvances, MethodsAdvance, AdvancingGrows
  DEF LeaveCancel, LeaveIdle, EndRecovery, Basic, TypeOK
<1>. QED
  BY <1>1, <1>2

(* The cash counted for a sale is never taken back from it.                *)
LEMMA CashOnlyGrows ==
    ASSUME Basic, SaleSafe, Next
    PROVE  CashGrows
<1>1. CASE CheckoutTask \/ ValidatorTask
  BY <1>1, CheckoutGrows, ValidatorGrows
<1>2. CASE \E k \in Cancellers : CancelTask(k)
  BY <1>2, CancelGrows
<1>3. CASE ConfirmTask \/ TimeoutTask \/ LeaveCancel \/ LeaveIdle \/ EndRecovery
  BY <1>3, ClosingGrows
<1>4. ASSUME NEW t \in Tx,
             \/ BeginCancel("cancel", t) \/ BeginCancel("idle", t)
             \/ BeginConfirm(t) \/ PickupExpires(t) \/ BeginRecovery(t)
      PROVE  CashGrows
  BY <1>4, StaysAdvances, PutAdvances, MethodsAdvance, AdvancingGrows
  DEF BeginCancel, BeginConfirm, PickupExpires, BeginRecovery, Basic, TypeOK
<1>5. CASE Supervisors
  <2>1. CASE IdleFires
    <3>1. IdleTarget \in Tx
      BY <2>1, StateAssumption DEF IdleFires, IdleTarget, Basic, TypeOK, SaleIds
    <3>. QED
      BY <2>1, <3>1, <1>4 DEF IdleFires
  <2>2. CASE IdleRelaxes
    BY <2>2, StillGrows DEF IdleRelaxes, Basic
  <2>. QED
    BY <1>4, <1>5, <2>1, <2>2 DEF Supervisors
<1>6. CASE Customer
  BY <1>4, <1>6, StillGrows
  DEF Customer, TapBuy, InsertBill, TapScreen, TapPickup, TapCancel, Basic
<1>7. CASE Operators
  <2>1. CASE \E t \in Tx : OrderDone(t) \/ OrderCancel(t) \/ BeginRecovery(t)
    BY <1>4, <2>1 DEF OrderDone, OrderCancel
  <2>2. CASE EnterServiceMode \/ ExitServiceMode \/ RefreshStatus \/ ClearDrift
             \/ ClearRestricted
    BY <2>2, StillGrows
    DEF EnterServiceMode, ExitServiceMode, RefreshStatus, ClearDrift, ClearRestricted, Basic
  <2>. QED
    BY <1>7, <2>1, <2>2 DEF Operators
<1>8. CASE Environment
  BY <1>8, StillGrows DEF Environment, ValidatorBreaks, HealthBlocks, HealthUnblocks, Basic
<1>. QED
  BY <1>1, <1>2, <1>3, <1>5, <1>6, <1>7, <1>8 DEF Next

DurablePaid == DurableTypeOK /\ SaleSafe /\ JournalCommits /\ RowsFollow

(* With autocommit the tables stay or take up sales.                       *)
LEMMA RowsGain ==
    ASSUME Run, ~txnOpen
    PROVE  rows' = rows \/ \E t : Save(t)
BY RowsMove DEF RolledBack

(* A row that is written shows the sale as it is.                          *)
LEMMA SavedRow ==
    ASSUME RowsTyped(rows), NEW t, Save(t), NEW u \in DOMAIN rows'.sales
    PROVE  /\ u \in Tx
           /\ \/ rows'.sales[u] = tx'[u]
              \/ u \in DOMAIN rows.sales /\ rows'.sales[u] = rows.sales[u]
BY DEF RowsTyped, Save

LEMMA RowsKept ==
    ASSUME DurablePaid, Run
    PROVE  /\ DOMAIN rows.sales \subseteq DOMAIN rows'.sales
           /\ \A u \in DOMAIN rows'.sales :
                 \/ rows'.sales[u] = tx'[u]
                 \/ u \in DOMAIN rows.sales /\ rows'.sales[u] = rows.sales[u]
<1>1. ~txnOpen /\ RowsTyped(rows)
  BY DEF DurablePaid, JournalCommits, DurableTypeOK
<1>2. CASE rows' = rows
  BY <1>2
<1>3. ASSUME NEW t, Save(t)
      PROVE  DOMAIN rows.sales \subseteq DOMAIN rows'.sales
  BY <1>3 DEF Save
<1>. QED
  BY <1>1, <1>2, <1>3, RowsGain, SavedRow

(* The rows show no more cash than was counted, and what is paid for on    *)
(* the disk stays so.                                                      *)
LEMMA RunFollows ==
    ASSUME DurablePaid, Run
    PROVE  /\ \A t \in DOMAIN rows'.sales :
                 /\ rows'.sales[t].accepted <= tx'[t].accepted
                 /\ rows'.sales[t].status = "unborn" => rows'.sales[t].session = "none"
                 /\ rows'.sales[t].session = "none" => rows'.sales[t].accepted = 0
           /\ \A t \in Tx : PaidOnDisk(t) => PaidOnDisk(t)'
<1>1. /\ Next /\ Basic /\ Basic' /\ SaleSafe /\ SaleSafe' /\ CashGrows
      /\ RowsTyped(rows) /\ RowsTyped(rows')
  <2>1. Next /\ Basic /\ SaleSafe /\ DurableTypeOK
    BY RunIsStep, DurableBasic DEF DurablePaid
  <2>. QED
    BY <2>1, StepBasic, StepSafe, CashOnlyGrows, RunTyped DEF DurableTypeOK
<1>2. \A t \in Tx : tx[t] \in TransactionRecords /\ tx'[t] \in TransactionRecords
  BY <1>1 DEF Basic, TypeOK
<1>3. \A t \in Tx : tx[t].accepted \in Nat /\ tx'[t].accepted \in Nat
  BY <1>2 DEF TransactionRecords
<1>4. \A t \in DOMAIN rows.sales : t \in Tx /\ rows.sales[t].accepted \in Nat
  BY <1>1 DEF RowsTyped, TransactionRecords
<1>5. ASSUME NEW t \in DOMAIN rows'.sales
      PROVE  /\ rows'.sales[t].accepted <= tx'[t].accepted
             /\ rows'.sales[t].status = "unborn" => rows'.sales[t].session = "none"
             /\ rows'.sales[t].session = "none" => rows'.sales[t].accepted = 0
  <2>1. t \in Tx
    BY <1>1 DEF RowsTyped
  <2>2. CASE rows'.sales[t] = tx'[t]
    BY <1>1, <1>3, <2>1, <2>2 DEF SaleSafe, FreshSales, Born
  <2>3. CASE t \in DOMAIN rows.sales /\ rows'.sales[t] = rows.sales[t]
    <3>1. /\ rows.sales[t].accepted <= tx[t].accepted
          /\ rows.sales[t].status = "unborn" => rows.sales[t].session = "none"
          /\ rows.sales[t].session = "none" => rows.sales[t].accepted = 0
      BY <2>3 DEF DurablePaid, RowsFollow
    <3>2. tx'[t].accepted >= tx[t].accepted
      BY <1>1, <2>1 DEF CashGrows
    <3>. QED
      BY <1>3, <1>4, <2>1, <2>3, <3>1, <3>2
  <2>. QED
    BY <2>2, <2>3, RowsKept
<1>6. ASSUME NEW t \in Tx, PaidOnDisk(t)
      PROVE  PaidOnDisk(t)'
  <2>1. t \in DOMAIN rows.sales /\ rows.sales[t].accepted >= Price
    BY <1>6 DEF PaidOnDisk
  <2>2. t \in DOMAIN rows'.sales
    BY <2>1, RowsKept
  <2>3. rows'.sales[t].accepted >= Price
    <3>1. CASE rows'.sales[t] = tx'[t]
      <4>1. rows.sales[t].accepted <= tx[t].accepted
        BY <2>1 DEF DurablePaid, RowsFollow
      <4>2. tx'[t].accepted >= tx[t].accepted
        BY <1>1 DEF CashGrows
      <4>. QED
        BY <1>3, <1>4, <2>1, <3>1, <4>1, <4>2, PriceAssumption
    <3>2. CASE rows'.sales[t] = rows.sales[t]
      BY <2>1, <3>2
    <3>. QED
      BY <2>2, <3>1, <3>2, RowsKept
  <2>. QED
    BY <2>2, <2>3 DEF PaidOnDisk
<1>. QED
  BY <1>5, <1>6

(* A payment is confirmed by the steps that PaymentSaves saves after.      *)
LEMMA ConfirmedIsSaved ==
    ASSUME DurableTypeOK, Run, pc'["validator"] = "paid", pc["validator"] # "paid"
    PROVE  Save(on["validator"]) /\ on'["validator"] = on["validator"]
<1> USE DEF DurableTypeOK
<1>0. TypeOK /\ Next /\ ~ValidatorStays
  BY RunIsStep DEF ValidatorStays
<1>1. ASSUME NEW label, NEW t, label # "paid",
             Go("validator", label) \/ Start("validator", t, label)
      PROVE  FALSE
  BY <1>1, ValidatorMoves
<1>2. CASE PaymentSaves
  <2>1. Save(on["validator"])
    BY <1>2 DEF PaymentSaves, SaleOf
  <2>2. Go("validator", "paid")
    BY <1>1, <1>2 DEF PaymentSaves, CompletionDisabled, ChangeDispensed, Repaid
  <2>. QED
    BY <2>1, <2>2, TaskNames DEF Go, TypeOK
<1>3. ~ReleaseSaves
  BY <1>1 DEF ReleaseSaves, MotorDone, MotorFails, WindowOpens, WindowOpenFails, FaultSale
<1>4. ~PickupSaves
  <2>1. ASSUME PickupClosed \/ TimeoutCloseFails \/ \E t \in Tx : PickupExpires(t)
        PROVE  FALSE
    BY <1>0, <2>1, OtherTask, TaskNames
    DEF PickupClosed, TimeoutCloseFails, PickupExpires
  <2>. QED
    BY <2>1 DEF PickupSaves
<1>5. ~CancelSaves
  <2>1. ASSUME NEW k \in Cancellers,
               CancelDisabled(k) \/ EndCancel(k) \/ RefundDispensed(k) \/ RefundFails(k)
                  \/ CancelDisableFails(k)
        PROVE  FALSE
    <3>1. \E label : Go(k, label)
      BY <2>1 DEF CancelDisabled, CancelDisableFails, RefundDispensed, RefundFails,
                  EndCancel, EndSale, GiveUp
    <3>2. k \in Tasks \ {"checkout", "validator"}
      BY TaskNames DEF Cancellers
    <3>. QED
      BY <1>0, <3>1, <3>2, OtherTask
  <2>. QED
    BY <2>1 DEF CancelSaves
<1>6. ~OperatorSaves
  <2>1. ~(EnterServiceMode \/ ExitServiceMode \/ HealthBlocks)
    BY <1>0 DEF EnterServiceMode, ExitServiceMode, HealthBlocks, ValidatorStays
  <2>2. ~(\E t \in Tx : BeginRecovery(t))
    BY <1>0, OtherTask, TaskNames DEF BeginRecovery
  <2>. QED
    BY <2>1, <2>2 DEF OperatorSaves
<1>7. ~SilentStep
  <2>2. ~(\/ TakeEvent \/ CreditBill \/ ValidatorFault \/ BillNotEnough \/ BeginCompletion
          \/ CompletionDisableFails \/ RequestChange \/ ChangeFails \/ RepayFails
          \/ AuthorizeSale)
    BY <1>1 DEF TakeEvent, CreditBill, ValidatorFault, BillNotEnough, BeginCompletion,
                CompletionDisableFails, RequestChange, ChangeFails, RepayFails, AuthorizeSale
  <2>3. ~CheckoutTask
    <3>1. ASSUME CheckoutTask PROVE \E label : Go("checkout", label)
      BY <3>1 DEF CheckoutTask, SensorMismatch, RefusePurchase, CreatePurchase, StopFails,
                StartPayment, AcceptanceEnabled, AcceptanceNotEnabled
    <3>. QED
      BY <1>0, <3>1, OthersStay, TaskNames DEF ValidatorStays
  <2>4. ~(\/ \E k \in Cancellers : RequestRefund(k)
          \/ LeaveCancel \/ LeaveIdle
          \/ PickupCloseFails \/ TimeoutCloses \/ TimeoutClosed \/ EndRecovery)
    BY <1>0, OtherTask, TaskNames
    DEF RequestRefund, LeaveCancel, LeaveIdle, PickupCloseFails, TimeoutCloses,
        TimeoutClosed, EndRecovery, Cancellers
  <2>5. ~(IdleFires \/ IdleRelaxes)
    BY <1>0, OthersStay, TaskNames DEF IdleFires, IdleRelaxes, BeginCancel, ValidatorStays
  <2>6. ~Customer
    BY <1>0, OthersStay, TaskNames
    DEF Customer, TapBuy, InsertBill, TapPickup, BeginConfirm, TapCancel, BeginCancel,
        TapScreen, ValidatorStays
  <2>7. ~(\/ \E t \in Tx : OrderDone(t) \/ OrderCancel(t)
          \/ RefreshStatus \/ ClearDrift \/ ClearRestricted
          \/ ValidatorBreaks \/ HealthUnblocks)
    BY <1>0, OthersStay, TaskNames
    DEF OrderDone, BeginConfirm, OrderCancel, BeginCancel, RefreshStatus, ClearDrift,
        ClearRestricted, ValidatorBreaks, HealthUnblocks, ValidatorStays
  <2>. QED
    BY <2>2, <2>3, <2>4, <2>5, <2>6, <2>7 DEF SilentStep
<1>. QED
  BY <1>2, <1>3, <1>4, <1>5, <1>6, <1>7 DEF Run

(* The motor is asked for a sale whose payment was confirmed.              *)
LEMMA FromPaid ==
    ASSUME TypeOK, Next, pc'["validator"] \in {"paid", "motor"}
    PROVE  /\ on'["validator"] = on["validator"]
           /\ pc["validator"] \in {"paid", "motor"} \/ pc'["validator"] = "paid"
<1>1. CASE ValidatorStays
  BY <1>1 DEF ValidatorStays
<1>2. CASE ValidatorTask
  <2>1. ASSUME NEW label, NEW t, label # "paid", label # "motor",
               Go("validator", label) \/ Start("validator", t, label)
        PROVE  FALSE
    BY <2>1, ValidatorMoves
  <2>2. CompletionDisabled \/ ChangeDispensed \/ AuthorizeSale
    BY <1>2, <2>1
    DEF ValidatorTask, TakeEvent, CreditBill, ValidatorFault, BillNotEnough,
        BeginCompletion, CompletionDisableFails, RequestChange, ChangeFails, Repaid,
        RepayFails, MotorDone, MotorFails, WindowOpens, WindowOpenFails, FaultSale
  <2>3. CASE CompletionDisabled \/ ChangeDispensed
    <3>1. Go("validator", "paid")
      BY <2>1, <2>3 DEF CompletionDisabled, ChangeDispensed
    <3>. QED
      BY <3>1, TaskNames DEF Go, TypeOK
  <2>4. CASE AuthorizeSale
    <3>1. pc["validator"] = "paid" /\ Go("validator", "motor")
      BY <2>1, <2>4 DEF AuthorizeSale
    <3>. QED
      BY <3>1, TaskNames DEF Go, TypeOK
  <2>. QED
    BY <2>2, <2>3, <2>4
<1>. QED
  BY <1>1, <1>2, OnlyItself

LEMMA RunPaid ==
    ASSUME NoKioskCancellation, DurablePaid, Run
    PROVE  DurablePaid'
<1>1. /\ Next /\ Basic /\ TypeOK /\ SaleSafe /\ Journalling /\ DurableTypeOK
      /\ DurableTypeOK' /\ Basic' /\ SaleSafe'
  <2>1. Next /\ Basic /\ SaleSafe /\ Journalling /\ DurableTypeOK
    BY RunIsStep, DurableBasic DEF DurablePaid, Journalling
  <2>. QED
    BY <2>1, StepBasic, StepSafe, RunTyped DEF Basic
<1>2. JournalCommits'
  BY <1>1, StepCommits
<1>3. \A t \in Tx : PaidOnDisk(t) => PaidOnDisk(t)'
  BY RunFollows
<1>4. ASSUME pc'["validator"] \in {"paid", "motor"}
      PROVE  PaidOnDisk(on["validator"])' /\ on'["validator"] = on["validator"]
  <2>0. on'["validator"] \in Tx
    BY <1>1, <1>4, TaskNames DEF Basic, TasksHaveSales, AtRest, TypeOK, SaleIds
  <2>1. CASE pc["validator"] \in {"paid", "motor"} /\ on'["validator"] = on["validator"]
    BY <1>3, <2>0, <2>1 DEF DurablePaid, RowsFollow
  <2>2. CASE pc'["validator"] = "paid" /\ pc["validator"] # "paid"
    <3>1. Save(on["validator"]) /\ on'["validator"] = on["validator"]
      BY <1>1, <2>2, ConfirmedIsSaved
    <3>2. on'["validator"] \in DOMAIN rows'.sales
          /\ rows'.sales[on'["validator"]] = tx'[on'["validator"]]
      BY <2>0, <3>1 DEF Save
    <3>3. tx'[on'["validator"]].accepted >= Price
      BY <1>1, <2>2 DEF SaleSafe, CompletingPaid, Completing
    <3>. QED
      BY <3>1, <3>2, <3>3 DEF PaidOnDisk
  <2>. QED
    BY <1>1, <1>4, <2>1, <2>2, FromPaid
<1>5. ASSUME NEW t \in Tx, vended'[t] > 0
      PROVE  PaidOnDisk(t)'
  <2>1. CASE vended[t] > 0
    BY <1>3, <2>1 DEF DurablePaid, RowsFollow
  <2>2. CASE vended'[t] # vended[t]
    <3>1. pc["validator"] = "motor" /\ on["validator"] = t
      BY <1>1, <2>2, VendsOwnSale
    <3>. QED
      BY <1>3, <3>1 DEF DurablePaid, RowsFollow
  <2>. QED
    BY <1>5, <2>1, <2>2
<1>. QED
  BY <1>1, <1>2, <1>4, <1>5, RunFollows DEF DurablePaid, RowsFollow

(* A power failure may turn the motor of a sale that is paid for on disk.  *)
LEMMA LossPaid ==
    ASSUME DurablePaid, PowerLoss
    PROVE  DurablePaid'
<1> USE DEF DurablePaid
<1>1. DurableTypeOK' /\ DurableTypeOK /\ TypeOK
  BY LossTyped DEF DurableTypeOK
<1>2. /\ rows' = rows /\ tx' = tx /\ pc' = [k \in Tasks |-> "rest"] /\ ~txnOpen'
      /\ MotorMayHaveTurned
  BY DEF PowerLoss, DiskRows, JournalCommits
<1>3. JournalCommits'
  BY <1>2, TaskNames DEF JournalCommits
<1>4. ASSUME NEW t \in Tx, vended'[t] > 0
      PROVE  vended[t] > 0 \/ (pc["validator"] = "motor" /\ on["validator"] = t)
  BY <1>1, <1>2, <1>4 DEF MotorMayHaveTurned, Awaits, TypeOK
<1>5. SaleSafe'
  <2>1. FreshSales' /\ CompletingPaid'
    BY <1>2, TaskNames DEF SaleSafe, FreshSales, Born, CompletingPaid, Completing
  <2>2. PaidBeforeVend'
    BY <1>2, <1>4 DEF SaleSafe, PaidBeforeVend, CompletingPaid, Completing
  <2>. QED
    BY <2>1, <2>2 DEF SaleSafe
<1>6. RowsFollow'
  <2>1. \A t \in Tx : vended'[t] > 0 => PaidOnDisk(t)'
    BY <1>2, <1>4 DEF RowsFollow, PaidOnDisk
  <2>. QED
    BY <1>2, <2>1, TaskNames DEF RowsFollow
<1>. QED
  BY <1>1, <1>3, <1>5, <1>6

(* A start leaves the rows as the sales that it restored from them.        *)
LEMMA ReturnRows ==
    ASSUME DurableTypeOK, PowerReturns
    PROVE  /\ DOMAIN rows'.sales = DOMAIN rows.sales
           /\ \A t \in DOMAIN rows.sales : rows'.sales[t] = tx'[t]
<1>1. RowsTyped(rows) /\ tx' = [t \in Tx |-> RestoredSale(t)]
  BY DEF DurableTypeOK, PowerReturns
<1>2. \A t \in DOMAIN rows.sales :
          tx'[t] = IF assembly = "simulator" /\ t \in Restored
                   THEN Detect(t, rows.sales[t]) ELSE rows.sales[t]
  BY <1>1 DEF RestoredSale, RowsTyped
<1>3. CASE assembly = "production"
  BY <1>2, <1>3 DEF PowerReturns
<1>4. CASE assembly = "simulator"
  <2>1. rows' = [rows EXCEPT !.sales =
                    [t \in DOMAIN @ |-> IF t \in Restored THEN tx'[t] ELSE @[t]]]
    BY <1>4 DEF PowerReturns
  <2>2. rows'.sales = [t \in DOMAIN rows.sales |->
                          IF t \in Restored THEN tx'[t] ELSE rows.sales[t]]
    BY <1>1, <2>1 DEF RowsTyped
  <2>. QED
    BY <1>2, <1>4, <2>2
<1>. QED
  BY <1>3, <1>4 DEF DurableTypeOK

(* What a start restores is what the rows show, as far as cash goes.       *)
LEMMA ReturnPaid ==
    ASSUME DurablePaid, PowerReturns
    PROVE  DurablePaid'
<1> USE DEF DurablePaid
<1>1. DurableTypeOK' /\ DurableTypeOK /\ TypeOK' /\ RowsTyped(rows)
  BY ReturnTyped DEF DurableTypeOK
<1>2. /\ tx' = [t \in Tx |-> RestoredSale(t)] /\ UNCHANGED <<vended, pc, on, txnOpen, journal>>
      /\ pc = [k \in Tasks |-> "rest"] /\ ~txnOpen
  BY <1>1 DEF PowerReturns, TasksStart, DurableTypeOK
<1>3. ASSUME NEW t \in DOMAIN rows.sales
      PROVE  /\ t \in Tx /\ rows.sales[t] \in TransactionRecords
             /\ tx'[t].accepted = rows.sales[t].accepted
             /\ tx'[t].session = rows.sales[t].session
             /\ tx'[t].status = "unborn" => rows.sales[t].status = "unborn"
  <2>1. t \in Tx /\ rows.sales[t] \in TransactionRecords
    BY <1>1 DEF RowsTyped
  <2>2. tx'[t] = RestoredSale(t)
    BY <1>2, <2>1
  <2>. QED
    BY <2>1, <2>2, DetectKeeps DEF RestoredSale
<1>4. ASSUME NEW t \in Tx \ DOMAIN rows.sales
      PROVE  tx'[t] = UnbornTransaction
  BY <1>2 DEF RestoredSale
<1>5. DOMAIN rows'.sales = DOMAIN rows.sales
      /\ \A t \in DOMAIN rows.sales : rows'.sales[t] = tx'[t]
  BY <1>1, ReturnRows
<1>6. \A t \in DOMAIN rows.sales :
          /\ tx'[t].status = "unborn" => tx'[t].session = "none"
          /\ tx'[t].session = "none" => tx'[t].accepted = 0
  BY <1>3 DEF RowsFollow
<1>7. \A t \in Tx : vended'[t] > 0 => PaidOnDisk(t)' /\ tx'[t].accepted >= Price
  BY <1>2, <1>3, <1>5 DEF RowsFollow, PaidOnDisk
<1>8. SaleSafe'
  <2>1. \A t \in Tx : /\ tx'[t].status = "unborn" => tx'[t].session = "none"
                      /\ tx'[t].session = "none" => tx'[t].accepted = 0
    BY <1>4, <1>6 DEF UnbornTransaction
  <2>2. FreshSales' /\ CompletingPaid'
    BY <1>2, <2>1, TaskNames DEF FreshSales, Born, CompletingPaid, Completing
  <2>. QED
    BY <1>7, <2>2 DEF SaleSafe, PaidBeforeVend
<1>9. RowsFollow'
  <2>1. \A t \in DOMAIN rows'.sales : rows'.sales[t].accepted <= tx'[t].accepted
    <3>1. \A t \in DOMAIN rows.sales : tx'[t].accepted \in Nat
      BY <1>1, <1>3 DEF TypeOK, TransactionRecords
    <3>. QED
      BY <1>5, <3>1
  <2>. QED
    BY <1>2, <1>5, <1>6, <1>7, <2>1, TaskNames DEF RowsFollow
<1>10. JournalCommits'
  BY <1>2, TaskNames DEF JournalCommits
<1>. QED
  BY <1>1, <1>8, <1>9, <1>10

LEMMA StepPaid ==
    ASSUME NoKioskCancellation
    PROVE  DurablePaid /\ [DurableNext]_durableVars => DurablePaid'
<1> SUFFICES ASSUME DurablePaid, [DurableNext]_durableVars
             PROVE  DurablePaid'
  OBVIOUS
<1>1. CASE UNCHANGED durableVars
  <2>1. DurableTypeOK' /\ SaleSafe'
    BY <1>1, StillTyped, StillSafe, DurableBasic DEF DurablePaid, durableVars, vars
  <2>. QED
    BY <1>1, <2>1 DEF DurablePaid, durableVars, vars, JournalCommits, RowsFollow, PaidOnDisk
<1>. QED
  BY <1>1, RunPaid, LossPaid, ReturnPaid DEF DurableNext

LEMMA InitPaid == DurableInit => DurablePaid
<1> SUFFICES ASSUME DurableInit PROVE DurablePaid
  OBVIOUS
<1>1. SaleSafe
  BY TaskNames
  DEF DurableInit, Init, SaleSafe, FreshSales, Born, UnbornTransaction, CompletingPaid,
      Completing, PaidBeforeVend
<1>2. JournalCommits /\ RowsFollow
  BY TaskNames DEF DurableInit, Init, JournalCommits, RowsFollow, NoRows
<1>. QED
  BY <1>1, <1>2, InitTyped DEF DurablePaid

(* A restart finds every sale whose product has left the machine, also the *)
(* one that left as the power failed: its row is on disk and shows the     *)
(* price paid.  The hypothesis is what the projector needs: the kiosk's    *)
(* CancelPurchase joins the rows to its own transaction and may roll them  *)
(* back.                                                                   *)
THEOREM ReleasedSalesAreOnDisk ==
    ASSUME NoKioskCancellation
    PROVE  DurableSpec => []ReleaseIsOnDisk
<1>1. DurablePaid => ReleaseIsOnDisk
  BY DEF DurablePaid, JournalCommits, RowsFollow, PaidOnDisk, ReleaseIsOnDisk, DiskRows
<1>2. DurableSpec => []DurablePaid
  BY InitPaid, StepPaid, PTL DEF DurableSpec
<1>. QED
  BY <1>1, <1>2, PTL

-----------------------------------------------------------------------------
(***************************************************************************)
(* Whoever dispenses money has put an intent on the disk.  A refund in     *)
(* place of change that has no plan is the exception: it is announced by   *)
(* nothing (complete_payment, refund of the accepted amount).              *)
(***************************************************************************)

Announced == DurableTypeOK /\ JournalCommits /\ PayoutsAnnounced

LEMMA ValidatorAnnounces ==
    ASSUME ChangeHasPlan, TypeOK, Next, pc'["validator"] \in {"payout", "change", "repay"}
    PROVE  /\ on'["validator"] = on["validator"]
           /\ \/ pc["validator"] \in {"payout", "change", "repay"}
              \/ Intent(on["validator"], "change") \in journal'
<1>1. CASE ValidatorStays
  BY <1>1 DEF ValidatorStays
<1>2. CASE ValidatorTask
  <2>1. ASSUME NEW label, NEW t, label # "payout", label # "change", label # "repay",
               Go("validator", label) \/ Start("validator", t, label)
        PROVE  FALSE
    BY <2>1, ValidatorMoves
  <2>2. CompletionDisabled \/ RequestChange \/ ChangeDispensed \/ ChangeFails
    BY <1>2, <2>1
    DEF ValidatorTask, TakeEvent, CreditBill, ValidatorFault, BillNotEnough,
        BeginCompletion, CompletionDisableFails, Repaid, RepayFails, AuthorizeSale,
        MotorDone, MotorFails, WindowOpens, WindowOpenFails, FaultSale
  <2>3. CASE CompletionDisabled
    <3>1. /\ Go("validator", "payout")
          /\ Write({Outcome(on["validator"], "disable"), Intent(on["validator"], "change")})
      BY <2>1, <2>3 DEF CompletionDisabled, ChangeHasPlan
    <3>. QED
      BY <3>1, TaskNames DEF Go, TypeOK, Write
  <2>4. CASE RequestChange \/ ChangeDispensed \/ ChangeFails
    <3>1. /\ pc["validator"] \in {"payout", "change"}
          /\ Go("validator", "change") \/ Go("validator", "repay") \/ Go("validator", "paid")
      BY <2>4 DEF RequestChange, ChangeDispensed, ChangeFails
    <3>2. ~Go("validator", "paid")
      BY <2>1
    <3>. QED
      BY <3>1, <3>2, TaskNames DEF Go, TypeOK
  <2>. QED
    BY <2>2, <2>3, <2>4
<1>. QED
  BY <1>1, <1>2, OnlyItself

IdleStays == pc'["idle"] = pc["idle"] /\ on'["idle"] = on["idle"]

(* Nobody else moves the idle supervisor's cancellation.                   *)
LEMMA OnlyIdle ==
    ASSUME TypeOK, Next, ~CancelTask("idle"), ~LeaveIdle, ~IdleFires
    PROVE  IdleStays
<1>1. ASSUME NEW k \in Tasks \ {"idle"}, NEW t, NEW label, Go(k, label) \/ Start(k, t, label)
      PROVE  IdleStays
  BY <1>1, OthersStay, TaskNames DEF IdleStays
<1>2. CASE CheckoutTask
  <2>1. \E label : Go("checkout", label)
    BY <1>2 DEF CheckoutTask, SensorMismatch, RefusePurchase, CreatePurchase, StopFails,
                StartPayment, AcceptanceEnabled, AcceptanceNotEnabled
  <2>. QED
    BY <1>1, <2>1, TaskNames
<1>3. CASE ValidatorTask
  <2>1. \E label, t : Go("validator", label) \/ Start("validator", t, label)
    BY <1>3 DEF ValidatorTask, TakeEvent, CreditBill, ValidatorFault, BillNotEnough,
         BeginCompletion, CompletionDisabled, CompletionDisableFails, RequestChange,
         ChangeDispensed, ChangeFails, Repaid, RepayFails, AuthorizeSale, MotorDone,
         MotorFails, WindowOpens, WindowOpenFails, FaultSale
  <2>. QED
    BY <1>1, <2>1, TaskNames
<1>4. CASE \E k \in Cancellers : CancelTask(k)
  <2>1. CancelTask("cancel")
    BY <1>4 DEF Cancellers
  <2>2. \E label : Go("cancel", label)
    BY <2>1 DEF CancelTask, CancelDisabled, CancelDisableFails, RequestRefund,
                RefundDispensed, RefundFails, EndCancel, EndSale, GiveUp
  <2>. QED
    BY <1>1, <2>2, TaskNames
<1>5. CASE ConfirmTask \/ TimeoutTask \/ LeaveCancel \/ EndRecovery
  <2>1. \E k \in {"confirm", "timeout", "cancel", "recover"} : \E label : Go(k, label)
    BY <1>5 DEF ConfirmTask, PickupClosed, PickupCloseFails, TimeoutTask, TimeoutCloses,
                TimeoutClosed, TimeoutCloseFails, LeaveCancel, EndRecovery
  <2>. QED
    BY <1>1, <2>1, TaskNames
<1>6. CASE Supervisors
  BY <1>1, <1>6, TaskNames DEF Supervisors, PickupExpires, IdleRelaxes, IdleStays
<1>7. CASE Customer
  BY <1>1, <1>7, TaskNames
  DEF Customer, TapBuy, InsertBill, TapPickup, BeginConfirm, TapCancel, BeginCancel,
      TapScreen, IdleStays
<1>8. CASE Operators \/ Environment
  BY <1>1, <1>8, TaskNames
  DEF Operators, OrderDone, BeginConfirm, OrderCancel, BeginCancel, BeginRecovery,
      EnterServiceMode, ExitServiceMode, RefreshStatus, ClearDrift, ClearRestricted,
      Environment, ValidatorBreaks, HealthBlocks, HealthUnblocks, IdleStays
<1>. QED
  BY <1>2, <1>3, <1>4, <1>5, <1>6, <1>7, <1>8 DEF Next

LEMMA IdleAnnounces ==
    ASSUME TypeOK, Next, pc'["idle"] = "refund"
    PROVE  /\ on'["idle"] = on["idle"]
           /\ pc["idle"] = "refund" \/ Intent(on["idle"], "refund") \in journal'
<1>1. ASSUME NEW label, NEW t, label # "refund", Go("idle", label) \/ Start("idle", t, label)
      PROVE  FALSE
  BY <1>1, TaskNames DEF Go, Start, TypeOK
<1>2. CASE CancelTask("idle")
  <2>1. RequestRefund("idle")
    BY <1>1, <1>2 DEF CancelTask, CancelDisabled, CancelDisableFails, RefundDispensed,
                      RefundFails, EndCancel, EndSale, GiveUp
  <2>. QED
    BY <2>1, TaskNames DEF RequestRefund, Go, Write, TypeOK
<1>3. ~LeaveIdle /\ ~IdleFires
  BY <1>1 DEF LeaveIdle, IdleFires, BeginCancel
<1>. QED
  BY <1>2, <1>3, OnlyIdle DEF IdleStays

LEMMA StepAnnounces ==
    ASSUME NoKioskCancellation, ChangeHasPlan
    PROVE  Announced /\ [DurableNext]_durableVars => Announced'
<1> SUFFICES ASSUME Announced, [DurableNext]_durableVars
             PROVE  Announced'
  OBVIOUS
<1> USE DEF Announced
<1>1. DurableTypeOK'
  BY StepTyped
<1>2. CASE Run
  <2>1. Next /\ TypeOK /\ Journalling
    BY <1>2, RunIsStep, DurableBasic DEF Journalling, Basic
  <2>2. Commits /\ JournalCommits'
    BY <2>1, NoCancelTask, StepCommits
  <2>3. PayoutsAnnounced'
    BY <2>1, <2>2, ValidatorAnnounces, IdleAnnounces DEF PayoutsAnnounced, Commits
  <2>. QED
    BY <1>1, <2>2, <2>3
<1>3. CASE PowerLoss
  BY <1>1, <1>3, TaskNames DEF PowerLoss, JournalCommits, PayoutsAnnounced
<1>4. CASE PowerReturns
  <2>1. pc' = [k \in Tasks |-> "rest"] /\ ~txnOpen'
    BY <1>4 DEF PowerReturns, TasksStart, DurableTypeOK
  <2>. QED
    BY <1>1, <2>1, TaskNames DEF JournalCommits, PayoutsAnnounced
<1>5. CASE UNCHANGED durableVars
  BY <1>1, <1>5 DEF durableVars, vars, JournalCommits, PayoutsAnnounced
<1>. QED
  BY <1>2, <1>3, <1>4, <1>5 DEF DurableNext

(* Money moves for the sale of a task that is dispensing.                  *)
LEMMA PaysBack ==
    ASSUME TypeOK, NEW t, NEW amount, PayBack(t, amount), NEW u \in Tx, u # t
    PROVE  paid'[u] = paid[u]
BY DEF PayBack, TypeOK

LEMMA WhoPays ==
    ASSUME TypeOK, Next, NEW t \in Tx, paid'[t] # paid[t]
    PROVE  \/ pc["validator"] \in {"change", "repay"} /\ on["validator"] = t
           \/ \E k \in Cancellers : pc[k] = "refund" /\ on[k] = t
<1>1. ASSUME paid' = paid
      PROVE  FALSE
  BY <1>1
<1>2. ASSUME NEW u, NEW request, NEW amounts, NEW answer,
             Dispense(u, request, amounts, answer) \/ DispenseRaises(u, request, amounts)
      PROVE  u = t
  BY <1>2, PaysBack DEF Dispense, DispenseRaises
<1>3. ASSUME NEW u, NEW amount, RefundNotPaid(u, amount)
      PROVE  u = t
  BY <1>1, <1>2, <1>3 DEF RefundNotPaid
<1>4. ~CheckoutTask
  BY <1>1 DEF CheckoutTask, SensorMismatch, RefusePurchase, CreatePurchase, StopFails,
         StartPayment, AcceptanceEnabled, AcceptanceNotEnabled
<1>5. CASE ValidatorTask
  <2>1. ChangeDispensed \/ ChangeFails \/ Repaid \/ RepayFails
    BY <1>1, <1>5
    DEF ValidatorTask, TakeEvent, CreditBill, ValidatorFault, BillNotEnough,
        BeginCompletion, CompletionDisabled, CompletionDisableFails, RequestChange,
        AuthorizeSale, MotorDone, MotorFails, WindowOpens, WindowOpenFails
  <2>2. CASE ChangeDispensed \/ ChangeFails \/ Repaid
    BY <1>2, <2>2 DEF ChangeDispensed, ChangeFails, Repaid
  <2>3. CASE RepayFails
    BY <1>3, <2>3 DEF RepayFails
  <2>. QED
    BY <2>1, <2>2, <2>3
<1>6. CASE \E k \in Cancellers : CancelTask(k)
  <2>1. PICK k \in Cancellers : CancelTask(k)
    BY <1>6
  <2>2. RefundDispensed(k) \/ RefundFails(k)
    BY <1>1, <2>1 DEF CancelTask, CancelDisabled, CancelDisableFails, RequestRefund, EndCancel
  <2>. QED
    BY <1>2, <1>3, <2>2 DEF RefundDispensed, RefundFails
<1>7. ~(ConfirmTask \/ TimeoutTask \/ LeaveCancel \/ LeaveIdle \/ EndRecovery)
  BY <1>1 DEF ConfirmTask, PickupClosed, PickupCloseFails, TimeoutTask, TimeoutCloses,
         TimeoutClosed, TimeoutCloseFails, LeaveCancel, LeaveIdle, EndRecovery
<1>8. ~Supervisors
  BY <1>1 DEF Supervisors, PickupExpires, IdleFires, IdleRelaxes, BeginCancel
<1>9. ~Customer
  BY <1>1 DEF Customer, TapBuy, InsertBill, TapPickup, BeginConfirm, TapCancel, BeginCancel,
         TapScreen
<1>10. ~(Operators \/ Environment)
  BY <1>1 DEF Operators, OrderDone, BeginConfirm, OrderCancel, BeginCancel, BeginRecovery,
         EnterServiceMode, ExitServiceMode, RefreshStatus, ClearDrift, ClearRestricted,
         Environment, ValidatorBreaks, HealthBlocks, HealthUnblocks
<1>. QED
  BY <1>4, <1>5, <1>6, <1>7, <1>8, <1>9, <1>10 DEF Next

(* A power failure lets go only of what a device was dispensing.           *)
LEMMA LossPays ==
    ASSUME TypeOK, MoneyMayHaveLeft, NEW t \in Tx, paid'[t] # paid[t]
    PROVE  \/ pc["validator"] \in {"change", "repay"} /\ on["validator"] = t
           \/ \E k \in Cancellers : pc[k] = "refund" /\ on[k] = t
<1>1. PICK gone \in SUBSET Paying :
          LET Left(k, u) == IF k \in gone /\ on[k] = u THEN AmountOf(k) ELSE 0
          IN  paid' = [u \in Tx |-> paid[u] + Left("validator", u) + Left("cancel", u)
                                            + Left("idle", u)]
  BY DEF MoneyMayHaveLeft
<1>2. paid[t] \in Nat
  BY DEF TypeOK
<1>3. \E k \in {"validator", "cancel", "idle"} : k \in gone /\ on[k] = t
  BY <1>1, <1>2
<1>. QED
  BY <1>3 DEF Paying, Cancellers

(* Money leaves a sale with an intent on the disk that a restart can find, *)
(* also the money that leaves as the power fails.                          *)
THEOREM PayoutsHaveIntents ==
    ASSUME NoKioskCancellation, ChangeHasPlan
    PROVE  DurableSpec => PayoutIntentDurable
<1> DEFINE A == \A t \in Tx : paid'[t] > paid[t] =>
                    \E step \in {"change", "refund"} : Intent(t, step) \in Durable
<1>1. DurableInit => Announced
  BY InitTyped, TaskNames DEF DurableInit, Init, Announced, JournalCommits, PayoutsAnnounced
<1>2. Announced /\ [DurableNext]_durableVars => [A]_durableVars
  <2> SUFFICES ASSUME Announced, DurableNext, NEW t \in Tx, paid'[t] > paid[t]
               PROVE  \E step \in {"change", "refund"} : Intent(t, step) \in Durable
    OBVIOUS
  <2>1. TypeOK /\ paid[t] \in Nat /\ paid'[t] # paid[t]
    BY DEF Announced, DurableTypeOK, TypeOK
  <2>2. \/ pc["validator"] \in {"change", "repay"} /\ on["validator"] = t
        \/ \E k \in Cancellers : pc[k] = "refund" /\ on[k] = t
    <3>1. CASE Run
      BY <2>1, <3>1, RunIsStep, WhoPays
    <3>2. CASE PowerLoss
      BY <2>1, <3>2, LossPays DEF PowerLoss
    <3>3. ~PowerReturns
      BY <2>1 DEF PowerReturns
    <3>. QED
      BY <3>1, <3>2, <3>3 DEF DurableNext
  <2>. QED
    BY <2>2 DEF Announced, PayoutsAnnounced, JournalCommits, Durable, Cancellers
<1> HIDE DEF A
<1>3. DurableSpec => [][A]_durableVars
  BY <1>1, <1>2, StepAnnounces, PTL DEF DurableSpec
<1>. QED
  BY <1>3 DEF A, PayoutIntentDurable

-----------------------------------------------------------------------------
(***************************************************************************)
(* No sale over an interrupted release.  A release record is opened by the *)
(* validator task and closed by the same task or never: so an open one     *)
(* belongs to the sale in its hands, or to a task that died, or to an      *)
(* earlier boot.  A sale with one is kept for an operator in memory and on *)
(* disk from before the record was written (ConfirmedGoesOn,               *)
(* InterruptedAreKept); hence every start restores it and raises the       *)
(* blocker.  From then on the machine is Locked: the tasks that could sell *)
(* are at rest, the queue holds no cash, and every sale there is belongs   *)
(* to an earlier boot (KnownSales), so the only way out is a technician    *)
(* who recovers one of those.  The lemmas follow the parts of              *)
(* ReleaseInvariant, first through a step of the machine, then through a   *)
(* power failure and a start.                                              *)
(***************************************************************************)

(* What neither moves a task nor writes for a sale.                        *)
Aside ==
    \/ TapScreen \/ EnterServiceMode \/ ExitServiceMode \/ RefreshStatus \/ ClearDrift
    \/ ClearRestricted \/ Environment

(* The steps that are left where nobody cancels and no idle supervisor     *)
(* runs.                                                                   *)
SaleStep ==
    \/ CheckoutTask \/ ValidatorTask \/ ConfirmTask \/ TimeoutTask \/ EndRecovery
    \/ \E t \in Tx : PickupExpires(t) \/ TapBuy(t) \/ TapPickup(t) \/ BeginRecovery(t)
    \/ \E b \in Bills : InsertBill(b)
    \/ Aside

LEMMA FewerSteps ==
    ASSUME NoKioskCancellation, NoIdleSupervisor, Journalling, pc["idle"] = "rest", Next
    PROVE  SaleStep /\ pc'["idle"] = "rest"
<1> USE DEF Journalling, Basic, JournalCommits
<1>1. ASSUME NEW k \in Cancellers, pc[k] = "rest"
      PROVE  ~CancelTask(k)
  BY <1>1 DEF CancelTask, CancelDisabled, CancelDisableFails, RequestRefund,
              RefundDispensed, RefundFails, EndCancel
<1>2. /\ ~(\E k \in Cancellers : CancelTask(k)) /\ ~CancelTask("idle")
      /\ ~LeaveCancel /\ ~LeaveIdle
  BY <1>1 DEF LeaveCancel, LeaveIdle, Cancellers
<1>3. ~IdleFires /\ ~IdleRelaxes
  BY DEF IdleFires, IdleRelaxes, NoIdleSupervisor
<1>4. ~(\E t \in Tx : TapCancel(t) \/ OrderCancel(t) \/ OrderDone(t))
  BY DEF TapCancel, OrderCancel, OrderDone, NoKioskCancellation
<1>5. IdleStays
  BY <1>2, <1>3, OnlyIdle
<1>. QED
  BY <1>2, <1>3, <1>4, <1>5
  DEF Next, SaleStep, Supervisors, Customer, Operators, Aside, IdleStays

LEMMA StatesAsked ==
    ASSUME NEW s \in MachineStates
    PROVE  /\ MayEnter(s, "PAYMENT_ACCEPTED") => s \in {"ACCEPTING_CASH", "PAYMENT_ACCEPTED"}
           /\ MayEnter(s, "DISPENSING_PRODUCT")
                => s \in {"PAYMENT_ACCEPTED", "DISPENSING_CHANGE", "DISPENSING_PRODUCT"}
           /\ MayEnter(s, "OPENING_DELIVERY_WINDOW")
                => s \in {"DISPENSING_PRODUCT", "OPENING_DELIVERY_WINDOW"}
           /\ MayEnter(s, "WAITING_FOR_CUSTOMER_PICKUP")
                => s \in {"OPENING_DELIVERY_WINDOW", "WAITING_FOR_CUSTOMER_PICKUP"}
           /\ MayEnter(s, "CLOSING_DELIVERY_WINDOW") => s \in PickupStates
           /\ MayEnter(s, "ACCEPTING_CASH") => s \in {"WAITING_FOR_PAYMENT", "ACCEPTING_CASH"}
BY DEF MachineStates, MayEnter, CanTransition, AllowedTransitions, PickupStates

-----------------------------------------------------------------------------
(* The journal of the releases.                                            *)

ReleaseRecords(t) == OpenSteps(t) \cap ReleaseSteps

LEMMA OtherRecords ==
    ASSUME NEW u, NEW step, step \notin ReleaseSteps,
           \/ journal' = journal
           \/ journal' = journal \cup {Intent(u, step)}
           \/ journal' = journal \cup {Outcome(u, step)},
           NEW t
    PROVE  ReleaseRecords(t)' = ReleaseRecords(t)
BY DEF ReleaseRecords, OpenSteps, Intent, Outcome

LEMMA ChangeRecords ==
    ASSUME NEW u, journal' = journal \cup {Outcome(u, "disable"), Intent(u, "change")}, NEW t
    PROVE  ReleaseRecords(t)' = ReleaseRecords(t)
BY DEF ReleaseRecords, OpenSteps, Intent, Outcome, ReleaseSteps

(* The steps of a release are journalled by the validator task alone.      *)
LEMMA RecordsStay ==
    ASSUME ~txnOpen, SaleStep,
           ~(AuthorizeSale \/ MotorDone \/ MotorFails \/ WindowOpens \/ WindowOpenFails),
           NEW t
    PROVE  ReleaseRecords(t)' = ReleaseRecords(t)
<1> USE DEF Write, WriteAndRaise
<1> DEFINE Adds(u, step) == \/ journal' = journal
                            \/ journal' = journal \cup {Intent(u, step)}
                            \/ journal' = journal \cup {Outcome(u, step)}
<1>1. /\ "enable" \notin ReleaseSteps /\ "disable" \notin ReleaseSteps
      /\ "change" \notin ReleaseSteps /\ "confirm_close" \notin ReleaseSteps
      /\ "timeout_close" \notin ReleaseSteps
  BY DEF ReleaseSteps
<1>3. CASE CheckoutTask
  <2>1. Adds(on["checkout"], "enable")
    BY <1>3
    DEF CheckoutTask, SensorMismatch, RefusePurchase, CreatePurchase, StopFails,
        StartPayment, AcceptanceEnabled, AcceptanceNotEnabled
  <2>. QED
    BY <1>1, <2>1, OtherRecords
<1>4. CASE ValidatorTask
  <2> DEFINE v == on["validator"]
  <2>1. CASE TakeEvent \/ CreditBill \/ ValidatorFault \/ BillNotEnough \/ Repaid \/ RepayFails
    <3>1. journal' = journal
      BY <2>1 DEF TakeEvent, CreditBill, ValidatorFault, BillNotEnough, Repaid, RepayFails
    <3>. QED
      BY <1>1, <3>1, OtherRecords
  <2>2. CASE BeginCompletion \/ CompletionDisableFails
    <3>1. Adds(v, "disable")
      BY <2>2 DEF BeginCompletion, CompletionDisableFails
    <3>. QED
      BY <1>1, <3>1, OtherRecords
  <2>3. CASE CompletionDisabled
    <3>1. \/ Adds(v, "disable")
          \/ journal' = journal \cup {Outcome(v, "disable"), Intent(v, "change")}
      BY <2>3 DEF CompletionDisabled
    <3>. QED
      BY <1>1, <3>1, OtherRecords, ChangeRecords
  <2>4. CASE RequestChange \/ ChangeDispensed \/ ChangeFails
    <3>1. Adds(v, "change")
      BY <2>4 DEF RequestChange, ChangeDispensed, ChangeFails
    <3>. QED
      BY <1>1, <3>1, OtherRecords
  <2>. QED
    BY <1>4, <2>1, <2>2, <2>3, <2>4 DEF ValidatorTask
<1>5. CASE ConfirmTask \/ TimeoutTask \/ EndRecovery
  <2>1. Adds(on["confirm"], "confirm_close") \/ Adds(on["timeout"], "timeout_close")
    BY <1>5
    DEF ConfirmTask, PickupClosed, PickupCloseFails, TimeoutTask, TimeoutCloses,
        TimeoutClosed, TimeoutCloseFails, EndRecovery
  <2>. QED
    BY <1>1, <2>1, OtherRecords
<1>6. CASE \/ \E u \in Tx : PickupExpires(u) \/ TapBuy(u) \/ TapPickup(u) \/ BeginRecovery(u)
           \/ \E b \in Bills : InsertBill(b)
  <2>1. \E u : Adds(u, "confirm_close")
    BY <1>6 DEF PickupExpires, TapBuy, TapPickup, BeginConfirm, BeginRecovery, InsertBill
  <2>. QED
    BY <1>1, <2>1, OtherRecords
<1>7. CASE Aside
  <2>1. journal' = journal
    BY <1>7
    DEF Aside, TapScreen, EnterServiceMode, ExitServiceMode, RefreshStatus, ClearDrift,
        ClearRestricted, Environment, ValidatorBreaks, HealthBlocks, HealthUnblocks
  <2>. QED
    BY <1>1, <2>1, OtherRecords
<1>. QED
  BY <1>3, <1>4, <1>5, <1>6, <1>7 DEF SaleStep

LEMMA AuthorizeRecords ==
    ASSUME AuthorizeSale, TypeOK, NEW t
    PROVE  \/ ReleaseRecords(t)' = ReleaseRecords(t)
           \/ /\ t = on["validator"] /\ pc'["validator"] = "motor"
              /\ ReleaseRecords(t)' \subseteq ReleaseRecords(t) \cup {"motor"}
<1>1. CASE UNCHANGED storeVars
  BY <1>1 DEF ReleaseRecords, OpenSteps
<1>2. CASE Go("validator", "motor") /\ Write({Intent(on["validator"], "motor")})
  BY <1>2, TaskNames DEF Go, TypeOK, Write, ReleaseRecords, OpenSteps, Intent, Outcome
<1>. QED
  BY <1>1, <1>2 DEF AuthorizeSale

(* When the motor has turned its intent and that of the slot are closed.   *)
LEMMA MotorRecords ==
    ASSUME MotorDone, TypeOK, ~txnOpen, NEW t
    PROVE  IF t = on["validator"] /\ pc'["validator"] = "open"
           THEN ReleaseRecords(t)' \subseteq (ReleaseRecords(t) \ {"motor"}) \cup {"open"}
           ELSE ReleaseRecords(t)' = ReleaseRecords(t)
<1> DEFINE v == on["validator"]
<1>1. CASE Go("validator", "dead") /\ journal' = journal
  BY <1>1, TaskNames DEF ReleaseRecords, OpenSteps, Go, TypeOK
<1>2. CASE /\ Go("validator", "open")
           /\ Write({Outcome(v, "motor"), Intent(v, "open")} \cup Resolved(v, "inventory"))
  BY <1>2, TaskNames
  DEF Go, TypeOK, Write, ReleaseRecords, OpenSteps, Intent, Outcome, Resolved
<1>. QED
  BY <1>1, <1>2 DEF MotorDone, WriteAndRaise

(* A step of a release that is over is closed, unless its transaction      *)
(* raised.                                                                 *)
LEMMA OtherReleaseRecords ==
    ASSUME MotorFails \/ WindowOpens \/ WindowOpenFails, TypeOK, ~txnOpen, NEW t
    PROVE  /\ ReleaseRecords(t)' \subseteq ReleaseRecords(t)
           /\ pc'["validator"] \in {"rest", "dead"}
           /\ pc'["validator"] = "rest" =>
                 /\ pc["validator"] = "open" /\ fsm' = "WAITING_FOR_CUSTOMER_PICKUP"
                 /\ t = on["validator"] => "open" \notin ReleaseRecords(t)'
<1> DEFINE v == on["validator"]
<1>1. /\ pc'["validator"] \in {"rest", "dead"}
      /\ pc'["validator"] = "rest" =>
            /\ pc["validator"] = "open" /\ fsm' = "WAITING_FOR_CUSTOMER_PICKUP"
            /\ journal' = journal \cup {Outcome(v, "open")}
  BY TaskNames DEF MotorFails, WindowOpens, WindowOpenFails, FaultSale, Go, TypeOK, Show, Write
<1>2. \/ journal' = journal
      \/ journal' = journal \cup {Outcome(v, "open")}
      \/ journal' = journal \cup {Outcome(v, "motor")}
  BY DEF MotorFails, WindowOpens, WindowOpenFails, FaultSale, Write, WriteAndRaise
<1>3. ReleaseRecords(t)' \subseteq ReleaseRecords(t)
  BY <1>2 DEF ReleaseRecords, OpenSteps, Intent, Outcome
<1>4. t = v /\ journal' = journal \cup {Outcome(v, "open")} => "open" \notin ReleaseRecords(t)'
  BY DEF ReleaseRecords, OpenSteps
<1>. QED
  BY <1>1, <1>3, <1>4

-----------------------------------------------------------------------------
(* Who moves what.                                                         *)

(* The machine enters a selling state from another one only where sales    *)
(* are allowed, and waits for a customer when the window has opened.       *)
LEMMA StatesMove ==
    ASSUME TypeOK, SaleStep
    PROVE  /\ fsm' \in SellingStates => fsm \in SellingStates \/ blockers = {}
           /\ fsm' \in PickupStates
                => \/ fsm \in PickupStates
                   \/ WindowOpens /\ pc'["validator"] = "rest"
<1> USE DEF TypeOK, Show, SellingStates, PickupStates
<1> DEFINE Seldom == /\ fsm' \in SellingStates => fsm \in SellingStates
                     /\ fsm' \in PickupStates => fsm \in PickupStates
<1>1. CASE CheckoutTask
  BY <1>1
  DEF CheckoutTask, SensorMismatch, RefusePurchase, CreatePurchase, StopFails,
      StartPayment, AcceptanceEnabled, AcceptanceNotEnabled, SalesAllowed
<1>2. CASE ValidatorTask
  <2>1. CASE \/ TakeEvent \/ CreditBill \/ ValidatorFault \/ BillNotEnough \/ BeginCompletion
             \/ CompletionDisableFails \/ RequestChange \/ ChangeDispensed \/ ChangeFails
             \/ Repaid \/ RepayFails
    BY <2>1
    DEF TakeEvent, CreditBill, ValidatorFault, BillNotEnough, BeginCompletion,
        CompletionDisableFails, DisableFails, RequestChange, ChangeDispensed, ChangeFails,
        Repaid, RepayFails
  <2>2. CASE CompletionDisabled
    BY <2>2, StatesAsked DEF CompletionDisabled
  <2>3. CASE AuthorizeSale \/ MotorDone
    BY <2>3, StatesAsked DEF AuthorizeSale, MotorDone
  <2>4. CASE WindowOpens
    BY <2>4, StatesAsked, TaskNames DEF WindowOpens, Go
  <2>5. CASE MotorFails \/ WindowOpenFails
    BY <2>5 DEF MotorFails, WindowOpenFails, FaultSale
  <2>. QED
    BY <1>2, <2>1, <2>2, <2>3, <2>4, <2>5 DEF ValidatorTask
<1>3. CASE ConfirmTask \/ TimeoutTask \/ EndRecovery
  BY <1>3
  DEF ConfirmTask, PickupClosed, PickupCloseFails, TimeoutTask, TimeoutCloses,
      TimeoutClosed, TimeoutCloseFails, EndRecovery
<1>4. CASE \/ \E u \in Tx : PickupExpires(u) \/ TapBuy(u) \/ TapPickup(u) \/ BeginRecovery(u)
           \/ \E b \in Bills : InsertBill(b)
  BY <1>4, StatesAsked
  DEF PickupExpires, TapBuy, TapPickup, BeginConfirm, BeginRecovery, InsertBill
<1>5. CASE Aside
  BY <1>5
  DEF Aside, TapScreen, EnterServiceMode, ExitServiceMode, RefreshStatus, ClearDrift,
      ClearRestricted, Environment, ValidatorBreaks, HealthBlocks, HealthUnblocks
<1>. QED
  BY <1>1, <1>2, <1>3, <1>4, <1>5 DEF SaleStep

(* Where the validator task goes, and for which sale.                      *)
LEMMA ValidatorGoesOn ==
    ASSUME TypeOK, SaleStep, ~ValidatorStays
    PROVE  /\ ValidatorTask
           /\ \/ on'["validator"] = NoTx /\ pc'["validator"] \in {"rest", "dead"}
              \/ TakeEvent /\ pc'["validator"] = "event"
              \/ /\ on'["validator"] = on["validator"]
                 /\ \/ CreditBill /\ pc'["validator"] = "credited"
                    \/ BeginCompletion /\ pc'["validator"] = "disable"
                    \/ CompletionDisabled /\ pc'["validator"] \in {"paid", "payout", "repay"}
                    \/ RequestChange /\ pc'["validator"] \in {"change", "repay"}
                    \/ ChangeDispensed /\ pc'["validator"] \in {"paid", "repay"}
                    \/ ChangeFails /\ pc'["validator"] = "repay"
                    \/ AuthorizeSale /\ pc'["validator"] = "motor"
                    \/ MotorDone /\ pc'["validator"] = "open"
<1>1. ValidatorTask
  <2>1. Next
    BY DEF SaleStep, Next, Supervisors, Customer, Operators, Aside
  <2>. QED
    BY <2>1, OnlyItself
<1>2. ASSUME NEW label, Go("validator", label)
      PROVE  /\ pc'["validator"] = label
             /\ on'["validator"] = IF label \in {"rest", "dead"} THEN NoTx ELSE on["validator"]
  BY <1>2, TaskNames DEF Go, TypeOK
<1>3. CASE TakeEvent
  BY <1>1, <1>3, TaskNames DEF TakeEvent, Start, TypeOK
<1>4. CASE CreditBill \/ ValidatorFault \/ BillNotEnough \/ BeginCompletion
  BY <1>1, <1>2, <1>4 DEF CreditBill, ValidatorFault, BillNotEnough, BeginCompletion
<1>5. CASE CompletionDisabled \/ CompletionDisableFails \/ RequestChange
  BY <1>1, <1>2, <1>5 DEF CompletionDisabled, CompletionDisableFails, RequestChange
<1>6. CASE ChangeDispensed \/ ChangeFails \/ Repaid \/ RepayFails
  BY <1>1, <1>2, <1>6 DEF ChangeDispensed, ChangeFails, Repaid, RepayFails
<1>7. CASE AuthorizeSale \/ MotorDone \/ MotorFails \/ WindowOpens \/ WindowOpenFails
  BY <1>1, <1>2, <1>7
  DEF AuthorizeSale, MotorDone, MotorFails, WindowOpens, WindowOpenFails, FaultSale
<1>. QED
  BY <1>1, <1>3, <1>4, <1>5, <1>6, <1>7 DEF ValidatorTask

(* A purchase begins where sales are allowed and starts a session for the  *)
(* sale it has created.                                                    *)
LEMMA CheckoutMoves ==
    ASSUME TypeOK, SaleStep
    PROVE  \/ pc'["checkout"] = pc["checkout"] /\ on'["checkout"] = on["checkout"]
           \/ pc'["checkout"] = "sensor" /\ blockers = {}
           \/ pc["checkout"] # "rest" /\ pc'["checkout"] \in {"rest", "enable"}
           \/ /\ CreatePurchase /\ pc["checkout"] # "rest"
              /\ pc'["checkout"] = "stop" /\ on'["checkout"] = on["checkout"]
<1> DEFINE Stays == pc'["checkout"] = pc["checkout"] /\ on'["checkout"] = on["checkout"]
<1>0. ASSUME NEW k \in Tasks, k # "checkout", NEW t, NEW label, Go(k, label) \/ Start(k, t, label)
      PROVE  Stays
  BY <1>0, OthersStay, TaskNames
<1>1. CASE CheckoutTask
  BY <1>1, TaskNames
  DEF CheckoutTask, SensorMismatch, RefusePurchase, CreatePurchase, StopFails,
      StartPayment, AcceptanceEnabled, AcceptanceNotEnabled, Go, TypeOK
<1>2. CASE ValidatorTask
  <2>1. \E label, t : Go("validator", label) \/ Start("validator", t, label)
    BY <1>2
    DEF ValidatorTask, TakeEvent, CreditBill, ValidatorFault, BillNotEnough,
        BeginCompletion, CompletionDisabled, CompletionDisableFails, RequestChange,
        ChangeDispensed, ChangeFails, Repaid, RepayFails, AuthorizeSale, MotorDone,
        MotorFails, WindowOpens, WindowOpenFails, FaultSale
  <2>. QED
    BY <1>0, <2>1, TaskNames
<1>3. CASE ConfirmTask \/ TimeoutTask \/ EndRecovery
  <2>1. \E k \in {"confirm", "timeout", "recover"} : \E label : Go(k, label)
    BY <1>3
    DEF ConfirmTask, PickupClosed, PickupCloseFails, TimeoutTask, TimeoutCloses,
        TimeoutClosed, TimeoutCloseFails, EndRecovery
  <2>. QED
    BY <1>0, <2>1, TaskNames
<1>4. CASE \E u \in Tx : TapBuy(u)
  BY <1>4, TaskNames DEF TapBuy, Start, TypeOK, SalesAllowed
<1>5. CASE \/ \E u \in Tx : PickupExpires(u) \/ TapPickup(u) \/ BeginRecovery(u)
           \/ \E b \in Bills : InsertBill(b)
  BY <1>0, <1>5, TaskNames DEF PickupExpires, TapPickup, BeginConfirm, BeginRecovery, InsertBill
<1>6. CASE Aside
  BY <1>6
  DEF Aside, TapScreen, EnterServiceMode, ExitServiceMode, RefreshStatus, ClearDrift,
      ClearRestricted, Environment, ValidatorBreaks, HealthBlocks, HealthUnblocks
<1>. QED
  BY <1>1, <1>2, <1>3, <1>4, <1>5, <1>6 DEF SaleStep

(* A pickup is confirmed for the sale on the kiosk's screen.               *)
LEMMA ConfirmMoves ==
    ASSUME TypeOK, SaleStep
    PROVE  \/ pc'["confirm"] = pc["confirm"] /\ on'["confirm"] = on["confirm"]
           \/ pc'["confirm"] = "rest"
           \/ /\ session \in Tx /\ TapPickup(session) /\ on'["confirm"] = session
              /\ tx[session].status = "waiting_for_customer_pickup" /\ fsm \in PickupStates
<1> DEFINE Stays == pc'["confirm"] = pc["confirm"] /\ on'["confirm"] = on["confirm"]
<1>0. ASSUME NEW k \in Tasks, k # "confirm", NEW t, NEW label, Go(k, label) \/ Start(k, t, label)
      PROVE  Stays
  BY <1>0, OthersStay, TaskNames
<1>1. CASE CheckoutTask
  <2>1. \E label : Go("checkout", label)
    BY <1>1
    DEF CheckoutTask, SensorMismatch, RefusePurchase, CreatePurchase, StopFails,
        StartPayment, AcceptanceEnabled, AcceptanceNotEnabled
  <2>. QED
    BY <1>0, <2>1, TaskNames
<1>2. CASE ValidatorTask
  <2>1. \E label, t : Go("validator", label) \/ Start("validator", t, label)
    BY <1>2
    DEF ValidatorTask, TakeEvent, CreditBill, ValidatorFault, BillNotEnough,
        BeginCompletion, CompletionDisabled, CompletionDisableFails, RequestChange,
        ChangeDispensed, ChangeFails, Repaid, RepayFails, AuthorizeSale, MotorDone,
        MotorFails, WindowOpens, WindowOpenFails, FaultSale
  <2>. QED
    BY <1>0, <2>1, TaskNames
<1>3. CASE ConfirmTask
  BY <1>3, TaskNames DEF ConfirmTask, PickupClosed, PickupCloseFails, Go, TypeOK
<1>4. CASE TimeoutTask \/ EndRecovery
  <2>1. \E k \in {"timeout", "recover"} : \E label : Go(k, label)
    BY <1>4
    DEF TimeoutTask, TimeoutCloses, TimeoutClosed, TimeoutCloseFails, EndRecovery
  <2>. QED
    BY <1>0, <2>1, TaskNames
<1>5. CASE \E u \in Tx : TapPickup(u)
  BY <1>5, StatesAsked, TaskNames DEF TapPickup, BeginConfirm, Start, TypeOK
<1>6. CASE \/ \E u \in Tx : PickupExpires(u) \/ TapBuy(u) \/ BeginRecovery(u)
           \/ \E b \in Bills : InsertBill(b)
  BY <1>0, <1>6, TaskNames DEF PickupExpires, TapBuy, BeginRecovery, InsertBill
<1>7. CASE Aside
  BY <1>7
  DEF Aside, TapScreen, EnterServiceMode, ExitServiceMode, RefreshStatus, ClearDrift,
      ClearRestricted, Environment, ValidatorBreaks, HealthBlocks, HealthUnblocks
<1>. QED
  BY <1>1, <1>2, <1>3, <1>4, <1>5, <1>6, <1>7 DEF SaleStep

(* A technician's cancellation begins on a sale that is safe to cancel and *)
(* closes the terminal; nothing else but its end opens it.                 *)
LEMMA RecoverMoves ==
    ASSUME TypeOK, SaleStep
    PROVE  \/ /\ pc'["recover"] = pc["recover"] /\ on'["recover"] = on["recover"]
              /\ "recovery_pending" \in blockers => "recovery_pending" \in blockers'
           \/ /\ EndRecovery /\ pc["recover"] # "rest"
              /\ pc'["recover"] = "rest" /\ on'["recover"] = NoTx
           \/ \E t \in Tx :
                 /\ "technician" \in Actors /\ Unresolved(tx[t]) /\ CancelSafe(tx[t])
                 /\ BeginRecovery(t) /\ on'["recover"] = t
                 /\ "recovery_pending" \in blockers' /\ fsm' = "RECOVERY_PENDING"
<1> DEFINE Stays == pc'["recover"] = pc["recover"] /\ on'["recover"] = on["recover"]
           Closed == "recovery_pending" \in blockers => "recovery_pending" \in blockers'
<1>0. ASSUME NEW k \in Tasks, k # "recover", NEW t, NEW label, Go(k, label) \/ Start(k, t, label)
      PROVE  Stays
  BY <1>0, OthersStay, TaskNames
<1>1. CASE CheckoutTask
  <2>1. \E label : Go("checkout", label)
    BY <1>1
    DEF CheckoutTask, SensorMismatch, RefusePurchase, CreatePurchase, StopFails,
        StartPayment, AcceptanceEnabled, AcceptanceNotEnabled
  <2>2. Closed
    BY <1>1
    DEF CheckoutTask, SensorMismatch, RefusePurchase, CreatePurchase, StopFails,
        StartPayment, AcceptanceEnabled, AcceptanceNotEnabled
  <2>. QED
    BY <1>0, <2>1, <2>2, TaskNames
<1>2. CASE ValidatorTask
  <2>1. \E label, t : Go("validator", label) \/ Start("validator", t, label)
    BY <1>2
    DEF ValidatorTask, TakeEvent, CreditBill, ValidatorFault, BillNotEnough,
        BeginCompletion, CompletionDisabled, CompletionDisableFails, RequestChange,
        ChangeDispensed, ChangeFails, Repaid, RepayFails, AuthorizeSale, MotorDone,
        MotorFails, WindowOpens, WindowOpenFails, FaultSale
  <2>2. Closed
    BY <1>2
    DEF ValidatorTask, TakeEvent, CreditBill, ValidatorFault, BillNotEnough,
        BeginCompletion, CompletionDisabled, CompletionDisableFails, RequestChange,
        ChangeDispensed, ChangeFails, Repaid, RepayFails, AuthorizeSale, MotorDone,
        MotorFails, WindowOpens, WindowOpenFails
  <2>. QED
    BY <1>0, <2>1, <2>2, TaskNames
<1>3. CASE EndRecovery
  BY <1>3, TaskNames DEF EndRecovery, Go, TypeOK
<1>4. CASE ConfirmTask \/ TimeoutTask
  <2>1. \E k \in {"timeout", "confirm"} : \E label : Go(k, label)
    BY <1>4
    DEF ConfirmTask, PickupClosed, PickupCloseFails, TimeoutTask, TimeoutCloses,
        TimeoutClosed, TimeoutCloseFails
  <2>2. Closed
    BY <1>4
    DEF ConfirmTask, PickupClosed, PickupCloseFails, TimeoutTask, TimeoutCloses,
        TimeoutClosed, TimeoutCloseFails
  <2>. QED
    BY <1>0, <2>1, <2>2, TaskNames
<1>5. CASE \E u \in Tx : BeginRecovery(u)
  BY <1>5, TaskNames DEF BeginRecovery, Start, TypeOK, Show
<1>6. CASE \/ \E u \in Tx : PickupExpires(u) \/ TapBuy(u) \/ TapPickup(u)
           \/ \E b \in Bills : InsertBill(b)
  BY <1>0, <1>6, TaskNames
  DEF PickupExpires, TapBuy, TapPickup, BeginConfirm, InsertBill
<1>7. CASE Aside
  BY <1>7
  DEF Aside, TapScreen, EnterServiceMode, ExitServiceMode, RefreshStatus, ClearDrift,
      ClearRestricted, Environment, ValidatorBreaks, HealthBlocks, HealthUnblocks
<1>. QED
  BY <1>1, <1>2, <1>3, <1>4, <1>5, <1>6, <1>7 DEF SaleStep

(* The kiosk turns to the sale whose acceptance has been switched on.      *)
LEMMA KioskMoves ==
    ASSUME SaleStep
    PROVE  /\ \/ session' = session \/ session' = NoTx
              \/ pc["checkout"] = "enable" /\ session' = on["checkout"]
           /\ pc["checkout"] = "rest" => accepting' \in {accepting, FALSE}
<1>1. CASE CheckoutTask
  BY <1>1
  DEF CheckoutTask, SensorMismatch, RefusePurchase, CreatePurchase, StopFails,
      StartPayment, AcceptanceEnabled, AcceptanceNotEnabled
<1>2. CASE ValidatorTask
  BY <1>2
  DEF ValidatorTask, TakeEvent, CreditBill, ValidatorFault, BillNotEnough,
      BeginCompletion, CompletionDisabled, CompletionDisableFails, RequestChange,
      ChangeDispensed, ChangeFails, Repaid, RepayFails, AuthorizeSale, MotorDone,
      MotorFails, WindowOpens, WindowOpenFails, FaultSale, DisableWithId, DisableFails
<1>3. CASE ConfirmTask \/ TimeoutTask \/ EndRecovery
  BY <1>3
  DEF ConfirmTask, PickupClosed, PickupCloseFails, TimeoutTask, TimeoutCloses,
      TimeoutClosed, TimeoutCloseFails, EndRecovery
<1>4. CASE \/ \E u \in Tx : PickupExpires(u) \/ TapBuy(u) \/ TapPickup(u) \/ BeginRecovery(u)
           \/ \E b \in Bills : InsertBill(b)
  BY <1>4 DEF PickupExpires, TapBuy, TapPickup, BeginConfirm, BeginRecovery, InsertBill
<1>5. CASE Aside
  BY <1>5
  DEF Aside, TapScreen, EnterServiceMode, ExitServiceMode, RefreshStatus, ClearDrift,
      ClearRestricted, Environment, ValidatorBreaks, HealthBlocks, HealthUnblocks
<1>. QED
  BY <1>1, <1>2, <1>3, <1>4, <1>5 DEF SaleStep

-----------------------------------------------------------------------------
(* What becomes of a sale in a step.                                       *)

(* A failure or a deadline hands the sale over to an operator.             *)
HandedOver(r, s) ==
    s \in {MarkFaulted(r), MarkAmbiguous(r), MarkChangePartial(r), MarkPickupTimedOut(r)}

CheckoutChanges(u) ==
    /\ u = on["checkout"]
    /\ \/ pc["checkout"] = "sensor" /\ tx'[u] = NewTransaction
       \/ /\ pc["checkout"] = "stop" /\ pc'["checkout"] # "stop"
          /\ \E reserved \in BOOLEAN : tx'[u] = StartCashSession(tx[u], reserved)

ValidatorChanges(u) ==
    /\ u = on["validator"]
    /\ \/ pc["validator"] = "event" /\ \E bill \in Nat : tx'[u] = RecordStackedCash(tx[u], bill)
       \/ pc["validator"] = "credited" /\ tx'[u] = ConfirmPayment(tx[u])
       \/ /\ pc["validator"] = "disable"
          /\ tx'[u] \in {ReleaseReserve(tx[u]), MarkChangePending(tx[u])}
       \/ pc["validator"] = "change" /\ tx'[u] = MarkChangeDispensed(tx[u])
       \/ pc["validator"] = "paid" /\ CanAuthorize(tx[u]) /\ tx'[u] = AuthorizeVend(tx[u])
       \/ pc["validator"] = "motor" /\ tx'[u] = MarkProductDispensed(tx[u])
       \/ pc["validator"] = "open" /\ tx'[u] = MarkWindowOpened(tx[u])

PickupChanges(u) ==
    \/ /\ session = u /\ tx[u].status = "waiting_for_customer_pickup"
       /\ tx'[u] = ConfirmPickup(tx[u])
    \/ pc["confirm"] = "close" /\ u = on["confirm"] /\ tx'[u] = MarkWindowClosed(tx[u])

RecoveryChanges(u) ==
    pc["recover"] = "recover" /\ u = on["recover"] /\ tx'[u] = Cancel(tx[u])

LEMMA PutChanges ==
    ASSUME TypeOK, NEW t, NEW r, Put(t, r), NEW u \in Tx
    PROVE  tx'[u] = tx[u] \/ (u = t /\ tx'[u] = r)
BY DEF Put, TypeOK

LEMMA SalesChange ==
    ASSUME Basic, SaleStep, NEW u \in Tx
    PROVE  \/ tx'[u] = tx[u]
           \/ HandedOver(tx[u], tx'[u])
           \/ CheckoutChanges(u) \/ ValidatorChanges(u) \/ PickupChanges(u) \/ RecoveryChanges(u)
<1>0. TypeOK
  BY DEF Basic
<1>1. CASE CheckoutTask
  <2>1. CASE SensorMismatch \/ RefusePurchase \/ StopFails \/ AcceptanceEnabled
    BY <2>1 DEF SensorMismatch, RefusePurchase, StopFails, AcceptanceEnabled
  <2>2. CASE CreatePurchase
    BY <1>0, <2>2, PutChanges DEF CreatePurchase, CheckoutChanges
  <2>3. CASE StartPayment
    <3>1. pc["checkout"] = "stop" /\ pc'["checkout"] # "stop"
      BY <1>0, <2>3, TaskNames DEF StartPayment, Go, TypeOK
    <3>. QED
      BY <1>0, <2>3, <3>1, PutChanges DEF StartPayment, CheckoutChanges
  <2>4. CASE AcceptanceNotEnabled
    BY <1>0, <2>4, PutChanges DEF AcceptanceNotEnabled, HandedOver
  <2>. QED
    BY <1>1, <2>1, <2>2, <2>3, <2>4 DEF CheckoutTask
<1>2. CASE ValidatorTask
  <2>1. CASE TakeEvent \/ BillNotEnough \/ RequestChange \/ Repaid
    BY <2>1 DEF TakeEvent, BillNotEnough, RequestChange, Repaid
  <2>2. CASE CreditBill
    BY <1>0, <2>2, EventTyped, PutChanges
    DEF CreditBill, ValidatorChanges, ValidatorEvents
  <2>3. CASE ValidatorFault \/ CompletionDisableFails \/ RepayFails
    <3>1. \/ tx' = tx
          \/ Put(on["validator"], MarkFaulted(tx[on["validator"]]))
          \/ Put(on["validator"], MarkAmbiguous(tx[on["validator"]]))
      BY <2>3 DEF ValidatorFault, CompletionDisableFails, DisableFails, RepayFails
    <3>. QED
      BY <1>0, <3>1, PutChanges DEF HandedOver
  <2>4. CASE BeginCompletion
    BY <1>0, <2>4, PutChanges DEF BeginCompletion, ValidatorChanges
  <2>5. CASE CompletionDisabled
    BY <1>0, <2>5, PutChanges DEF CompletionDisabled, ValidatorChanges
  <2>6. CASE ChangeDispensed
    BY <1>0, <2>6, PutChanges DEF ChangeDispensed, ValidatorChanges
  <2>7. CASE ChangeFails
    BY <1>0, <2>7, PutChanges DEF ChangeFails, HandedOver
  <2>8. CASE AuthorizeSale
    BY <1>0, <2>8, PutChanges DEF AuthorizeSale, ValidatorChanges
  <2>9. CASE MotorDone
    BY <1>0, <2>9, PutChanges DEF MotorDone, ValidatorChanges
  <2>10. CASE MotorFails \/ WindowOpenFails
    BY <1>0, <2>10, PutChanges DEF MotorFails, WindowOpenFails, FaultSale, HandedOver
  <2>11. CASE WindowOpens
    BY <1>0, <2>11, PutChanges DEF WindowOpens, ValidatorChanges
  <2>. QED
    BY <1>2, <2>1, <2>2, <2>3, <2>4, <2>5, <2>6, <2>7, <2>8, <2>9, <2>10, <2>11 DEF ValidatorTask
<1>3. CASE ConfirmTask \/ TimeoutTask \/ EndRecovery
  BY <1>0, <1>3, PutChanges
  DEF ConfirmTask, PickupClosed, PickupCloseFails, TimeoutTask, TimeoutCloses,
      TimeoutClosed, TimeoutCloseFails, EndRecovery, PickupChanges, RecoveryChanges, HandedOver
<1>4. CASE \/ \E t \in Tx : PickupExpires(t) \/ TapBuy(t) \/ TapPickup(t) \/ BeginRecovery(t)
           \/ \E b \in Bills : InsertBill(b)
  BY <1>0, <1>4, PutChanges
  DEF PickupExpires, TapBuy, TapPickup, BeginConfirm, BeginRecovery, InsertBill, PickupChanges
<1>5. CASE Aside
  BY <1>5
  DEF Aside, TapScreen, EnterServiceMode, ExitServiceMode, RefreshStatus, ClearDrift,
      ClearRestricted, Environment, ValidatorBreaks, HealthBlocks, HealthUnblocks
<1>. QED
  BY <1>1, <1>2, <1>3, <1>4, <1>5 DEF SaleStep

(* What the methods that hand a sale over make of it.                      *)
LEMMA HandedOverSets ==
    ASSUME NEW r \in TransactionRecords, NEW s, HandedOver(r, s)
    PROVE  /\ Locks(s) /\ s.session = r.session /\ s.payment = r.payment
           /\ s.status \in {"faulted", "ambiguous", "pickup_timed_out"}
<1>1. /\ Becomes(r, MarkFaulted(r), "faulted", "pending")
      /\ Becomes(r, MarkAmbiguous(r), "ambiguous", "manual_review")
      /\ Becomes(r, MarkPickupTimedOut(r), "pickup_timed_out", "manual_review")
  BY MethodsSet
<1>2. /\ MarkChangePartial(r).status = "ambiguous"
      /\ MarkChangePartial(r).session = r.session /\ MarkChangePartial(r).payment = r.payment
  BY DEF MarkChangePartial, TransactionRecords
<1>3. s.session = r.session /\ s.payment = r.payment
      /\ s.status \in {"faulted", "ambiguous", "pickup_timed_out"}
  BY <1>1, <1>2 DEF HandedOver, Becomes
<1>. QED
  BY <1>3 DEF Locks, Unresolved, CancelSafe

LEMMA ValidatorSets ==
    ASSUME TypeOK, NEW u \in Tx, ValidatorChanges(u)
    PROVE  /\ tx'[u].session = "none" <=> tx[u].session = "none"
           /\ tx'[u].recovery = tx[u].recovery
           /\ \/ pc["validator"] = "event" /\ tx'[u].status = tx[u].status
                   /\ tx'[u].payment = tx[u].payment
              \/ pc["validator"] = "credited" /\ tx'[u].status = "payment_accepted"
                   /\ tx'[u].payment = "confirmed"
              \/ pc["validator"] = "disable" /\ tx'[u].payment = tx[u].payment
                   /\ tx'[u].status \in {tx[u].status, "dispensing_change"}
              \/ pc["validator"] = "change" /\ tx'[u].payment = tx[u].payment
                   /\ tx'[u].status = tx[u].status
              \/ pc["validator"] = "paid" /\ tx'[u].status = "dispensing_product"
                   /\ tx[u].payment = "confirmed" /\ tx'[u].payment = "confirmed"
              \/ pc["validator"] = "motor" /\ tx'[u].payment = tx[u].payment
                   /\ tx'[u].status = "opening_delivery_window"
              \/ pc["validator"] = "open" /\ tx'[u].payment = tx[u].payment
                   /\ tx'[u].status = "waiting_for_customer_pickup"
<1> DEFINE r == tx[u]
<1>1. r \in TransactionRecords
  BY DEF TypeOK
<1>2. /\ ConfirmPayment(r).session = "none" <=> r.session = "none"
      /\ ConfirmPayment(r).status = "payment_accepted" /\ ConfirmPayment(r).payment = "confirmed"
      /\ ConfirmPayment(r).recovery = r.recovery
  BY <1>1 DEF ConfirmPayment, TransactionRecords
<1>. QED
  BY <1>1, <1>2, MethodsSet, CashSets DEF ValidatorChanges, Becomes, CanAuthorize

LEMMA PickupSets ==
    ASSUME TypeOK, NEW u \in Tx, PickupChanges(u)
    PROVE  /\ tx'[u].session = tx[u].session /\ tx'[u].payment = tx[u].payment
           /\ tx'[u].recovery = tx[u].recovery
           /\ \/ /\ session = u /\ tx[u].status = "waiting_for_customer_pickup"
                 /\ tx'[u].status = "closing_delivery_window"
              \/ /\ pc["confirm"] = "close" /\ u = on["confirm"] /\ tx'[u].status = "completed"
<1>1. tx[u] \in TransactionRecords
  BY DEF TypeOK
<1>. QED
  BY <1>1, MethodsSet DEF PickupChanges, Becomes

LEMMA CancelSets ==
    ASSUME NEW r \in TransactionRecords
    PROVE  /\ Cancel(r).session = "none" <=> r.session = "none"
           /\ Cancel(r).payment = "cancelled" /\ Cancel(r).status = "cancelled"
BY DEF Cancel, TransactionRecords

-----------------------------------------------------------------------------
(* A step of the running machine, with all that is known before it.        *)

ReleaseSafe == DurablePaid /\ OldSalesRest /\ OnceInvariant /\ ReleaseInvariant

Running ==
    /\ SaleStep /\ Run /\ ReleaseSafe
    /\ TypeOK /\ Basic /\ SaleSafe /\ ~txnOpen /\ powered /\ old' = old
    /\ OnceInvariant' /\ NoTx \notin old /\ RowsTyped(rows)

LEMMA RunRuns ==
    ASSUME UnhurriedCustomers, NoKioskCancellation, NoIdleSupervisor, ReleaseSafe, Run
    PROVE  /\ Running /\ pc'["idle"] = "rest"
           /\ DurablePaid' /\ OldSalesRest' /\ OnceInvariant' /\ powered'
<1>1. /\ DurableTypeOK /\ Basic /\ TypeOK /\ SaleSafe /\ JournalCommits /\ Next
      /\ powered /\ powered' /\ old' = old /\ Journalling /\ OnceBasic /\ NoTx \notin old
      /\ DurableSafe /\ RowsTyped(rows)
  BY RunIsStep, DurableBasic, NoTxIsNew
  DEF ReleaseSafe, DurablePaid, DurableTypeOK, Run, Journalling, OnceBasic, DurableSafe
<1>2. SaleStep /\ pc'["idle"] = "rest"
  BY <1>1, FewerSteps DEF ReleaseSafe, ReleaseInvariant
<1>3. Basic' /\ OnceInvariant'
  BY <1>1, StepBasic, StepOnce
<1>4. DurablePaid' /\ OldSalesRest'
  BY <1>1, RunPaid, RunRests DEF ReleaseSafe
<1>. QED
  BY <1>1, <1>2, <1>3, <1>4 DEF Running, JournalCommits

(* The sale in the hands of the validator task is one of this boot.        *)
LEMMA InHand ==
    ASSUME Running, pc["validator"] \notin {"rest", "dead", "event"}
    PROVE  on["validator"] \in Tx /\ on["validator"] \notin old
<1>1. on["validator"] \notin old
  BY DEF Running, ReleaseSafe, OldSalesRest
<1>. QED
  BY <1>1, TaskNames DEF Running, Basic, TasksHaveSales, AtRest

LEMMA FiveMove ==
    ASSUME TypeOK,
           AuthorizeSale \/ MotorDone \/ MotorFails \/ WindowOpens \/ WindowOpenFails
    PROVE  ~ValidatorStays
BY TaskNames
DEF AuthorizeSale, MotorDone, MotorFails, WindowOpens, WindowOpenFails, FaultSale, Go, TypeOK,
    ValidatorStays

(* A release is interrupted from where it begins.                          *)
LEMMA Interrupts ==
    ASSUME Running, NEW t \in Tx, Interrupted(t)'
    PROVE  \/ Interrupted(t)
           \/ /\ t = on["validator"] /\ on'["validator"] = t
              /\ \/ AuthorizeSale /\ pc["validator"] = "paid" /\ pc'["validator"] = "motor"
                 \/ MotorDone /\ pc["validator"] = "motor" /\ pc'["validator"] = "open"
<1>1. /\ Interrupted(t) <=> ReleaseRecords(t) # {}
      /\ Interrupted(t)' <=> ReleaseRecords(t)' # {}
  BY DEF Interrupted, ReleaseRecords
<1>2. CASE ~(AuthorizeSale \/ MotorDone \/ MotorFails \/ WindowOpens \/ WindowOpenFails)
  BY <1>1, <1>2, RecordsStay DEF Running
<1>3. ASSUME pc'["validator"] \in {"motor", "open"}
      PROVE  on'["validator"] = on["validator"] \/ ValidatorStays
  BY <1>3, ValidatorGoesOn DEF Running
<1>4. CASE AuthorizeSale
  BY <1>1, <1>3, <1>4, AuthorizeRecords DEF Running, AuthorizeSale, ValidatorStays
<1>5. CASE MotorDone
  BY <1>1, <1>3, <1>5, MotorRecords DEF Running, MotorDone, ValidatorStays
<1>6. CASE MotorFails \/ WindowOpens \/ WindowOpenFails
  BY <1>1, <1>6, OtherReleaseRecords DEF Running
<1>. QED
  BY <1>2, <1>4, <1>5, <1>6

(* What the entering of a release tells of the machine.                    *)
LEMMA ReleaseBegins ==
    ASSUME Running, pc'["validator"] \in {"motor", "open"}, pc["validator"] # pc'["validator"]
    PROVE  /\ on'["validator"] = on["validator"]
           /\ fsm \in SellingStates \ PickupStates /\ fsm' \in SellingStates \ PickupStates
           /\ \/ /\ AuthorizeSale /\ pc["validator"] = "paid" /\ pc'["validator"] = "motor"
                 /\ tx[on["validator"]].payment = "confirmed"
              \/ /\ MotorDone /\ pc["validator"] = "motor" /\ pc'["validator"] = "open"
                 /\ vended' = [vended EXCEPT ![on["validator"]] = @ + 1]
<1>1. /\ on'["validator"] = on["validator"]
      /\ \/ AuthorizeSale /\ pc'["validator"] = "motor"
         \/ MotorDone /\ pc'["validator"] = "open"
  BY ValidatorGoesOn DEF Running, ValidatorStays
<1>2. fsm \in MachineStates
  BY DEF Running, TypeOK
<1>3. ASSUME NEW label, Go("validator", label)
      PROVE  pc'["validator"] = label
  BY <1>3, TaskNames DEF Go, Running, TypeOK
<1>4. CASE AuthorizeSale /\ pc'["validator"] = "motor"
  BY <1>1, <1>2, <1>3, <1>4, StatesAsked
  DEF AuthorizeSale, Show, SellingStates, PickupStates, CanAuthorize
<1>5. CASE MotorDone /\ pc'["validator"] = "open"
  BY <1>1, <1>2, <1>3, <1>5, StatesAsked DEF MotorDone, Show, SellingStates, PickupStates
<1>. QED
  BY <1>1, <1>4, <1>5

(* Sessions are begun once, by the checkout task.                          *)
LEMMA SessionsKept ==
    ASSUME Running, NEW u \in Tx
    PROVE  /\ tx[u].session # "none" => tx'[u].session # "none"
           /\ tx[u].session = "none"
                => \/ tx'[u].session = "none"
                   \/ /\ pc["checkout"] = "stop" /\ pc'["checkout"] # "stop"
                      /\ u = on["checkout"]
<1>1. tx[u] \in TransactionRecords /\ TypeOK
  BY DEF Running, TypeOK
<1>2. CASE CheckoutChanges(u)
  <2>1. tx[u].session = "none"
    BY <1>2 DEF CheckoutChanges, Running, SaleSafe, FreshSales, ReleaseSafe,
                ReleaseInvariant, SessionsFollow
  <2>. QED
    BY <1>2, <2>1 DEF CheckoutChanges, NewTransaction, UnbornTransaction
<1>3. CASE HandedOver(tx[u], tx'[u]) \/ ValidatorChanges(u) \/ PickupChanges(u)
  BY <1>1, <1>3, HandedOverSets, ValidatorSets, PickupSets
<1>4. CASE RecoveryChanges(u)
  BY <1>1, <1>4, CancelSets DEF RecoveryChanges
<1>. QED
  BY <1>2, <1>3, <1>4, SalesChange DEF Running

(* Nothing but the validator task changes a sale in its hands, apart from  *)
(* handing it over, confirming its pickup and cancelling it.               *)
LEMMA InHandChanges ==
    ASSUME Running, NEW u \in Tx, u = on["validator"],
           pc["validator"] \in {"disable", "payout", "change", "paid", "motor", "open"}
    PROVE  /\ ~CheckoutChanges(u)
           /\ ~(pc["confirm"] = "close" /\ u = on["confirm"])
<1> USE DEF Running, ReleaseSafe, ReleaseInvariant
<1>1. tx[u].session # "none"
  BY DEF OnceInvariant, ChangeIsDue, ConfirmedGoesOn
<1>2. ~CheckoutChanges(u)
  BY <1>1 DEF CheckoutChanges, SaleSafe, FreshSales, SessionsFollow
<1>3. pc["validator"] # "open" => vended[u] = 0
  BY DEF OnceInvariant, CompletesOnce
<1>. QED
  BY <1>2, <1>3 DEF PickupsApart

LEMMA PaymentKept ==
    ASSUME Running, NEW u \in Tx, u = on["validator"],
           pc["validator"] \in {"disable", "payout", "change", "paid", "motor", "open"}
    PROVE  \/ tx'[u].payment = tx[u].payment
           \/ RecoveryChanges(u) /\ tx'[u].payment = "cancelled"
<1>1. tx[u] \in TransactionRecords /\ TypeOK
  BY DEF Running, TypeOK
<1>2. ~CheckoutChanges(u)
  BY InHandChanges
<1>3. CASE HandedOver(tx[u], tx'[u]) \/ ValidatorChanges(u) \/ PickupChanges(u)
  BY <1>1, <1>3, HandedOverSets, ValidatorSets, PickupSets
<1>4. CASE RecoveryChanges(u)
  BY <1>1, <1>4, CancelSets DEF RecoveryChanges
<1>. QED
  BY <1>2, <1>3, <1>4, SalesChange DEF Running

LEMMA ConfirmedLocks ==
    ASSUME NEW r, r.payment = "confirmed", r.status \notin {"unborn", "completed", "cancelled"}
    PROVE  Locks(r)
BY DEF Locks, Unresolved, CancelSafe

(* A confirmed payment is confirmed to its end, unless it is cancelled.    *)
LEMMA ConfirmedStaysOn ==
    ASSUME Running, NEW u \in Tx, u = on["validator"], tx'[u].payment = "confirmed",
           pc["validator"] \in {"disable", "payout", "change", "paid", "motor", "open"}
    PROVE  /\ tx[u].payment = "confirmed"
           /\ tx'[u].status \notin {"unborn", "completed", "cancelled"}
<1>1. tx[u] \in TransactionRecords /\ TypeOK
  BY DEF Running, TypeOK
<1>2. tx[u].payment = "confirmed"
  BY PaymentKept
<1>3. tx[u].status \notin {"unborn", "completed", "cancelled"}
  BY <1>2 DEF Running, ReleaseSafe, ReleaseInvariant, ConfirmedGoesOn
<1>4. CASE HandedOver(tx[u], tx'[u]) \/ ValidatorChanges(u) \/ PickupChanges(u)
  BY <1>1, <1>2, <1>3, <1>4, HandedOverSets, ValidatorSets, PickupSets, InHandChanges
<1>5. ~RecoveryChanges(u)
  BY <1>1, CancelSets DEF RecoveryChanges
<1>. QED
  BY <1>2, <1>3, <1>4, <1>5, InHandChanges, SalesChange DEF Running

LEMMA RunConfirmed ==
    ASSUME Running
    PROVE  ConfirmedGoesOn'
<1> USE DEF Running, ReleaseSafe, ReleaseInvariant
<1> DEFINE v == on["validator"]
           Hand == {"disable", "payout", "change", "paid", "motor", "open"}
<1>0. TypeOK /\ Next /\ DurableTypeOK /\ SaleStep
  BY RunIsStep DEF DurablePaid
<1>1. ASSUME pc'["validator"] \in Hand
      PROVE  /\ on'["validator"] = v /\ v \in Tx
             /\ pc["validator"] \in Hand \/ (pc["validator"] = "credited" /\ BeginCompletion)
  <2>1. CASE ValidatorStays
    BY <1>1, <2>1, InHand DEF ValidatorStays
  <2>2. CASE ~ValidatorStays
    <3>1. /\ on'["validator"] = v
          /\ BeginCompletion \/ CompletionDisabled \/ RequestChange \/ ChangeDispensed
               \/ AuthorizeSale \/ MotorDone
      BY <1>0, <1>1, <2>2, ValidatorGoesOn
    <3>2. pc["validator"] \in Hand \/ (pc["validator"] = "credited" /\ BeginCompletion)
      BY <3>1 DEF BeginCompletion, CompletionDisabled, RequestChange, ChangeDispensed,
                  AuthorizeSale, MotorDone
    <3>. QED
      BY <3>1, <3>2, InHand
  <2>. QED
    BY <2>1, <2>2
<1>2. ASSUME pc'["validator"] \in Hand, tx'[v].payment = "confirmed"
      PROVE  tx'[v].status \notin {"unborn", "completed", "cancelled"}
  <2>1. CASE pc["validator"] \in Hand
    BY <1>1, <1>2, <2>1, ConfirmedStaysOn
  <2>2. CASE pc["validator"] = "credited" /\ BeginCompletion
    <3>1. tx'[v] = ConfirmPayment(tx[v]) /\ tx[v] \in TransactionRecords
      BY <1>0, <1>1, <1>2, <2>2 DEF BeginCompletion, Put, TypeOK
    <3>2. tx[v].session # "none"
      BY <2>2 DEF OnceInvariant, ChangeIsDue
    <3>. QED
      BY <3>1, <3>2, ConfirmSets
  <2>. QED
    BY <1>1, <1>2, <2>1, <2>2
<1>3. ASSUME pc'["validator"] \in {"paid", "motor"}, tx'[v].payment = "confirmed"
      PROVE  v \in DOMAIN rows'.sales /\ Locks(rows'.sales[v])
  <2>1. v \in Tx /\ Locks(tx'[v])
    BY <1>1, <1>2, <1>3, ConfirmedLocks
  <2>2. CASE pc["validator"] \in {"paid", "motor"}
    <3>1. v \in DOMAIN rows.sales /\ Locks(rows.sales[v])
      BY <1>3, <2>1, <2>2, ConfirmedStaysOn DEF ConfirmedGoesOn
    <3>. QED
      BY <2>1, <3>1, RowsKept
  <2>3. CASE pc'["validator"] = "paid" /\ pc["validator"] # "paid"
    <3>1. Save(v)
      BY <1>0, <2>3, ConfirmedIsSaved
    <3>. QED
      BY <2>1, <3>1 DEF Save
  <2>. QED
    BY <1>0, <1>3, <2>2, <2>3, FromPaid
<1>4. ASSUME pc'["validator"] \in {"motor", "open"}
      PROVE  tx'[v].payment = "confirmed" /\ tx'[v].session # "none"
  <2>1. v \in Tx /\ pc["validator"] \in {"paid", "motor", "open"}
    BY <1>1, <1>4, ReleaseBegins
  <2>2. tx[v].payment = "confirmed"
    BY <1>4, <2>1, ReleaseBegins DEF ConfirmedGoesOn
  <2>3. tx[v].session # "none"
    BY <2>1 DEF ConfirmedGoesOn, OnceInvariant, ChangeIsDue
  <2>4. ~RecoveryChanges(v)
    <3>1. CASE pc["validator"] = pc'["validator"]
      BY <1>4, <3>1 DEF RecoveryStops, RecoveryChanges
    <3>2. CASE pc["validator"] # pc'["validator"]
      BY <1>4, <3>2, ReleaseBegins DEF RecoveryStops, RecoveryChanges
    <3>. QED
      BY <3>1, <3>2
  <2>. QED
    BY <2>1, <2>2, <2>3, <2>4, PaymentKept, SessionsKept
<1>5. PICK w : w = on'["validator"]
  OBVIOUS
<1>6. w = v \/ pc'["validator"] \notin Hand
  BY <1>1, <1>5
<1>. QED
  BY <1>2, <1>3, <1>4, <1>5, <1>6 DEF ConfirmedGoesOn

(* An interrupted release stays what keeps the sale for an operator.       *)
LEMMA InterruptedStaysLocked ==
    ASSUME Running, NEW t \in Tx, Interrupted(t)
    PROVE  Locks(tx'[t])
<1> USE DEF Running, ReleaseSafe, ReleaseInvariant
<1>1. tx[t] \in TransactionRecords /\ TypeOK /\ Locks(tx[t])
  BY DEF TypeOK, InterruptedAreKept
<1>2. CASE HandedOver(tx[t], tx'[t])
  BY <1>1, <1>2, HandedOverSets
<1>3. ~CheckoutChanges(t)
  <2>1. CASE t \in old
    BY <2>1 DEF CheckoutChanges, OldSalesRest
  <2>2. CASE t \notin old
    BY <2>2 DEF InterruptedAreKept, CheckoutChanges, SaleSafe, FreshSales, SessionsFollow
  <2>. QED
    BY <2>1, <2>2
<1>4. CASE ValidatorChanges(t)
  <2>1. t = on["validator"]
    BY <1>4 DEF ValidatorChanges
  <2>2. CASE pc["validator"] = "event"
    BY <1>1, <1>4, <2>2, ValidatorSets DEF Locks, Unresolved, CancelSafe
  <2>3. CASE pc["validator"] # "event"
    <3>1. pc["validator"] \notin {"rest", "dead", "event"}
      BY <1>4, <2>3 DEF ValidatorChanges
    <3>2. pc["validator"] \in {"motor", "open"}
      BY <2>1, <3>1, InHand DEF OneRelease
    <3>3. tx[t].payment = "confirmed"
      BY <2>1, <3>2 DEF ConfirmedGoesOn
    <3>. QED
      BY <1>1, <1>4, <3>2, <3>3, ValidatorSets, ConfirmedLocks
  <2>. QED
    BY <2>2, <2>3
<1>5. CASE PickupChanges(t)
  <2>1. ~(pc["confirm"] = "close" /\ t = on["confirm"])
    BY DEF PickupsApart
  <2>. QED
    BY <1>1, <1>5, <2>1, PickupSets DEF Locks, Unresolved, CancelSafe
<1>6. ~RecoveryChanges(t)
  BY DEF RecoveryChanges, RecoveryStops
<1>. QED
  BY <1>1, <1>2, <1>3, <1>4, <1>5, <1>6, SalesChange

LEMMA RunKeeps ==
    ASSUME Running
    PROVE  InterruptedAreKept'
<1> USE DEF Running, ReleaseSafe, ReleaseInvariant
<1>1. SUFFICES ASSUME NEW t \in Tx, Interrupted(t)'
               PROVE  /\ Locks(tx'[t]) /\ (t \notin old' => tx'[t].session # "none")
                      /\ t \in DOMAIN rows'.sales /\ Locks(rows'.sales[t])
  BY DEF InterruptedAreKept
<1>2. CASE Interrupted(t)
  <2>1. /\ t \notin old => tx[t].session # "none"
        /\ t \in DOMAIN rows.sales /\ Locks(rows.sales[t])
    BY <1>2 DEF InterruptedAreKept
  <2>2. Locks(tx'[t])
    BY <1>2, InterruptedStaysLocked
  <2>. QED
    BY <2>1, <2>2, SessionsKept, RowsKept
<1>3. CASE /\ t = on["validator"] /\ on'["validator"] = t
           /\ pc["validator"] \in {"paid", "motor"} /\ pc'["validator"] \in {"motor", "open"}
           /\ pc["validator"] # pc'["validator"]
  <2>1. tx[t].payment = "confirmed"
    BY <1>3, ReleaseBegins DEF ConfirmedGoesOn
  <2>2. t \in DOMAIN rows.sales /\ Locks(rows.sales[t])
    BY <1>3, <2>1 DEF ConfirmedGoesOn
  <2>3. /\ tx'[t].payment = "confirmed" /\ tx'[t].session # "none"
        /\ tx'[t].status \notin {"unborn", "completed", "cancelled"}
    BY <1>3, RunConfirmed DEF ConfirmedGoesOn
  <2>4. Locks(tx'[t])
    BY <2>3, ConfirmedLocks
  <2>. QED
    BY <2>2, <2>3, <2>4, RowsKept
<1>. QED
  BY <1>1, <1>2, <1>3, Interrupts

(* A validator task that died or that awaits the motor or the window moves *)
(* by the answer of that device only.                                      *)
LEMMA ReleaseAwaits ==
    ASSUME Running, ~ValidatorStays
    PROVE  /\ pc["validator"] # "dead"
           /\ pc["validator"] \in {"motor", "open"}
                => MotorDone \/ MotorFails \/ WindowOpens \/ WindowOpenFails
<1>1. ValidatorTask
  BY ValidatorGoesOn DEF Running
<1>. QED
  BY <1>1
  DEF ValidatorTask, TakeEvent, CreditBill, ValidatorFault, BillNotEnough,
      BeginCompletion, CompletionDisabled, CompletionDisableFails, RequestChange,
      ChangeDispensed, ChangeFails, Repaid, RepayFails, AuthorizeSale, MotorDone,
      MotorFails, WindowOpens, WindowOpenFails, FaultSale

(* While a release is awaited its records stay.                            *)
LEMMA AwaitedStays ==
    ASSUME Running, ValidatorStays, NEW t
    PROVE  /\ ReleaseRecords(t)' = ReleaseRecords(t)
           /\ fsm' \in PickupStates => fsm \in PickupStates
<1>1. ~(AuthorizeSale \/ MotorDone \/ MotorFails \/ WindowOpens \/ WindowOpenFails)
  BY FiveMove DEF Running
<1>. QED
  BY <1>1, RecordsStay, StatesMove DEF Running

LEMMA ReleaseAwaited ==
    ASSUME Running, pc'["validator"] \in {"motor", "open"}
    PROVE  /\ on'["validator"] = on["validator"]
           /\ ReleaseRecords(on["validator"])' \subseteq {pc'["validator"]}
           /\ fsm' \notin PickupStates
<1> USE DEF Running, ReleaseSafe, ReleaseInvariant
<1> DEFINE v == on["validator"]
<1>1. CASE ValidatorStays
  <2>1. ReleaseRecords(v) \subseteq {pc["validator"]} /\ fsm \notin PickupStates
    BY <1>1 DEF OneRelease, ReleaseRecords, ValidatorStays
  <2>. QED
    BY <1>1, <2>1, AwaitedStays DEF ValidatorStays
<1>2. CASE ~ValidatorStays
  <2>1. pc["validator"] # pc'["validator"]
    <3>1. AuthorizeSale \/ MotorDone
      BY <1>2, ValidatorGoesOn
    <3>2. ASSUME NEW label, Go("validator", label)
          PROVE  pc'["validator"] = label
      BY <3>2, TaskNames DEF Go, TypeOK
    <3>. QED
      BY <3>1, <3>2 DEF AuthorizeSale, MotorDone
  <2>2. /\ on'["validator"] = v /\ fsm' \notin PickupStates
        /\ \/ AuthorizeSale /\ pc["validator"] = "paid" /\ pc'["validator"] = "motor"
           \/ MotorDone /\ pc["validator"] = "motor" /\ pc'["validator"] = "open"
    BY <2>1, ReleaseBegins
  <2>0. PICK w : w = v /\ w = on'["validator"]
    BY <2>2
  <2>3. CASE AuthorizeSale /\ pc["validator"] = "paid" /\ pc'["validator"] = "motor"
    <3>1. ReleaseRecords(v) = {}
      BY <2>3, InHand DEF OneRelease, ReleaseRecords, Interrupted
    <3>2. ReleaseRecords(w)' \subseteq ReleaseRecords(w) \cup {"motor"}
      BY <2>0, <2>3, AuthorizeRecords
    <3>. QED
      BY <2>0, <2>2, <2>3, <3>1, <3>2
  <2>4. CASE MotorDone /\ pc["validator"] = "motor" /\ pc'["validator"] = "open"
    <3>1. ReleaseRecords(v) \subseteq {"motor"}
      BY <2>4 DEF OneRelease, ReleaseRecords
    <3>2. ReleaseRecords(w)' \subseteq (ReleaseRecords(w) \ {"motor"}) \cup {"open"}
      BY <2>0, <2>4, MotorRecords
    <3>. QED
      BY <2>0, <2>2, <2>4, <3>1, <3>2
  <2>. QED
    BY <2>2, <2>3, <2>4
<1>. QED
  BY <1>1, <1>2

LEMMA RunReleases ==
    ASSUME Running
    PROVE  OneRelease'
<1> USE DEF Running, ReleaseSafe, ReleaseInvariant
<1> DEFINE Mine(t) == /\ \/ pc'["validator"] \in {"motor", "open"} /\ on'["validator"] = t
                         \/ pc'["validator"] = "dead"
                      /\ fsm' \notin PickupStates
<1>1. ASSUME NEW t \in Tx \ old, Interrupted(t)'
      PROVE  Mine(t)
  <2>1. CASE pc'["validator"] \in {"motor", "open"} /\ on'["validator"] = t
    BY <2>1, ReleaseAwaited
  <2>2. CASE Interrupted(t) /\ ValidatorStays
    BY <2>2, AwaitedStays DEF OneRelease, ValidatorStays
  <2>3. CASE Interrupted(t) /\ ~ValidatorStays
    <3>1. pc["validator"] \in {"motor", "open"} /\ on["validator"] = t /\ fsm \notin PickupStates
      BY <2>3, ReleaseAwaits DEF OneRelease
    <3>2. CASE MotorDone
      <4>1. pc'["validator"] = "dead" \/ (pc'["validator"] = "open" /\ on'["validator"] = t)
        BY <3>1, <3>2, TaskNames DEF MotorDone, Go, TypeOK
      <4>2. CASE pc'["validator"] = "dead"
        BY <3>1, <4>2, StatesMove
      <4>. QED
        BY <2>1, <4>1, <4>2
    <3>3. CASE MotorFails \/ WindowOpens \/ WindowOpenFails
      <4>1. /\ ReleaseRecords(t)' \subseteq ReleaseRecords(t)
            /\ pc'["validator"] \in {"rest", "dead"}
            /\ pc'["validator"] = "rest" =>
                  pc["validator"] = "open" /\ "open" \notin ReleaseRecords(t)'
        BY <3>1, <3>3, OtherReleaseRecords
      <4>2. ReleaseRecords(t) \subseteq {pc["validator"]} /\ ReleaseRecords(t)' # {}
        BY <1>1, <3>1 DEF OneRelease, ReleaseRecords, Interrupted
      <4>3. pc'["validator"] = "dead"
        BY <4>1, <4>2
      <4>. QED
        BY <3>1, <4>3, StatesMove
    <3>. QED
      BY <2>3, <3>1, <3>2, <3>3, ReleaseAwaits
  <2>. QED
    BY <1>1, <2>1, <2>2, <2>3, Interrupts
<1>2. PICK w : w = on'["validator"]
  OBVIOUS
<1>3. pc'["validator"] \in {"motor", "open"} =>
          /\ OpenSteps(w)' \cap ReleaseSteps' \subseteq {pc'["validator"]}
          /\ fsm' \notin PickupStates
  BY <1>2, ReleaseAwaited DEF ReleaseRecords
<1>. QED
  BY <1>1, <1>2, <1>3 DEF OneRelease

(* A product that has left the machine has left it for good.               *)
LEMMA VendsGrow ==
    ASSUME TypeOK, Next, NEW t \in Tx
    PROVE  vended'[t] >= vended[t] /\ vended'[t] \in Nat
<1>1. vended \in [Tx -> Nat]
  BY DEF TypeOK
<1>2. vended' = vended \/ vended' = [vended EXCEPT ![on["validator"]] = @ + 1]
  BY VendsByMotor DEF MotorDone, MotorFails
<1>. QED
  BY <1>1, <1>2

LEMMA WaitsForCustomer ==
    ASSUME Running, NEW t \in Tx, tx'[t].status = "waiting_for_customer_pickup"
    PROVE  vended'[t] > 0
<1> USE DEF Running, ReleaseSafe, ReleaseInvariant
<1>1. TypeOK /\ tx[t] \in TransactionRecords
  BY DEF TypeOK
<1>2. vended[t] > 0 => vended'[t] > 0
  BY RunIsStep, VendsGrow DEF TypeOK
<1>3. CASE tx[t].status = "waiting_for_customer_pickup"
  BY <1>2, <1>3 DEF PickupsApart
<1>4. CASE ValidatorChanges(t)
  <2>1. tx[t].status = "waiting_for_customer_pickup" \/ pc["validator"] = "open"
    BY <1>1, <1>4, ValidatorSets
  <2>. QED
    BY <1>2, <1>3, <1>4, <2>1 DEF PickupsApart, ValidatorChanges
<1>5. ~HandedOver(tx[t], tx'[t]) /\ ~PickupChanges(t) /\ ~RecoveryChanges(t)
  BY <1>1, HandedOverSets, PickupSets, CancelSets DEF RecoveryChanges
<1>6. ~CheckoutChanges(t)
  BY <1>1 DEF CheckoutChanges, NewTransaction, UnbornTransaction, StartCashSession,
              TransactionRecords
<1>. QED
  BY <1>3, <1>4, <1>5, <1>6, SalesChange

LEMMA RunPicksUp ==
    ASSUME Running
    PROVE  PickupsApart'
<1> USE DEF Running, ReleaseSafe, ReleaseInvariant
<1>0. TypeOK /\ Next /\ \A t \in Tx : vended[t] > 0 => vended'[t] > 0
  BY RunIsStep, VendsGrow DEF TypeOK
<1>1. session' \notin old'
  BY KioskMoves DEF PickupsApart, OldSalesRest
<1>2. \A t \in DOMAIN rows'.sales :
          rows'.sales[t].status = "waiting_for_customer_pickup" => vended'[t] > 0
  <2>1. DOMAIN rows'.sales \subseteq Tx
    BY RowsKept, RunTyped DEF DurablePaid, DurableTypeOK, RowsTyped
  <2>. QED
    BY <1>0, <2>1, RowsKept, WaitsForCustomer DEF PickupsApart
<1>3. ASSUME NEW w, w = on["validator"], pc'["validator"] = "open", on'["validator"] = w
      PROVE  /\ vended'[w] > 0 /\ fsm' \notin PickupStates /\ fsm \notin PickupStates
             /\ \/ pc["validator"] = "open"
                \/ pc["validator"] = "motor" /\ vended[w] = 0
  <2>1. CASE pc["validator"] = "open"
    <3>1. w \in Tx
      BY <1>3, <2>1, InHand
    <3>. QED
      BY <1>0, <1>3, <2>1, <3>1, ReleaseAwaited DEF PickupsApart, OneRelease
  <2>2. CASE pc["validator"] # "open"
    <3>1. /\ pc["validator"] = "motor" /\ vended' = [vended EXCEPT ![w] = @ + 1]
          /\ fsm \notin PickupStates /\ fsm' \notin PickupStates
      BY <1>3, <2>2, ReleaseBegins
    <3>2. w \in Tx /\ vended[w] = 0
      BY <1>3, <3>1, InHand DEF OnceInvariant, CompletesOnce
    <3>. QED
      BY <3>1, <3>2 DEF TypeOK
  <2>. QED
    BY <2>1, <2>2
<1>4. ASSUME NEW w, w = on'["validator"], pc'["validator"] = "open"
      PROVE  w = on["validator"]
  BY <1>4, ReleaseAwaited
<1>5. ASSUME NEW t, t = on'["confirm"], pc'["confirm"] # "rest"
      PROVE  /\ t \in Tx' \ old' /\ vended'[t] > 0 /\ ~Interrupted(t)'
             /\ ~(pc'["validator"] = "open" /\ on'["validator"] = t)
  <2>1. CASE pc'["confirm"] = pc["confirm"] /\ on'["confirm"] = on["confirm"]
    <3>1. /\ t \in Tx \ old /\ vended[t] > 0 /\ ~Interrupted(t)
          /\ ~(pc["validator"] = "open" /\ on["validator"] = t)
      BY <1>5, <2>1 DEF PickupsApart
    <3>3. ~(t = on["validator"] /\ pc["validator"] \in {"paid", "motor"})
      BY <3>1 DEF OnceInvariant, CompletesOnce
    <3>4. ~Interrupted(t)'
      BY <3>1, <3>3, Interrupts
    <3>. QED
      BY <1>0, <1>3, <1>4, <3>1, <3>3, <3>4
  <2>2. CASE /\ session \in Tx /\ TapPickup(session) /\ on'["confirm"] = session
             /\ tx[session].status = "waiting_for_customer_pickup" /\ fsm \in PickupStates
    <3>1. t \in Tx /\ t = session /\ t \notin old /\ vended[t] > 0
      BY <1>5, <2>2 DEF PickupsApart
    <3>2. ~Interrupted(t)
      BY <2>2, <3>1 DEF OneRelease
    <3>3. ~Interrupted(t)'
      BY <2>2, <3>1, <3>2, Interrupts, ReleaseBegins
    <3>. QED
      BY <1>0, <1>3, <1>4, <2>2, <3>1, <3>3
  <2>. QED
    BY <1>5, <2>1, <2>2, ConfirmMoves
<1>6. PICK w, t : w = on'["validator"] /\ t = on'["confirm"]
  OBVIOUS
<1>. QED
  BY <1>1, <1>2, <1>3, <1>4, <1>5, <1>6, WaitsForCustomer DEF PickupsApart

LEMMA RunRecovers ==
    ASSUME Running
    PROVE  RecoveryStops'
<1> USE DEF Running, ReleaseSafe, ReleaseInvariant
<1> DEFINE Apart(t) == /\ "recovery_pending" \in blockers' /\ fsm' \notin SellingStates
                       /\ t \in Tx /\ ~Interrupted(t)'
                       /\ ~(pc'["validator"] \in {"motor", "open"} /\ on'["validator"] = t)
<1>1. ASSUME NEW t, t = on["recover"], pc["recover"] # "rest",
             "recovery_pending" \in blockers => "recovery_pending" \in blockers'
      PROVE  Apart(t)
  <2>1. /\ "recovery_pending" \in blockers /\ fsm \notin SellingStates
        /\ t \in Tx /\ ~Interrupted(t)
        /\ ~(pc["validator"] \in {"motor", "open"} /\ on["validator"] = t)
    BY <1>1 DEF RecoveryStops
  <2>2. pc'["validator"] \in {"motor", "open"} => pc'["validator"] = pc["validator"]
    BY <2>1, ReleaseBegins
  <2>3. ~(pc'["validator"] \in {"motor", "open"} /\ on'["validator"] = t)
    BY <2>1, <2>2, ReleaseAwaited
  <2>4. ~Interrupted(t)'
    BY <2>1, <2>3, Interrupts
  <2>. QED
    BY <1>1, <2>1, <2>3, <2>4, StatesMove
<1>2. ASSUME NEW t \in Tx, Unresolved(tx[t]), CancelSafe(tx[t]),
             "recovery_pending" \in blockers', fsm' = "RECOVERY_PENDING"
      PROVE  Apart(t)
  <2>1. fsm' \notin SellingStates
    BY <1>2 DEF SellingStates, PickupStates
  <2>2. pc'["validator"] \in {"motor", "open"} => pc'["validator"] = pc["validator"]
    BY <2>1, ReleaseBegins
  <2>3. ~(pc'["validator"] \in {"motor", "open"} /\ on'["validator"] = t)
    BY <1>2, <2>2, ReleaseAwaited DEF ConfirmedGoesOn, CancelSafe
  <2>4. ~Interrupted(t)
    BY <1>2 DEF InterruptedAreKept, Locks
  <2>. QED
    BY <1>2, <2>1, <2>3, <2>4, Interrupts
<1>3. ASSUME NEW t, t = on'["recover"], pc'["recover"] # "rest"
      PROVE  Apart(t)
  BY <1>1, <1>2, <1>3, RecoverMoves
<1>4. PICK t : t = on'["recover"]
  OBVIOUS
<1>. QED
  BY <1>3, <1>4 DEF RecoveryStops

LEMMA RunSessions ==
    ASSUME Running
    PROVE  SessionsFollow'
<1> USE DEF Running, ReleaseSafe, ReleaseInvariant
<1>1. ASSUME NEW t \in DOMAIN rows'.sales, rows'.sales[t].session # "none"
      PROVE  tx'[t].session # "none"
  <2>1. t \in Tx
    BY RunTyped DEF DurablePaid, DurableTypeOK, RowsTyped
  <2>. QED
    BY <1>1, <2>1, RowsKept, SessionsKept DEF SessionsFollow
<1>2. ASSUME NEW t, t = on'["checkout"], pc'["checkout"] = "stop"
      PROVE  tx'[t].session = "none"
  <2>1. CASE pc["checkout"] = "stop" /\ t = on["checkout"]
    <3>1. t \in Tx /\ tx[t].session = "none"
      BY <2>1, TaskNames DEF SessionsFollow, Basic, TasksHaveSales, AtRest
    <3>. QED
      BY <1>2, <3>1, SessionsKept
  <2>2. CASE CreatePurchase /\ t = on["checkout"]
    <3>1. t \in Tx
      BY <2>2, TaskNames DEF CreatePurchase, Basic, TasksHaveSales, AtRest
    <3>2. tx'[t] = NewTransaction
      BY <2>2, <3>1 DEF CreatePurchase, Put, TypeOK
    <3>. QED
      BY <3>2 DEF NewTransaction, UnbornTransaction
  <2>. QED
    BY <1>2, <2>1, <2>2, CheckoutMoves
<1>3. PICK t : t = on'["checkout"]
  OBVIOUS
<1>. QED
  BY <1>1, <1>2, <1>3 DEF SessionsFollow

(* The active sale is a new one, or stays or ends.                         *)
LEMMA ActiveEnds ==
    ASSUME SaleStep, ~CreatePurchase
    PROVE  active' = active \/ active' = NoTx
<1>1. CASE CheckoutTask
  BY <1>1
  DEF CheckoutTask, SensorMismatch, RefusePurchase, StopFails, StartPayment,
      AcceptanceEnabled, AcceptanceNotEnabled
<1>2. CASE ValidatorTask
  BY <1>2
  DEF ValidatorTask, TakeEvent, CreditBill, ValidatorFault, BillNotEnough,
      BeginCompletion, CompletionDisabled, CompletionDisableFails, RequestChange,
      ChangeDispensed, ChangeFails, Repaid, RepayFails, AuthorizeSale, MotorDone,
      MotorFails, WindowOpens, WindowOpenFails, FaultSale, DisableFails, ClearActive
<1>3. CASE ConfirmTask \/ TimeoutTask \/ EndRecovery
  BY <1>3
  DEF ConfirmTask, PickupClosed, PickupCloseFails, TimeoutTask, TimeoutCloses,
      TimeoutClosed, TimeoutCloseFails, EndRecovery, ClearActive
<1>4. CASE \/ \E t \in Tx : PickupExpires(t) \/ TapBuy(t) \/ TapPickup(t) \/ BeginRecovery(t)
           \/ \E b \in Bills : InsertBill(b)
  BY <1>4
  DEF PickupExpires, TapBuy, TapPickup, BeginConfirm, BeginRecovery, InsertBill
<1>5. CASE Aside
  BY <1>5
  DEF Aside, TapScreen, EnterServiceMode, ExitServiceMode, RefreshStatus, ClearDrift,
      ClearRestricted, Environment, ValidatorBreaks, HealthBlocks, HealthUnblocks
<1>. QED
  BY <1>1, <1>2, <1>3, <1>4, <1>5 DEF SaleStep

(* A sale that was created stays so.                                       *)
LEMMA BornStays ==
    ASSUME Running, NEW u \in Tx, Born(u)
    PROVE  Born(u)'
<1>1. TypeOK /\ tx[u] \in TransactionRecords
  BY DEF Running, TypeOK
<1>2. CASE CheckoutChanges(u)
  BY <1>2 DEF CheckoutChanges, NewTransaction, UnbornTransaction, StartCashSession, Born,
              Running, TypeOK, TransactionRecords
<1>3. CASE HandedOver(tx[u], tx'[u]) \/ ValidatorChanges(u) \/ PickupChanges(u)
  BY <1>1, <1>3, HandedOverSets, ValidatorSets, PickupSets DEF Born
<1>4. CASE RecoveryChanges(u)
  BY <1>1, <1>4, CancelSets DEF RecoveryChanges, Born
<1>. QED
  BY <1>2, <1>3, <1>4, SalesChange DEF Running, Born

(* What is in the hands of the validator task was created.                 *)
LEMMA InHandBorn ==
    ASSUME Running,
           pc["validator"] \in {"disable", "payout", "change", "repay", "paid", "motor", "open"}
    PROVE  on["validator"] \in Tx /\ Born(on["validator"])
<1> USE DEF Running, ReleaseSafe, ReleaseInvariant
<1>1. on["validator"] \in Tx
  BY InHand
<1>2. CASE pc["validator"] = "repay"
  BY <1>1, <1>2 DEF KnownSales
<1>3. CASE pc["validator"] # "repay"
  <2>1. tx[on["validator"]].session # "none"
    BY <1>3 DEF OnceInvariant, ChangeIsDue, ConfirmedGoesOn
  <2>. QED
    BY <1>1, <2>1 DEF SaleSafe, FreshSales
<1>. QED
  BY <1>2, <1>3

(* The projector saves sales that were created.                            *)
LEMMA SavesKnown ==
    ASSUME Running
    PROVE  rows' = rows \/ \E t : Save(t) /\ (t \in Tx => Born(t)')
<1> USE DEF Running, ReleaseSafe, ReleaseInvariant
<1>1. ~RolledBack
  BY DEF RolledBack
<1>2. CASE PaymentSaves \/ ReleaseSaves
  <2>1. \/ rows' = rows
        \/ /\ Save(on["validator"])
           /\ pc["validator"] \in {"disable", "change", "repay", "motor", "open"}
    BY <1>2
    DEF PaymentSaves, ReleaseSaves, NothingSaved, SaleOf, CompletionDisabled, ChangeDispensed,
        Repaid, MotorDone, MotorFails, WindowOpens, WindowOpenFails
  <2>. QED
    BY <2>1, InHandBorn, BornStays
<1>3. CASE PickupSaves
  <2>1. CASE PickupClosed /\ Save(on["confirm"])
    <3>1. PickupsApart /\ pc["confirm"] # "rest"
      BY <2>1 DEF PickupClosed
    <3>2. on["confirm"] \in Tx
      BY <3>1 DEF PickupsApart
    <3>3. tx'[on["confirm"]].status = "completed"
      BY <2>1, <3>2 DEF PickupClosed, Put, MarkWindowClosed, TypeOK, TransactionRecords
    <3>. QED
      BY <2>1, <3>3 DEF Born
  <2>2. CASE TimeoutCloseFails /\ Save(on["timeout"])
    BY <2>2 DEF TimeoutCloseFails, Put, MarkFaulted, TypeOK, TransactionRecords, Born
  <2>3. CASE \E t \in Tx : PickupExpires(t) /\ Save(t)
    BY <2>3, BornStays DEF PickupExpires, AwaitsPickup, Born
  <2>. QED
    BY <1>3, <2>1, <2>2, <2>3 DEF PickupSaves, SaleOf, NothingSaved
<1>4. ~CancelSaves
  <2>1. \A k \in Cancellers : pc[k] = "rest"
    BY DEF DurablePaid, JournalCommits, Cancellers
  <2>. QED
    BY <2>1 DEF CancelSaves, CancelDisabled, EndCancel, RefundDispensed, RefundFails,
                CancelDisableFails
<1>5. CASE OperatorSaves
  <2>1. CASE Save(active)
    BY <2>1, BornStays DEF KnownSales
  <2>2. CASE \E t \in Tx : BeginRecovery(t) /\ Save(t)
    BY <2>2, BornStays DEF BeginRecovery, Unresolved, Born
  <2>. QED
    BY <1>5, <2>1, <2>2 DEF OperatorSaves
<1>6. CASE SilentStep
  BY <1>6 DEF SilentStep, NothingSaved
<1>. QED
  BY <1>2, <1>3, <1>4, <1>5, <1>6 DEF Run

LEMMA RunKnows ==
    ASSUME Running
    PROVE  KnownSales'
<1> USE DEF Running, ReleaseSafe, ReleaseInvariant
<1>1. ASSUME NEW t \in DOMAIN rows'.sales
      PROVE  rows'.sales[t].status # "unborn" /\ Born(t)'
  <2>1. t \in Tx
    BY RunTyped DEF DurablePaid, DurableTypeOK, RowsTyped
  <2>2. CASE t \in DOMAIN rows.sales
    <3>1. Born(t)' /\ rows.sales[t].status # "unborn"
      BY <2>1, <2>2, BornStays DEF KnownSales
    <3>. QED
      BY <1>1, <3>1, RowsKept DEF Born
  <2>3. CASE t \notin DOMAIN rows.sales
    <3>1. PICK u : Save(u) /\ (u \in Tx => Born(u)')
      BY <2>3, SavesKnown
    <3>2. Born(t)'
      BY <1>1, <2>1, <2>3, <3>1 DEF Save, Unresolved, Born
    <3>. QED
      BY <1>1, <2>3, <3>2, RowsKept DEF Born
  <2>. QED
    BY <2>2, <2>3
<1>2. active' \in Tx => Born(active)'
  <2>1. CASE CreatePurchase
    <3>1. active' = on["checkout"] /\ on["checkout"] \in Tx
      BY <2>1, TaskNames DEF CreatePurchase, Basic, TasksHaveSales, AtRest
    <3>. QED
      BY <2>1, <3>1 DEF CreatePurchase, Put, NewTransaction, UnbornTransaction, Born, TypeOK
  <2>2. CASE ~CreatePurchase
    <3>1. active' = active \/ active' = NoTx
      BY <2>2, ActiveEnds
    <3>. QED
      BY <3>1, BornStays, StateAssumption DEF KnownSales
  <2>. QED
    BY <2>1, <2>2
<1>3. ASSUME NEW t, t = on'["validator"], pc'["validator"] = "repay"
      PROVE  Born(t)'
  <2>1. t = on["validator"] /\ pc["validator"] \in {"disable", "payout", "change", "repay"}
    <3>1. CASE ValidatorStays
      BY <1>3, <3>1 DEF ValidatorStays
    <3>2. CASE ~ValidatorStays
      <4>1. /\ on'["validator"] = on["validator"]
            /\ CompletionDisabled \/ RequestChange \/ ChangeDispensed \/ ChangeFails
        BY <1>3, <3>2, ValidatorGoesOn
      <4>2. pc["validator"] \in {"disable", "payout", "change"}
        BY <4>1 DEF CompletionDisabled, RequestChange, ChangeDispensed, ChangeFails
      <4>. QED
        BY <1>3, <4>1, <4>2
    <3>. QED
      BY <3>1, <3>2
  <2>. QED
    BY <2>1, InHandBorn, BornStays
<1>4. PICK t : t = on'["validator"]
  OBVIOUS
<1>. QED
  BY <1>1, <1>2, <1>3, <1>4 DEF KnownSales

-----------------------------------------------------------------------------
(* A machine that is locked for an interrupted release stays locked.       *)

LEMMA QueueMoves ==
    ASSUME SaleStep
    PROVE  \/ queue' = queue \/ queue' = Append(queue, Fault0)
           \/ pc["validator"] = "event" /\ queue' = Tail(queue)
           \/ accepting
<1>1. CASE CheckoutTask
  BY <1>1
  DEF CheckoutTask, SensorMismatch, RefusePurchase, CreatePurchase, StopFails,
      StartPayment, AcceptanceEnabled, AcceptanceNotEnabled
<1>2. CASE ValidatorTask
  BY <1>2
  DEF ValidatorTask, TakeEvent, CreditBill, ValidatorFault, BillNotEnough,
      BeginCompletion, CompletionDisabled, CompletionDisableFails, RequestChange,
      ChangeDispensed, ChangeFails, Repaid, RepayFails, AuthorizeSale, MotorDone,
      MotorFails, WindowOpens, WindowOpenFails
<1>3. CASE ConfirmTask \/ TimeoutTask \/ EndRecovery
  BY <1>3
  DEF ConfirmTask, PickupClosed, PickupCloseFails, TimeoutTask, TimeoutCloses,
      TimeoutClosed, TimeoutCloseFails, EndRecovery
<1>4. CASE \/ \E u \in Tx : PickupExpires(u) \/ TapBuy(u) \/ TapPickup(u) \/ BeginRecovery(u)
           \/ \E b \in Bills : InsertBill(b)
  BY <1>4 DEF PickupExpires, TapBuy, TapPickup, BeginConfirm, BeginRecovery, InsertBill
<1>5. CASE Aside
  BY <1>5
  DEF Aside, TapScreen, EnterServiceMode, ExitServiceMode, RefreshStatus, ClearDrift,
      ClearRestricted, Environment, ValidatorBreaks, HealthBlocks, HealthUnblocks, Fault0
<1>. QED
  BY <1>1, <1>2, <1>3, <1>4, <1>5 DEF SaleStep

LEMMA LockedQueue ==
    ASSUME Running, Locked
    PROVE  HoldsNoBill(queue')
<1>1. /\ queue \in Seq(ValidatorEvents) /\ HoldsNoBill(queue) /\ ~accepting
      /\ pc["validator"] = "event" => queue # << >>
  BY DEF Running, TypeOK, Basic, EventInQueue, Locked
<1>. QED
  BY <1>1, QueueMoves, FaultJoins, NoBillBehind DEF Running

LEMMA LockedValidator ==
    ASSUME Running, Locked
    PROVE  pc'["validator"] \in {"rest", "event", "dead"}
<1>1. CASE ValidatorStays
  BY <1>1 DEF ValidatorStays, Locked
<1>2. ~CreditBill
  <2>1. ASSUME pc["validator"] = "event"
        PROVE  Head(queue).kind # "stacked"
    BY <2>1, NoBillBehind DEF Running, TypeOK, Basic, EventInQueue, Locked
  <2>. QED
    BY <2>1 DEF CreditBill
<1>3. ~(\/ BeginCompletion \/ CompletionDisabled \/ RequestChange \/ ChangeDispensed
        \/ ChangeFails \/ AuthorizeSale \/ MotorDone)
  BY DEF Locked, BeginCompletion, CompletionDisabled, RequestChange, ChangeDispensed,
         ChangeFails, AuthorizeSale, MotorDone
<1>. QED
  BY <1>1, <1>2, <1>3, ValidatorGoesOn DEF Running

(* A sale changes by a task that is at work for it, or by a tap on the     *)
(* screen that shows it.                                                   *)
LEMMA OwnSale ==
    ASSUME TypeOK, SaleStep, NEW u \in Tx
    PROVE  \/ tx'[u] = tx[u] \/ session = u
           \/ pc["checkout"] # "rest" \/ pc["confirm"] # "rest"
           \/ \E k \in {"validator", "timeout", "recover"} : on[k] = u
<1>1. CASE CheckoutTask \/ ConfirmTask
  BY <1>1
  DEF CheckoutTask, SensorMismatch, RefusePurchase, CreatePurchase, StopFails,
      StartPayment, AcceptanceEnabled, AcceptanceNotEnabled,
      ConfirmTask, PickupClosed, PickupCloseFails
<1>2. CASE ValidatorTask
  <2>1. \/ tx' = tx \/ \E r : Put(on["validator"], r)
    BY <1>2
    DEF ValidatorTask, TakeEvent, CreditBill, ValidatorFault, BillNotEnough,
        BeginCompletion, CompletionDisabled, CompletionDisableFails, RequestChange,
        ChangeDispensed, ChangeFails, Repaid, RepayFails, AuthorizeSale, MotorDone,
        MotorFails, WindowOpens, WindowOpenFails, FaultSale, DisableFails
  <2>. QED
    BY <2>1, PutChanges
<1>3. CASE TimeoutTask \/ EndRecovery
  <2>1. \/ tx' = tx \/ \E r : Put(on["timeout"], r) \/ Put(on["recover"], r)
    BY <1>3
    DEF TimeoutTask, TimeoutCloses, TimeoutClosed, TimeoutCloseFails, EndRecovery
  <2>. QED
    BY <2>1, PutChanges
<1>4. CASE \/ \E t \in Tx : PickupExpires(t) \/ TapBuy(t) \/ TapPickup(t) \/ BeginRecovery(t)
           \/ \E b \in Bills : InsertBill(b)
  BY <1>4, PutChanges
  DEF PickupExpires, TapBuy, TapPickup, BeginConfirm, BeginRecovery, InsertBill
<1>5. CASE Aside
  BY <1>5
  DEF Aside, TapScreen, EnterServiceMode, ExitServiceMode, RefreshStatus, ClearDrift,
      ClearRestricted, Environment, ValidatorBreaks, HealthBlocks, HealthUnblocks
<1>. QED
  BY <1>1, <1>2, <1>3, <1>4, <1>5 DEF SaleStep

LEMMA TimeoutMoves ==
    ASSUME TypeOK, SaleStep
    PROVE  \/ on'["timeout"] \in {on["timeout"], NoTx}
           \/ \E t \in Tx : Born(t) /\ on'["timeout"] = t
<1>0. ASSUME NEW k \in Tasks, k # "timeout", NEW t, NEW label, Go(k, label) \/ Start(k, t, label)
      PROVE  on'["timeout"] = on["timeout"]
  BY <1>0, OthersStay, TaskNames
<1>1. CASE CheckoutTask
  <2>1. \E label : Go("checkout", label)
    BY <1>1
    DEF CheckoutTask, SensorMismatch, RefusePurchase, CreatePurchase, StopFails,
        StartPayment, AcceptanceEnabled, AcceptanceNotEnabled
  <2>. QED
    BY <1>0, <2>1, TaskNames
<1>2. CASE ValidatorTask
  <2>1. \E label, t : Go("validator", label) \/ Start("validator", t, label)
    BY <1>2
    DEF ValidatorTask, TakeEvent, CreditBill, ValidatorFault, BillNotEnough,
        BeginCompletion, CompletionDisabled, CompletionDisableFails, RequestChange,
        ChangeDispensed, ChangeFails, Repaid, RepayFails, AuthorizeSale, MotorDone,
        MotorFails, WindowOpens, WindowOpenFails, FaultSale
  <2>. QED
    BY <1>0, <2>1, TaskNames
<1>3. CASE ConfirmTask \/ EndRecovery
  <2>1. \E k \in {"confirm", "recover"} : \E label : Go(k, label)
    BY <1>3 DEF ConfirmTask, PickupClosed, PickupCloseFails, EndRecovery
  <2>. QED
    BY <1>0, <2>1, TaskNames
<1>4. CASE TimeoutTask
  BY <1>4, TaskNames
  DEF TimeoutTask, TimeoutCloses, TimeoutClosed, TimeoutCloseFails, Go, TypeOK
<1>5. CASE \E t \in Tx : PickupExpires(t)
  BY <1>5, TaskNames DEF PickupExpires, AwaitsPickup, Born, Start, TypeOK
<1>6. CASE \/ \E t \in Tx : TapBuy(t) \/ TapPickup(t) \/ BeginRecovery(t)
           \/ \E b \in Bills : InsertBill(b)
  BY <1>0, <1>6, TaskNames DEF TapBuy, TapPickup, BeginConfirm, BeginRecovery, InsertBill
<1>7. CASE Aside
  BY <1>7
  DEF Aside, TapScreen, EnterServiceMode, ExitServiceMode, RefreshStatus, ClearDrift,
      ClearRestricted, Environment, ValidatorBreaks, HealthBlocks, HealthUnblocks
<1>. QED
  BY <1>1, <1>2, <1>3, <1>4, <1>5, <1>6, <1>7 DEF SaleStep

(* No sale is begun, and none but the old ones is worked on.               *)
LEMMA LockedSales ==
    ASSUME Running, Locked, NEW s \in Tx \ old
    PROVE  /\ ~Born(s)' /\ active' # s
           /\ \A k \in {"validator", "timeout", "recover"} : on'[k] # s
<1>1. /\ ~Born(s) /\ active # s
      /\ on["validator"] # s /\ on["timeout"] # s /\ on["recover"] # s
  BY DEF Locked
<1>2. s # NoTx /\ TypeOK /\ SaleStep
  BY StateAssumption DEF Running
<1>3. ~Born(s)'
  <2>1. tx'[s] = tx[s]
    BY <1>1, <1>2, OwnSale DEF Locked
  <2>. QED
    BY <1>1, <2>1 DEF Born
<1>4. active' # s
  <2>1. ~CreatePurchase
    BY DEF Locked, CreatePurchase
  <2>. QED
    BY <1>1, <1>2, <2>1, ActiveEnds
<1>5. on'["validator"] # s
  <2>1. CASE ValidatorStays
    BY <1>1, <2>1 DEF ValidatorStays
  <2>2. CASE ~ValidatorStays
    <3>1. TakeEvent => on'["validator"] = active
      BY <1>2, TaskNames DEF TakeEvent, Start, TypeOK
    <3>. QED
      BY <1>1, <1>2, <2>2, <3>1, ValidatorGoesOn
  <2>. QED
    BY <2>1, <2>2
<1>6. on'["timeout"] # s
  BY <1>1, <1>2, TimeoutMoves
<1>7. on'["recover"] # s
  BY <1>1, <1>2, RecoverMoves DEF Unresolved, Born
<1>. QED
  BY <1>3, <1>4, <1>5, <1>6, <1>7

(* A locked machine stays locked until a sale has been recovered.          *)
LEMMA StaysLocked ==
    ASSUME Running, Locked
    PROVE  Locked' \/ byHand' # {}
<1>1. CASE "recovery_pending" \in blockers'
  <2>1. pc'["checkout"] = "rest"
    BY CheckoutMoves DEF Running, Locked
  <2>2. pc'["confirm"] = "rest"
    BY ConfirmMoves, StateAssumption DEF Running, Locked
  <2>3. session' = NoTx /\ ~accepting'
    <3>1. SaleStep /\ session = NoTx /\ ~accepting /\ pc["checkout"] = "rest"
      BY DEF Running, Locked
    <3>2. session' = NoTx
      BY <3>1, KioskMoves
    <3>3. accepting' = accepting \/ accepting' = FALSE
      BY <3>1, KioskMoves
    <3>. QED
      BY <3>1, <3>2, <3>3
  <2>4. old' = old
    BY DEF Running
  <2>. QED
    BY <1>1, <2>1, <2>2, <2>3, <2>4, LockedQueue, LockedValidator, LockedSales DEF Locked
<1>2. CASE "recovery_pending" \notin blockers'
  <2>1. EndRecovery
    BY <1>2, RecoverMoves DEF Running, Locked
  <2>2. on["recover"] \in old
    <3>1. pc["recover"] # "rest"
      BY <2>1 DEF EndRecovery
    <3>. QED
      BY <3>1 DEF Running, ReleaseSafe, ReleaseInvariant, RecoveryStops, Locked
  <2>. QED
    BY <2>1, <2>2 DEF Running, Run
<1>. QED
  BY <1>1, <1>2

LEMMA RunLocks ==
    ASSUME Running
    PROVE  OldInterruptionsLock'
<1> USE DEF Running, ReleaseSafe, ReleaseInvariant
<1>1. SUFFICES ASSUME NEW t \in old, Interrupted(t)'
               PROVE  Locked' \/ byHand' # {}
  BY DEF OldInterruptionsLock
<1>2. t \in Tx
  BY DEF DurablePaid, DurableTypeOK
<1>3. Interrupted(t)
  BY <1>1, <1>2, Interrupts, InHand
<1>. QED
  BY <1>3, StaysLocked DEF OldInterruptionsLock, Run

(* No session begins over an interrupted release of an earlier boot.       *)
LEMMA NoneBegins ==
    ASSUME Running, NEW t \in old, Interrupted(t), byHand = {}, NEW u \in Tx
    PROVE  ~SessionStarts(u)
<1>1. pc["checkout"] = "rest"
  BY DEF Running, ReleaseSafe, ReleaseInvariant, OldInterruptionsLock, Locked
<1>. QED
  BY <1>1, SessionsKept DEF SessionStarts

LEMMA RunReleaseSafe ==
    ASSUME UnhurriedCustomers, NoKioskCancellation, NoIdleSupervisor, ReleaseSafe, Run
    PROVE  ReleaseSafe'
<1>1. /\ Running /\ pc'["idle"] = "rest" /\ powered'
      /\ DurablePaid' /\ OldSalesRest' /\ OnceInvariant'
  BY RunRuns
<1>2. InterruptedAreKept' /\ ConfirmedGoesOn' /\ OneRelease' /\ PickupsApart'
  BY <1>1, RunKeeps, RunConfirmed, RunReleases, RunPicksUp
<1>3. RecoveryStops' /\ SessionsFollow' /\ KnownSales' /\ OldInterruptionsLock'
  BY <1>1, RunRecovers, RunSessions, RunKnows, RunLocks
<1>4. PowerlessForgets'
  BY <1>1 DEF PowerlessForgets
<1>. QED
  BY <1>1, <1>2, <1>3, <1>4 DEF ReleaseSafe, ReleaseInvariant

-----------------------------------------------------------------------------
(* The power failure itself leaves no task at work, and what was           *)
(* interrupted is kept on disk.                                            *)

LEMMA LossOnce ==
    ASSUME TypeOK, OnceInvariant, PowerLoss
    PROVE  OnceInvariant'
<1>1. /\ pc' = [k \in Tasks |-> "rest"] /\ queue' = << >> /\ MotorMayHaveTurned
      /\ \A t \in Tx : answers'[t]["change"] = "none"
  BY DEF PowerLoss, DevicesStop, Requests
<1>2. pc'["validator"] = "rest"
  BY <1>1, TaskNames
<1>3. BillsOneByOne' /\ CompletesOnce' /\ ChangeIsDue'
  BY <1>1, <1>2 DEF BillsOneByOne, CompletesOnce, ChangeIsDue
<1>4. ASSUME NEW t \in Tx
      PROVE  vended'[t] <= 1
  <2>1. vended[t] \in Nat /\ vended[t] <= 1
    BY DEF TypeOK, OnceInvariant, AtMostOneVend
  <2>2. CASE UNCHANGED vended
    BY <2>1, <2>2
  <2>3. CASE pc["validator"] = "motor" /\ vended' = [vended EXCEPT ![on["validator"]] = @ + 1]
    <3>1. vended[on["validator"]] = 0
      BY <2>3 DEF OnceInvariant, CompletesOnce
    <3>. QED
      BY <2>1, <2>3, <3>1 DEF TypeOK
  <2>. QED
    BY <1>1, <2>2, <2>3 DEF MotorMayHaveTurned, Awaits
<1>. QED
  BY <1>3, <1>4 DEF OnceInvariant, AtMostOneVend

LEMMA LossReleaseSafe ==
    ASSUME ReleaseSafe, PowerLoss
    PROVE  ReleaseSafe'
<1>1. DurablePaid /\ OldSalesRest /\ OnceInvariant /\ ReleaseInvariant /\ TypeOK
      /\ NoTx \notin old
  BY NoTxIsNew DEF ReleaseSafe, DurablePaid, DurableTypeOK
<1>2. DurablePaid' /\ OldSalesRest' /\ OnceInvariant'
  <2>1. DurableSafe /\ [DurableNext]_durableVars
    BY <1>1 DEF DurableSafe, DurablePaid, DurableNext
  <2>. QED
    BY <1>1, <2>1, LossPaid, StepRests, LossOnce DEF DurableSafe
<1>3. /\ ~powered' /\ old' = old /\ tx' = tx /\ journal' = journal /\ rows' = rows
      /\ session' = NoTx /\ \A k \in Tasks : pc'[k] = "rest"
      /\ \A t \in Tx : answers'[t]["change"] = "none"
  BY <1>1
  DEF PowerLoss, DevicesStop, Requests, Durable, DiskRows, DurablePaid, JournalCommits
<1>4. \A t \in Tx : vended[t] > 0 => vended'[t] > 0
  <2>1. MotorMayHaveTurned /\ vended \in [Tx -> Nat]
    BY <1>1 DEF PowerLoss, TypeOK
  <2>. QED
    BY <2>1 DEF MotorMayHaveTurned
<1>5. pc'["validator"] = "rest" /\ pc'["checkout"] = "rest" /\ pc'["confirm"] = "rest"
      /\ pc'["recover"] = "rest" /\ pc'["idle"] = "rest"
  BY <1>3, TaskNames
<1>6. InterruptedAreKept'
  BY <1>1, <1>3 DEF ReleaseInvariant, InterruptedAreKept, Interrupted, OpenSteps
<1>7. ConfirmedGoesOn' /\ OneRelease' /\ RecoveryStops' /\ OldInterruptionsLock'
      /\ PowerlessForgets'
  BY <1>3, <1>5
  DEF ConfirmedGoesOn, OneRelease, RecoveryStops, OldInterruptionsLock, PowerlessForgets
<1>8. PickupsApart'
  <2>1. DOMAIN rows.sales \subseteq Tx
    BY <1>1 DEF DurablePaid, DurableTypeOK, RowsTyped
  <2>. QED
    BY <1>1, <1>3, <1>4, <1>5, <2>1 DEF ReleaseInvariant, PickupsApart
<1>9. SessionsFollow'
  BY <1>1, <1>3, <1>5 DEF ReleaseInvariant, SessionsFollow
<1>10. KnownSales'
  <2>1. active' = active
    BY DEF PowerLoss, DevicesStop
  <2>. QED
    BY <1>1, <1>3, <1>5, <2>1 DEF ReleaseInvariant, KnownSales, Born
<1>. QED
  BY <1>2, <1>5, <1>6, <1>7, <1>8, <1>9, <1>10 DEF ReleaseSafe, ReleaseInvariant

-----------------------------------------------------------------------------
(* The next boot.                                                          *)

(* What is restored of a sale is its row, perhaps marked.                  *)
LEMMA RestoredShows ==
    ASSUME RowsTyped(rows), assembly \in {"simulator", "production"}, NEW t \in Tx
    PROVE  /\ t \notin DOMAIN rows.sales => RestoredSale(t) = UnbornTransaction
           /\ t \in DOMAIN rows.sales =>
                 /\ RestoredSale(t).session = rows.sales[t].session
                 /\ RestoredSale(t).status \in {rows.sales[t].status, "ambiguous"}
                 /\ t \notin Restored => RestoredSale(t) = rows.sales[t]
                 /\ Interrupted(t) /\ Locks(rows.sales[t]) =>
                       t \in Restored /\ Locks(RestoredSale(t))
<1>1. CASE t \notin DOMAIN rows.sales
  BY <1>1 DEF RestoredSale
<1>2. CASE t \in DOMAIN rows.sales
  <2> DEFINE r == rows.sales[t]
  <2>1. r \in TransactionRecords
    BY <1>2 DEF RowsTyped
  <2>2. /\ MarkAmbiguous(r).status = "ambiguous" /\ MarkAmbiguous(r).session = r.session
        /\ Locks(MarkAmbiguous(r))
    <3>1. MarkAmbiguous(r).status = "ambiguous" /\ MarkAmbiguous(r).session = r.session
      BY <2>1 DEF MarkAmbiguous, TransactionRecords
    <3>. QED
      BY <3>1 DEF Locks, Unresolved, CancelSafe
  <2>3. /\ MarkRecoveryPending(r).status = r.status
        /\ MarkRecoveryPending(r).session = r.session
    BY <2>1 DEF MarkRecoveryPending, TransactionRecords
  <2>4. /\ RestoredSale(t) = r \/ (t \in Restored /\ assembly = "simulator"
                                      /\ RestoredSale(t) = Detect(t, r))
        /\ assembly = "simulator" /\ t \in Restored => RestoredSale(t) = Detect(t, r)
    BY <1>2 DEF RestoredSale
  <2>5. Detect(t, r) \in {r, MarkRecoveryPending(r), MarkAmbiguous(r)}
    BY DEF Detect
  <2>6. Interrupted(t) => Detect(t, r) = MarkAmbiguous(r)
    BY DEF Interrupted, Detect, ReleaseSteps, ManualSteps, Steps
  <2>7. Locks(r) => t \in Restored
    BY <1>2 DEF Locks, Restored
  <2>. QED
    BY <1>2, <2>2, <2>3, <2>4, <2>5, <2>6, <2>7
<1>. QED
  BY <1>1, <1>2

LEMMA ReturnOnce ==
    ASSUME DurableTypeOK, PowerlessForgets, OnceInvariant, PowerReturns
    PROVE  OnceInvariant'
<1>1. /\ pc'["validator"] = "rest" /\ queue' = << >> /\ UNCHANGED <<answers, vended>>
      /\ \A t \in Tx : answers[t]["change"] = "none"
  BY TaskNames DEF PowerReturns, TasksStart, DurableTypeOK, PowerlessForgets
<1>. QED
  BY <1>1
  DEF OnceInvariant, BillsOneByOne, CompletesOnce, ChangeIsDue, AtMostOneVend

LEMMA ReturnReleaseSafe ==
    ASSUME ReleaseSafe, PowerReturns
    PROVE  ReleaseSafe'
<1>1. /\ DurablePaid /\ OldSalesRest /\ OnceInvariant /\ ReleaseInvariant /\ TypeOK
      /\ DurableTypeOK /\ RowsTyped(rows) /\ assembly \in {"simulator", "production"}
      /\ DOMAIN rows.sales \subseteq Tx
  BY DEF ReleaseSafe, DurablePaid, DurableTypeOK, RowsTyped
<1>2. DurablePaid' /\ OldSalesRest' /\ OnceInvariant'
  <2>1. DurableSafe /\ [DurableNext]_durableVars
    BY <1>1 DEF DurableSafe, DurableNext
  <2>. QED
    BY <1>1, <2>1, ReturnPaid, StepRests, ReturnOnce DEF DurableSafe, ReleaseInvariant
<1>3. /\ ~powered /\ powered' /\ tx' = [t \in Tx |-> RestoredSale(t)]
      /\ old' = old \cup {t \in Tx : Born(t)} /\ RestartLocked(Restored)
      /\ UNCHANGED <<pc, on, queue, accepting, session, journal, vended, assembly>>
      /\ \A k \in Tasks : pc[k] = "rest"
      /\ queue = << >> /\ ~accepting /\ session = NoTx
  BY <1>1 DEF PowerReturns, TasksStart, DurableTypeOK, ReleaseInvariant, PowerlessForgets
<1>4. DOMAIN rows'.sales = DOMAIN rows.sales
      /\ \A t \in DOMAIN rows.sales : rows'.sales[t] = tx'[t]
  BY <1>1, ReturnRows
<1>5. pc'["validator"] = "rest" /\ pc'["checkout"] = "rest" /\ pc'["confirm"] = "rest"
      /\ pc'["recover"] = "rest" /\ pc'["idle"] = "rest"
  BY <1>3, TaskNames
<1>6. ASSUME NEW t \in Tx, Interrupted(t)'
      PROVE  t \in Restored /\ t \in DOMAIN rows.sales /\ Locks(tx'[t]) /\ t \in old'
  <2>1. Interrupted(t)
    BY <1>3, <1>6 DEF Interrupted, OpenSteps
  <2>2. Locks(tx[t]) /\ t \in DOMAIN rows.sales /\ Locks(rows.sales[t])
    BY <1>1, <2>1 DEF ReleaseInvariant, InterruptedAreKept
  <2>3. t \in old'
    BY <1>3, <2>2 DEF Locks, Unresolved, Born
  <2>. QED
    BY <1>1, <1>3, <2>1, <2>2, <2>3, RestoredShows
<1>7. InterruptedAreKept' /\ OneRelease' /\ PowerlessForgets'
  BY <1>3, <1>4, <1>5, <1>6 DEF InterruptedAreKept, OneRelease, PowerlessForgets
<1>8. ConfirmedGoesOn' /\ RecoveryStops'
  BY <1>5 DEF ConfirmedGoesOn, RecoveryStops
<1>9. PickupsApart'
  <2>1. ASSUME NEW t \in Tx, tx'[t].status = "waiting_for_customer_pickup"
        PROVE  vended'[t] > 0
    <3>1. t \in DOMAIN rows.sales /\ rows.sales[t].status = "waiting_for_customer_pickup"
      BY <1>1, <1>3, <2>1, RestoredShows DEF UnbornTransaction
    <3>. QED
      BY <1>1, <1>3, <3>1 DEF ReleaseInvariant, PickupsApart
  <2>2. session' \notin old'
    BY <1>2, <1>3, NoTxIsNew, StateAssumption DEF DurablePaid, DurableTypeOK
  <2>. QED
    BY <1>1, <1>4, <1>5, <2>1, <2>2 DEF PickupsApart
<1>10. SessionsFollow'
  BY <1>4, <1>5 DEF SessionsFollow
<1>11. ASSUME NEW t \in DOMAIN rows.sales
       PROVE  tx'[t].status # "unborn" /\ rows'.sales[t].status # "unborn"
  <2>1. rows.sales[t].status # "unborn" /\ t \in Tx
    BY <1>1, <1>11 DEF ReleaseInvariant, KnownSales
  <2>2. tx'[t].status # "unborn"
    BY <1>1, <1>3, <1>11, <2>1, RestoredShows
  <2>. QED
    BY <1>4, <1>11, <2>2
<1>12. KnownSales'
  <2>1. active' \in Tx => active' \in DOMAIN rows.sales
    BY StateAssumption DEF PowerReturns, Restored
  <2>. QED
    BY <1>4, <1>5, <1>11, <2>1 DEF KnownSales, Born
<1>13. OldInterruptionsLock'
  <2>1. SUFFICES ASSUME NEW t \in old', Interrupted(t)'
                 PROVE  Locked'
    BY DEF OldInterruptionsLock
  <2>2. t \in Tx
    BY <1>2 DEF DurablePaid, DurableTypeOK
  <2>3. t \in Restored /\ Interrupted(t)
    BY <1>3, <1>6, <2>1, <2>2 DEF Interrupted, OpenSteps
  <2>4. "recovery_pending" \in blockers'
    BY <1>3, <2>3 DEF RestartLocked
  <2>5. ASSUME NEW s \in Tx \ old'
        PROVE  /\ ~Born(s)' /\ active' # s
               /\ \A k \in {"validator", "timeout", "recover"} : on'[k] # s
    <3>1. ~Born(s)
      BY <1>3, <2>5
    <3>2. s \notin DOMAIN rows.sales
      BY <1>1, <2>5, <3>1 DEF ReleaseInvariant, KnownSales
    <3>3. ~Born(s)'
      BY <1>1, <1>3, <2>5, <3>2, RestoredShows DEF UnbornTransaction, Born
    <3>4. active' # s
      BY <1>12, <2>5, <3>3 DEF KnownSales
    <3>5. on' = [k \in Tasks |-> NoTx]
      BY <1>1, <1>3 DEF DurableTypeOK
    <3>. QED
      BY <2>5, <3>3, <3>4, <3>5, TaskNames, StateAssumption
  <2>6. HoldsNoBill(queue')
    BY <1>3 DEF HoldsNoBill
  <2>. QED
    BY <1>3, <1>5, <2>4, <2>5, <2>6 DEF Locked
<1>. QED
  BY <1>2, <1>5, <1>7, <1>8, <1>9, <1>10, <1>12, <1>13 DEF ReleaseSafe, ReleaseInvariant

LEMMA StillReleaseSafe ==
    ASSUME ReleaseSafe, UNCHANGED durableVars
    PROVE  ReleaseSafe'
<1> USE DEF durableVars, vars
<1>1. DurablePaid' /\ OldSalesRest'
  <2>1. DurableTypeOK' /\ SaleSafe'
    BY StillTyped, StillSafe, DurableBasic DEF ReleaseSafe, DurablePaid
  <2>2. JournalCommits' /\ RowsFollow'
    BY DEF ReleaseSafe, DurablePaid, JournalCommits, RowsFollow, PaidOnDisk
  <2>. QED
    BY <2>1, <2>2 DEF ReleaseSafe, DurablePaid, OldSalesRest
<1>2. OnceInvariant'
  BY DEF ReleaseSafe, OnceInvariant, BillsOneByOne, StillOwes, CompletesOnce, ChangeIsDue,
         AtMostOneVend
<1>3. InterruptedAreKept' /\ ConfirmedGoesOn' /\ OneRelease'
  BY DEF ReleaseSafe, ReleaseInvariant, InterruptedAreKept, ConfirmedGoesOn, OneRelease,
         Interrupted, OpenSteps
<1>4. PickupsApart' /\ RecoveryStops' /\ SessionsFollow' /\ KnownSales'
  BY DEF ReleaseSafe, ReleaseInvariant, PickupsApart, RecoveryStops, SessionsFollow,
         KnownSales, Interrupted, OpenSteps, Born
<1>5. OldInterruptionsLock' /\ PowerlessForgets' /\ pc'["idle"] = "rest"
  BY DEF ReleaseSafe, ReleaseInvariant, OldInterruptionsLock, PowerlessForgets, Locked,
         Interrupted, OpenSteps, Born
<1>. QED
  BY <1>1, <1>2, <1>3, <1>4, <1>5 DEF ReleaseSafe, ReleaseInvariant

LEMMA InitReleaseSafe == DurableInit => ReleaseSafe
<1> SUFFICES ASSUME DurableInit PROVE ReleaseSafe
  OBVIOUS
<1>1. /\ tx = [t \in Tx |-> UnbornTransaction] /\ journal = {} /\ rows = NoRows
      /\ queue = << >> /\ session = NoTx /\ old = {} /\ powered = TRUE /\ active = NoTx
      /\ \A k \in Tasks : pc[k] = "rest"
      /\ \A t \in Tx : vended[t] = 0 /\ answers[t]["change"] = "none"
  BY DEF DurableInit, Init, Requests
<1>2. pc["validator"] = "rest" /\ pc["checkout"] = "rest" /\ pc["confirm"] = "rest"
      /\ pc["recover"] = "rest" /\ pc["idle"] = "rest"
  BY <1>1, TaskNames
<1>3. \A t : ~Interrupted(t)
  BY <1>1 DEF Interrupted, OpenSteps
<1>4. OnceInvariant
  BY <1>1, <1>2
  DEF OnceInvariant, BillsOneByOne, CompletesOnce, ChangeIsDue, AtMostOneVend
<1>5. OldSalesRest
  <2>1. on["validator"] \notin old
    BY <1>1
  <2>. QED
    BY <1>1, <1>2, <2>1 DEF OldSalesRest
<1>6. KnownSales
  BY <1>1, <1>2, StateAssumption DEF KnownSales, NoRows
<1>7. ReleaseInvariant
  BY <1>1, <1>2, <1>3, <1>6
  DEF ReleaseInvariant, PowerlessForgets, InterruptedAreKept, ConfirmedGoesOn, OneRelease,
      PickupsApart, RecoveryStops, SessionsFollow, OldInterruptionsLock, NoRows,
      UnbornTransaction
<1>. QED
  BY <1>4, <1>5, <1>7, InitPaid DEF ReleaseSafe

(* No session begins while the release of an earlier sale is open: not in  *)
(* a step of the machine, nor by what a restart reads back from disk.      *)
LEMMA LockedOut ==
    ASSUME UnhurriedCustomers, NoKioskCancellation, NoIdleSupervisor, ReleaseSafe,
           [DurableNext]_durableVars,
           NEW t \in old, Interrupted(t), byHand = {}, NEW u \in Tx
    PROVE  ~SessionStarts(u)
<1>1. CASE Run
  BY <1>1, RunRuns, NoneBegins
<1>2. CASE PowerLoss
  BY <1>2 DEF PowerLoss, SessionStarts
<1>3. CASE PowerReturns
  <2>1. RowsTyped(rows) /\ assembly \in {"simulator", "production"} /\ SessionsFollow
    BY DEF ReleaseSafe, ReleaseInvariant, DurablePaid, DurableTypeOK
  <2>2. tx'[u] = RestoredSale(u)
    BY <1>3 DEF PowerReturns
  <2>3. CASE u \in DOMAIN rows.sales
    BY <2>1, <2>2, <2>3, RestoredShows DEF SessionsFollow, SessionStarts
  <2>4. CASE u \notin DOMAIN rows.sales
    BY <2>1, <2>2, <2>4, RestoredShows DEF UnbornTransaction, SessionStarts
  <2>. QED
    BY <2>3, <2>4
<1>4. CASE UNCHANGED durableVars
  BY <1>4 DEF durableVars, vars, SessionStarts
<1>. QED
  BY <1>1, <1>2, <1>3, <1>4 DEF DurableNext

(* After a restart that finds a release interrupted (a motor, inventory or *)
(* window record without its outcome), no session begins on that machine,  *)
(* in this boot or a later one, until a technician has recovered a sale in *)
(* that boot: _restore_runtime_state blocks sales with recovery_pending,   *)
(* and neither the startup flow nor the pickup, the timeout supervisor or  *)
(* the health monitor takes the blocker away.                              *)
THEOREM InterruptedReleasesLock ==
    ASSUME UnhurriedCustomers, NoKioskCancellation, NoIdleSupervisor
    PROVE  DurableSpec => NoSaleOverInterruptedRelease
<1> DEFINE A == \A t \in old, u \in Tx :
                    SessionStarts(u) => byHand # {} \/ OpenSteps(t) \cap ReleaseSteps = {}
<1>1. ReleaseSafe /\ [DurableNext]_durableVars => [A]_durableVars
  BY LockedOut DEF Interrupted
<1>2. ReleaseSafe /\ [DurableNext]_durableVars => ReleaseSafe'
  BY RunReleaseSafe, LossReleaseSafe, ReturnReleaseSafe, StillReleaseSafe DEF DurableNext
<1> HIDE DEF A
<1>3. DurableSpec => [][A]_durableVars
  BY <1>1, <1>2, InitReleaseSafe, PTL DEF DurableSpec
<1>. QED
  BY <1>3 DEF A, NoSaleOverInterruptedRelease

=============================================================================
