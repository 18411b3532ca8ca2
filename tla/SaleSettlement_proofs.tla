------------------------ MODULE SaleSettlement_proofs -----------------------
(***************************************************************************)
(* While nobody disturbs the sales and every customer collects in time,    *)
(* sales settle: what a sale keeps of its cash is the price of what it     *)
(* released or somebody will look at it, every intent gets its outcome,    *)
(* and the next sale waits for both.                                       *)
(*                                                                         *)
(* Either the validator task has died, and then no sale starts any more;   *)
(* or the state machine is where the task that has a sale in hand needs    *)
(* it, and nothing that task calls refuses.                                *)
(***************************************************************************)
EXTENDS SaleContract_proofs

SettledBasic == ContractBasic /\ SettledInvariant

Alive == ~ValidatorDead /\ InPlace /\ NothingRefuses /\ OutcomesFollow

AliveNext == InPlace' /\ NothingRefuses' /\ OutcomesFollow'

Stuck ==
    /\ active \in Tx
    /\ tx[active].status = "dispensing_product" /\ tx[active].session = "completed"

(* The steps of all tasks but the validator's, of customers and devices.   *)
OtherStep ==
    \/ CheckoutTask \/ ConfirmTask
    \/ \E t \in Tx : TapBuy(t) \/ TapPickup(t)
    \/ \E b \in Bills : InsertBill(b)
    \/ Environment \/ TapScreen \/ UNCHANGED vars

USE DEF fsmVars, permitVars, saleVars, deviceVars, taskVars, kioskVars, storeVars, cashVars

-----------------------------------------------------------------------------
(* What a step keeps.                                                      *)

LEMMA SettlingSteps ==
    ASSUME Undisturbed, PromptPickup, SettledBasic, [Next]_vars
    PROVE  ValidatorTask \/ OtherStep
<1>1. NobodyCancels
  BY DEF SettledBasic, ContractBasic, ContractInvariant
<1>2. ~TimeoutTask
  BY DEF SettledBasic, SettledInvariant, TimeoutTask, TimeoutCloses, TimeoutClosed,
         TimeoutCloseFails
<1>3. \A t \in Tx : ~PickupExpires(t)
  BY DEF PromptPickup, PickupExpires
<1>. QED
  BY <1>1, <1>2, <1>3, PossibleSteps DEF OtherStep

(* No step lifts a lock.                                                   *)
LEMMA LocksKept ==
    ASSUME TypeOK, OtherStep
    PROVE  LocksStay
<1>1. /\ Halted => ~MayEnter(fsm, "PRODUCT_SELECTED") /\ ~MayEnter(fsm, "ACCEPTING_CASH")
                   /\ ~MayEnter(fsm, "CLOSING_DELIVERY_WINDOW") /\ ~MayEnter(fsm, "COMPLETED")
      /\ Halted => MayEnter(fsm, "FAULT")
  BY Waits
<1>2. CASE CheckoutTask
  <2>1. blockers \subseteq blockers'
    BY <1>2
    DEF CheckoutTask, SensorMismatch, RefusePurchase, CreatePurchase, StopFails, StartPayment,
        AcceptanceEnabled, AcceptanceNotEnabled
  <2>2. Halted => Halted'
    BY <1>1, <1>2
    DEF CheckoutTask, SensorMismatch, RefusePurchase, CreatePurchase, StopFails, StartPayment,
        AcceptanceEnabled, AcceptanceNotEnabled, Show, Halted
  <2>. QED
    BY <2>1, <2>2 DEF LocksStay, Locked
<1>3. CASE ConfirmTask \/ (\E t \in Tx : TapPickup(t))
  <2>1. blockers' = blockers
    BY <1>3 DEF ConfirmTask, PickupClosed, PickupCloseFails, TapPickup, BeginConfirm
  <2>2. Halted => Halted'
    BY <1>1, <1>3
    DEF ConfirmTask, PickupClosed, PickupCloseFails, TapPickup, BeginConfirm, Show, Halted
  <2>. QED
    BY <2>1, <2>2 DEF LocksStay, Locked
<1>4. CASE \/ \E t \in Tx : TapBuy(t)
           \/ \E b \in Bills : InsertBill(b)
           \/ Environment \/ TapScreen \/ UNCHANGED vars
  <2>1. blockers \ {"device_fault"} \subseteq blockers' /\ UNCHANGED <<fsm, shown>>
    BY <1>4
    DEF TapBuy, InsertBill, Environment, ValidatorBreaks, HealthBlocks, HealthUnblocks,
        TapScreen, vars
  <2>. QED
    BY <2>1 DEF LocksStay, Locked, Halted
<1>. QED
  BY <1>2, <1>3, <1>4 DEF OtherStep

(* Steps that leave the money of completed sales alone.                    *)
LEMMA BooksStay ==
    ASSUME BooksBalance, UNCHANGED <<paid, vended, answers>>,
           \A u \in Tx : InSettlement(u)' <=> InSettlement(u),
           \A u \in Tx : /\ tx'[u].session = "completed" <=> tx[u].session = "completed"
                         /\ tx'[u].session = "completed" =>
                                /\ tx'[u].accepted = tx[u].accepted
                                /\ Flagged(tx[u]) => Flagged(tx'[u])
    PROVE  BooksBalance'
<1> SUFFICES ASSUME NEW u \in Tx PROVE BookBalances(u)'
  BY DEF BooksBalance
<1>. QED
  BY DEF BooksBalance, BookBalances

LEMMA OtherTasks ==
    ASSUME SettledBasic, OtherStep
    PROVE  ValidatorStays /\ pc'["timeout"] = pc["timeout"]
<1> USE DEF SettledBasic, ContractBasic, OnceBasic, Basic
<1>1. CASE CheckoutTask
  <2>1. PICK label : Go("checkout", label)
    BY <1>1
    DEF CheckoutTask, SensorMismatch, RefusePurchase, CreatePurchase, StopFails, StartPayment,
        AcceptanceEnabled, AcceptanceNotEnabled
  <2>. QED
    BY <2>1, TaskAlone, TaskNames
<1>2. CASE ConfirmTask
  BY <1>2, TaskAlone, TaskNames DEF ConfirmTask, PickupClosed, PickupCloseFails
<1>3. CASE \E t \in Tx : TapPickup(t)
  <2>1. \/ UNCHANGED <<pc, on>>
        \/ \E t \in Tx : Start("confirm", t, "close")
    BY <1>3 DEF TapPickup, BeginConfirm
  <2>. QED
    BY <2>1, TaskAlone, TaskNames DEF ValidatorStays
<1>4. CASE \E t \in Tx : TapBuy(t)
  BY <1>4, TaskAlone, TaskNames DEF TapBuy
<1>5. CASE (\E b \in Bills : InsertBill(b)) \/ Environment \/ TapScreen \/ UNCHANGED vars
  BY <1>5
  DEF InsertBill, Environment, ValidatorBreaks, HealthBlocks, HealthUnblocks,
      TapScreen, vars, ValidatorStays
<1>. QED
  BY <1>1, <1>2, <1>3, <1>4, <1>5 DEF OtherStep

(* The record of a sale that a step of theirs touches.                     *)
OtherRecord(t) ==
    \/ ~Born(t) /\ Put(t, NewTransaction)
    \/ tx[t].session = "none" /\ \E reserved \in BOOLEAN : Put(t, StartCashSession(tx[t], reserved))
    \/ \E r \in { MarkFaulted(tx[t]), ConfirmPickup(tx[t]), MarkWindowClosed(tx[t]) } : Put(t, r)

LEMMA OtherRecords ==
    ASSUME SettledBasic, OtherStep
    PROVE  /\ UNCHANGED <<paid, vended, answers>>
           /\ tx' = tx \/ \E t \in Tx : OtherRecord(t)
<1> USE DEF SettledBasic, ContractBasic, OnceBasic
<1>1. CASE CheckoutTask
  <2>1. pc["checkout"] \in {"sensor", "stop", "enable"} => on["checkout"] \in Tx
    BY OnSale, TaskNames, LabelNames
  <2>2. /\ pc["checkout"] = "sensor" => ~Born(on["checkout"])
        /\ pc["checkout"] = "stop" => tx[on["checkout"]].session = "none"
    BY DEF ContractInvariant, CheckoutAt
  <2>. QED
    BY <1>1, <2>1, <2>2
    DEF CheckoutTask, SensorMismatch, RefusePurchase, CreatePurchase, StopFails, StartPayment,
        AcceptanceEnabled, AcceptanceNotEnabled, OtherRecord
<1>2. CASE ConfirmTask
  <2>1. pc["confirm"] = "close" => on["confirm"] \in Tx
    BY OnSale, TaskNames, LabelNames
  <2>. QED
    BY <1>2, <2>1 DEF ConfirmTask, PickupClosed, PickupCloseFails, OtherRecord
<1>3. CASE \E t \in Tx : TapPickup(t)
  BY <1>3 DEF TapPickup, BeginConfirm, OtherRecord
<1>4. CASE \/ \E t \in Tx : TapBuy(t)
           \/ \E b \in Bills : InsertBill(b)
           \/ Environment \/ TapScreen \/ UNCHANGED vars
  BY <1>4
  DEF TapBuy, InsertBill, Environment, ValidatorBreaks, HealthBlocks, HealthUnblocks,
      TapScreen, vars
<1>. QED
  BY <1>1, <1>2, <1>3, <1>4 DEF OtherStep

LEMMA OtherBooks ==
    ASSUME SettledBasic, OtherStep
    PROVE  BooksBalance'
<1> USE DEF SettledBasic, ContractBasic, OnceBasic, Basic
<1>1. \A u \in Tx : InSettlement(u)' <=> InSettlement(u)
  BY OtherTasks DEF ValidatorStays, InSettlement
<1>2. CASE tx' = tx
  BY <1>1, <1>2, OtherRecords, BooksStay DEF SettledInvariant
<1>3. CASE \E t \in Tx : OtherRecord(t)
  <2>1. PICK t \in Tx : OtherRecord(t)
    BY <1>3
  <2>2. tx[t] \in TransactionRecords /\ TypeOK /\ RecordTells(t)
    BY DEF TypeOK, ContractInvariant, SalesTell
  <2>3. \A u \in Tx : u # t => tx'[u] = tx[u]
    BY <2>1, <2>2 DEF OtherRecord, Put, TypeOK
  <2>4. /\ tx'[t].session = "completed" <=> tx[t].session = "completed"
        /\ tx'[t].session = "completed" =>
               tx'[t].accepted = tx[t].accepted /\ (Flagged(tx[t]) => Flagged(tx'[t]))
    <3>1. CASE ~Born(t) /\ Put(t, NewTransaction)
      BY <2>2, <3>1 DEF Put, TypeOK, NewTransaction, UnbornTransaction, RecordTells
    <3>2. CASE tx[t].session = "none"
               /\ \E reserved \in BOOLEAN : Put(t, StartCashSession(tx[t], reserved))
      BY <2>2, <3>2, SessionIsRecord DEF Put, TypeOK
    <3>3. CASE \E r \in { MarkFaulted(tx[t]), ConfirmPickup(tx[t]), MarkWindowClosed(tx[t]) } :
                   Put(t, r)
      <4>1. PICK status, recovery : /\ Becomes(tx[t], tx'[t], status, recovery)
                                    /\ recovery = tx[t].recovery \/ recovery = "pending"
        BY <2>2, <3>3, MethodsSet DEF Put, TypeOK
      <4>. QED
        BY <2>2, <4>1 DEF Becomes, SameMoney, Flagged, RecordTells
    <3>. QED
      BY <2>1, <3>1, <3>2, <3>3 DEF OtherRecord
  <2>. QED
    BY <1>1, <2>3, <2>4, OtherRecords, BooksStay DEF SettledInvariant
<1>. QED
  BY <1>2, <1>3, OtherRecords

-----------------------------------------------------------------------------
(* The validator task has died.                                            *)

(* A sale that the motor left behind with an empty slot keeps its place.   *)
LEMMA StuckStays ==
    ASSUME SettledBasic, OtherStep, Stuck, ~Locked
    PROVE  Stuck'
<1> USE DEF SettledBasic, ContractBasic, OnceBasic, Stuck
<1>1. ~SlotIsFree
  BY StateAssumption DEF SlotIsFree
<1>2. pc["checkout"] \notin {"stop", "enable"}
  BY DEF ContractInvariant, CheckoutAt
<1>3. pc["confirm"] # "close"
  BY DEF ContractInvariant, ClosersAt
<1>4. CASE CheckoutTask
  BY <1>1, <1>2, <1>4
  DEF CheckoutTask, SensorMismatch, RefusePurchase, CreatePurchase, StopFails, StartPayment,
      AcceptanceEnabled, AcceptanceNotEnabled
<1>5. CASE ConfirmTask
  BY <1>3, <1>5 DEF ConfirmTask, PickupClosed, PickupCloseFails
<1>6. ASSUME NEW t \in Tx, TapPickup(t)
      PROVE  Stuck'
  <2>1. HandedOver(t) /\ tx[t].status = "waiting_for_customer_pickup"
    BY <1>6, WaitsForPickup DEF TapPickup
  <2>2. t # active
    BY <2>1
  <2>. QED
    BY <1>6, <2>2 DEF TapPickup, BeginConfirm, Put, Basic, TypeOK
<1>7. CASE \/ \E t \in Tx : TapBuy(t)
           \/ \E b \in Bills : InsertBill(b)
           \/ Environment \/ TapScreen \/ UNCHANGED vars
  BY <1>7
  DEF TapBuy, InsertBill, Environment, ValidatorBreaks, HealthBlocks, HealthUnblocks,
      TapScreen, vars
<1>. QED
  BY <1>4, <1>5, <1>6, <1>7 DEF OtherStep

LEMMA DeadStays ==
    ASSUME Undisturbed, PromptPickup, SettledBasic, [Next]_vars, ValidatorDead
    PROVE  SettledInvariant'
<1> USE DEF SettledBasic
<1>1. ~ValidatorTask
  BY DEF ValidatorDead, ValidatorTask, TakeEvent, CreditBill, ValidatorFault, BillNotEnough,
         BeginCompletion, CompletionDisabled, CompletionDisableFails, RequestChange,
         ChangeDispensed, ChangeFails, Repaid, RepayFails, AuthorizeSale, MotorDone, MotorFails,
         WindowOpens, WindowOpenFails
<1>2. OtherStep
  BY <1>1, SettlingSteps
<1>3. LocksStay
  BY <1>2, LocksKept DEF ContractBasic, OnceBasic, Basic
<1>4. Locked' \/ Stuck'
  BY <1>2, <1>3, StuckStays DEF SettledInvariant, DeadStops, LocksStay, Stuck
<1>5. ValidatorDead' /\ pc'["timeout"] = "rest" /\ BooksBalance'
  BY <1>2, OtherTasks, OtherBooks DEF SettledInvariant, ValidatorDead, ValidatorStays
<1>. QED
  BY <1>4, <1>5 DEF SettledInvariant, DeadStops, Stuck

-----------------------------------------------------------------------------
(* The validator task lives: what a step keeps.                            *)

LEMMA RecordNames ==
    ASSUME NEW t, NEW u, NEW a, NEW b
    PROVE  /\ Intent(t, a) = Intent(u, b) <=> t = u /\ a = b
           /\ Outcome(t, a) = Outcome(u, b) <=> t = u /\ a = b
           /\ Intent(t, a) # Outcome(u, b)
BY DEF Intent, Outcome

(* Every intent written or awaited so far is awaited or answered.          *)
LEMMA OutcomesFrame ==
    ASSUME OutcomesFollow, NEW R, journal' = journal \cup R,
           \A t \in Tx, step \in Steps :
               /\ Intent(t, step) \in R => Outcome(t, step) \in R \/ Awaited(t, step)'
               /\ Awaited(t, step) => Awaited(t, step)' \/ Outcome(t, step) \in R
    PROVE  OutcomesFollow'
<1> SUFFICES ASSUME NEW t \in Tx, NEW step \in Steps, Intent(t, step) \in journal'
             PROVE  Outcome(t, step) \in journal' \/ Awaited(t, step)'
  BY DEF OutcomesFollow, Intent, Outcome
<1>. QED
  BY DEF OutcomesFollow

LEMMA OutcomesStay ==
    ASSUME OutcomesFollow, journal' = journal,
           \A u \in Tx, step \in Steps : Awaited(u, step) => Awaited(u, step)'
    PROVE  OutcomesFollow'
BY DEF OutcomesFollow, Intent, Outcome

LEMMA OutcomeWritten ==
    ASSUME OutcomesFollow, NEW t, NEW a, journal' = journal \cup {Outcome(t, a)},
           \A u \in Tx, step \in Steps :
               Awaited(u, step) => Awaited(u, step)' \/ (u = t /\ step = a)
    PROVE  OutcomesFollow'
<1> DEFINE R == {Outcome(t, a)}
<1>1. ASSUME NEW u \in Tx, NEW step \in Steps
      PROVE  /\ Intent(u, step) \in R => Outcome(u, step) \in R \/ Awaited(u, step)'
             /\ Awaited(u, step) => Awaited(u, step)' \/ Outcome(u, step) \in R
  BY RecordNames
<1>2. journal' = journal \cup R
  OBVIOUS
<1> HIDE DEF R
<1>. QED
  BY <1>1, <1>2, OutcomesFrame

LEMMA IntentWritten ==
    ASSUME OutcomesFollow, NEW t, NEW a, journal' = journal \cup {Intent(t, a)}, Awaited(t, a)',
           \A u \in Tx, step \in Steps : Awaited(u, step) => Awaited(u, step)'
    PROVE  OutcomesFollow'
<1> DEFINE R == {Intent(t, a)}
<1>1. ASSUME NEW u \in Tx, NEW step \in Steps
      PROVE  /\ Intent(u, step) \in R => Outcome(u, step) \in R \/ Awaited(u, step)'
             /\ Awaited(u, step) => Awaited(u, step)' \/ Outcome(u, step) \in R
  BY RecordNames
<1>2. journal' = journal \cup R
  OBVIOUS
<1> HIDE DEF R
<1>. QED
  BY <1>1, <1>2, OutcomesFrame

LEMMA UnfinishedPhase ==
    ASSUME NEW r, NEW n
    PROVE  PhaseOf(r, n) \notin {"new", "over"}
             <=> Flagged(r) \/ (r.session # "none" /\ r.status # "completed")
BY Phases

LEMMA PlacesFrame ==
    ASSUME InPlace, NEW t,
           \A u \in Tx : u # t =>
               /\ tx'[u] = tx[u]
               /\ active = u /\ Unfinished(u) => active' = u
               /\ pc["validator"] = "disable" /\ on["validator"] = u =>
                      pc'["validator"] = "disable" /\ on'["validator"] = u,
           t \in Tx =>
               /\ Flagged(tx'[t]) \/ (tx'[t].session # "none" /\ tx'[t].status # "completed")
                      => active' = t
               /\ Flagged(tx'[t]) => \/ tx'[t].status \in {"faulted", "ambiguous"}
                                     \/ pc'["validator"] = "disable" /\ on'["validator"] = t
    PROVE  InPlace'
<1> SUFFICES ASSUME NEW u \in Tx
             PROVE  /\ Unfinished(u)' => active' = u
                    /\ Flagged(tx'[u]) => \/ tx'[u].status \in {"faulted", "ambiguous"}
                                          \/ pc'["validator"] = "disable" /\ on'["validator"] = u
  BY DEF InPlace
<1>1. CASE u = t
  BY <1>1, UnfinishedPhase DEF Unfinished, Phase
<1>2. CASE u # t
  <2>1. Unfinished(u)' <=> Unfinished(u)
    BY <1>2, UnfinishedPhase DEF Unfinished, Phase
  <2>. QED
    BY <1>2, <2>1 DEF InPlace
<1>. QED
  BY <1>1, <1>2

(* The tasks that have a sale in hand have the active one, each at its own *)
(* stage, so that at most one of them has.                                 *)
LEMMA OneHand ==
    ASSUME SettledBasic, Alive
    PROVE  /\ pc["checkout"] = "stop" => active \in Tx /\ tx[active].session = "none"
           /\ pc["checkout"] = "enable" => active \in Tx /\ tx[active].session = "accepting"
           /\ pc["validator"] = "credited" => active \in Tx /\ tx[active].session = "accepting"
           /\ Completing =>
                  active \in Tx /\ tx[active].session = "completed" /\ pc["confirm"] # "close"
           /\ pc["confirm"] = "close" =>
                  /\ active \in Tx /\ active = on["confirm"] /\ HandedOver(active)
                  /\ tx[active].session = "completed" /\ ~Flagged(tx[active])
<1> USE DEF SettledBasic, ContractBasic, OnceBasic, Alive
<1>1. pc["checkout"] \in {"stop", "enable"} => on["checkout"] \in Tx
  BY OnSale, TaskNames, LabelNames
<1>2. Completing \/ pc["validator"] = "credited" => on["validator"] \in Tx
  BY OnSale, TaskNames, LabelNames DEF Completing
<1>3. pc["confirm"] = "close" => on["confirm"] \in Tx
  BY OnSale, TaskNames, LabelNames
<1>4. pc["confirm"] = "close" => active = on["confirm"] /\ HandedOver(active)
  BY DEF NothingRefuses, ContractInvariant, ClosersAt
<1>5. Completing => active = on["validator"] /\ tx[active].session = "completed"
  BY DEF ContractInvariant, ValidatorAt
<1>6. pc["confirm"] = "close" => ~Flagged(tx[active])
  BY <1>3, <1>4 DEF NothingRefuses, InPlace, HandedOver, Completing
<1>. QED
  BY <1>1, <1>2, <1>3, <1>4, <1>5, <1>6
  DEF ContractInvariant, CheckoutAt, ValidatorAt, HandedOver

-----------------------------------------------------------------------------
(* The validator task lives: the other steps.                              *)

(* The checkout task goes on without touching a sale.                      *)
LEMMA CheckoutFollows ==
    ASSUME SettledBasic, Alive,
           \/ SensorMismatch \/ RefusePurchase \/ StopFails \/ AcceptanceEnabled
           \/ StartPayment /\ tx' = tx
    PROVE  AliveNext
<1> USE DEF SettledBasic, ContractBasic, OnceBasic, Basic, Alive
<1>0. PICK t \in Tx : t = on["checkout"]
  BY OnSale, TaskNames, LabelNames
  DEF SensorMismatch, RefusePurchase, StopFails, AcceptanceEnabled, StartPayment
<1>1. ASSUME NEW reserved \in BOOLEAN, tx[t].session = "none",
             Put(t, StartCashSession(tx[t], reserved))
      PROVE  tx' # tx
  <2>1. tx[t] \in TransactionRecords /\ tx'[t] = StartCashSession(tx[t], reserved)
    BY <1>1 DEF Put, TypeOK
  <2>2. tx'[t].session = "accepting"
    BY <2>1, SessionIsRecord
  <2>. QED
    BY <1>1, <2>2
<1>2. UNCHANGED <<fsm, active, tx, vended>> /\ Go("checkout", "rest")
  BY <1>0, <1>1
  DEF SensorMismatch, RefusePurchase, StopFails, AcceptanceEnabled, StartPayment,
      ContractInvariant, CheckoutAt
<1>3. /\ pc'["checkout"] = "rest"
      /\ \A k \in {"validator", "confirm"} : pc'[k] = pc[k] /\ on'[k] = on[k]
  BY <1>2, TaskAlone, TaskNames
<1>4. InPlace' /\ NothingRefuses'
  BY <1>2, <1>3 DEF InPlace, NothingRefuses, Unfinished, Phase
<1>5. OutcomesFollow'
  <2>1. CASE AcceptanceEnabled
    <3>1. journal' = journal \cup {Outcome(t, "enable")}
      BY <1>0, <2>1 DEF AcceptanceEnabled, Write
    <3>. QED
      BY <1>0, <1>3, <3>1, OutcomeWritten DEF Awaited
  <2>2. CASE ~AcceptanceEnabled
    <3>1. journal' = journal /\ pc["checkout"] # "enable"
      BY <1>1, <1>2, <2>2, <1>0
      DEF SensorMismatch, RefusePurchase, StopFails, StartPayment, ContractInvariant, CheckoutAt
    <3>. QED
      BY <1>3, <3>1, OutcomesStay DEF Awaited
  <2>. QED
    BY <2>1, <2>2
<1>. QED
  BY <1>4, <1>5 DEF AliveNext

LEMMA PurchaseFollows ==
    ASSUME SettledBasic, Alive, CreatePurchase
    PROVE  AliveNext
<1> USE DEF SettledBasic, ContractBasic, OnceBasic, Basic, Alive
<1>0. PICK t \in Tx : t = on["checkout"]
  BY OnSale, TaskNames, LabelNames DEF CreatePurchase
<1>1. PICK label : Go("checkout", label) /\ label # "enable"
                   /\ (label = "stop" => fsm' = "WAITING_FOR_PAYMENT")
  BY DEF CreatePurchase, Show
<1>2. /\ pc'["checkout"] = label
      /\ \A k \in {"validator", "confirm"} : pc'[k] = pc[k] /\ on'[k] = on[k]
  BY <1>1, TaskAlone, TaskNames
<1>3. ~Completing /\ pc["confirm"] # "close" /\ pc["checkout"] = "sensor"
  BY SlotFree, OneHand DEF CreatePurchase, NothingRefuses
<1>4. /\ tx'[t] = NewTransaction /\ active' = t /\ UNCHANGED vended
      /\ \A u \in Tx : u # t => tx'[u] = tx[u]
  BY <1>0 DEF CreatePurchase, Put, TypeOK
<1>5. tx'[t].session = "none" /\ ~Flagged(tx'[t])
  BY <1>4 DEF NewTransaction, UnbornTransaction, Flagged
<1>6. active \in Tx => ~Unfinished(active)
  <2>1. active \in Tx => tx[active].status \in {"completed", "cancelled", "pickup_timed_out"}
    BY StateAssumption DEF CreatePurchase, SlotIsFree
  <2>2. active \in Tx => ~Flagged(tx[active])
    BY <1>3, <2>1 DEF InPlace, Completing
  <2>3. active \in Tx => tx[active].status = "completed"
    BY <2>1, <2>2 DEF ContractInvariant, SalesTell, RecordTells, Flagged
  <2>. QED
    BY <2>2, <2>3, UnfinishedPhase DEF Unfinished, Phase
<1>7. InPlace'
  BY <1>2, <1>3, <1>4, <1>5, <1>6, PlacesFrame DEF Completing
<1>8. NothingRefuses'
  BY <1>1, <1>2, <1>3, <1>4, <1>5 DEF NothingRefuses, Completing
<1>9. OutcomesFollow'
  <2>1. journal' = journal
    BY DEF CreatePurchase
  <2>. QED
    BY <1>2, <1>3, <2>1, OutcomesStay DEF Awaited
<1>. QED
  BY <1>7, <1>8, <1>9 DEF AliveNext

LEMMA SessionFollows ==
    ASSUME SettledBasic, Alive, StartPayment, tx' # tx
    PROVE  AliveNext
<1> USE DEF SettledBasic, ContractBasic, OnceBasic, Basic, Alive
<1>0. PICK t \in Tx : t = on["checkout"]
  BY OnSale, TaskNames, LabelNames DEF StartPayment
<1>1. /\ pc["checkout"] = "stop" /\ active = t /\ tx[t].session = "none"
      /\ ~Completing /\ pc["confirm"] # "close"
  BY <1>0, OneHand DEF StartPayment, ContractInvariant, CheckoutAt
<1>2. MayEnter(fsm, "ACCEPTING_CASH")
  BY <1>1 DEF NothingRefuses, MayEnter, CanTransition, AllowedTransitions
<1>3. /\ fsm' = "ACCEPTING_CASH" /\ journal' = journal \cup {Intent(t, "enable")}
      /\ Go("checkout", "enable") /\ UNCHANGED <<active, vended>>
  BY <1>0, <1>2 DEF StartPayment, Show, Write
<1>4. PICK reserved \in BOOLEAN : Put(t, StartCashSession(tx[t], reserved))
  BY <1>0 DEF StartPayment
<1>5. /\ tx'[t].session = "accepting" /\ tx'[t].recovery = tx[t].recovery
      /\ tx'[t].status = "accepting_cash"
      /\ \A u \in Tx : u # t => tx'[u] = tx[u]
  BY <1>4, SessionIsRecord, StartSets DEF Put, TypeOK
<1>6. /\ pc'["checkout"] = "enable" /\ on'["checkout"] = t
      /\ \A k \in {"validator", "confirm"} : pc'[k] = pc[k] /\ on'[k] = on[k]
  BY <1>0, <1>3, TaskAlone, TaskNames DEF Go
<1>7. ~Flagged(tx'[t])
  <2>1. Flagged(tx'[t]) => Flagged(tx[t])
    BY <1>5 DEF Flagged
  <2>2. SalesAllowed
    BY <1>0, <1>4 DEF StartPayment
  <2>3. Flagged(tx[t]) => tx[t].session = "completed"
    BY <2>2, NotAllowed DEF ContractInvariant, SalesTell, PlaceKept
  <2>. QED
    BY <1>1, <2>1, <2>3
<1>8. InPlace'
  BY <1>1, <1>3, <1>5, <1>6, <1>7, PlacesFrame
<1>9. NothingRefuses'
  BY <1>1, <1>3, <1>6 DEF NothingRefuses, Completing
<1>10. OutcomesFollow'
  BY <1>0, <1>1, <1>3, <1>6, IntentWritten DEF Awaited
<1>. QED
  BY <1>8, <1>9, <1>10 DEF AliveNext

LEMMA SessionHeldFollows ==
    ASSUME SettledBasic, Alive, AcceptanceNotEnabled
    PROVE  AliveNext
<1> USE DEF SettledBasic, ContractBasic, OnceBasic, Basic, Alive
<1>0. PICK t \in Tx : t = on["checkout"]
  BY OnSale, TaskNames, LabelNames DEF AcceptanceNotEnabled
<1>1. /\ pc["checkout"] = "enable" /\ active = t /\ tx[t].session = "accepting"
      /\ fsm = "ACCEPTING_CASH" \/ Halted
      /\ ~Completing /\ pc["confirm"] # "close"
  BY <1>0, OneHand DEF AcceptanceNotEnabled, ContractInvariant, CheckoutAt
<1>2. MayEnter(fsm, "FAULT")
  BY <1>1, Waits, Edges DEF TypeOK
<1>3. /\ fsm' = "FAULT" /\ journal' = journal \cup {Outcome(t, "enable")}
      /\ Go("checkout", "rest") /\ UNCHANGED <<active, vended>>
  BY <1>0, <1>2 DEF AcceptanceNotEnabled, Show, Write
<1>4. /\ Becomes(tx[t], tx'[t], "faulted", "pending")
      /\ \A u \in Tx : u # t => tx'[u] = tx[u]
  BY <1>0, MethodsSet DEF AcceptanceNotEnabled, Put, TypeOK
<1>5. Flagged(tx'[t]) /\ tx'[t].status = "faulted"
  BY <1>4 DEF Becomes, Flagged
<1>6. /\ pc'["checkout"] = "rest"
      /\ \A k \in {"validator", "confirm"} : pc'[k] = pc[k] /\ on'[k] = on[k]
  BY <1>3, TaskAlone, TaskNames
<1>7. InPlace'
  BY <1>1, <1>3, <1>4, <1>5, <1>6, PlacesFrame
<1>8. NothingRefuses'
  BY <1>1, <1>3, <1>5, <1>6 DEF NothingRefuses, Completing
<1>9. OutcomesFollow'
  BY <1>0, <1>3, <1>6, OutcomeWritten DEF Awaited
<1>. QED
  BY <1>7, <1>8, <1>9 DEF AliveNext

(* The customer confirms the pickup: a second tap finds the status changed.*)
LEMMA PickupFollows ==
    ASSUME SettledBasic, Alive, NEW t \in Tx, TapPickup(t)
    PROVE  AliveNext
<1> USE DEF SettledBasic, ContractBasic, OnceBasic, Basic, Alive
<1>1. HandedOver(t) /\ tx[t].status = "waiting_for_customer_pickup"
  BY WaitsForPickup DEF TapPickup
<1>2. active = t /\ ~Flagged(tx[t])
  <2>1. Unfinished(t)
    BY <1>1, UnfinishedPhase DEF HandedOver, Unfinished, Phase
  <2>. QED
    BY <1>1, <2>1 DEF InPlace, HandedOver, Completing
<1>3. /\ Becomes(tx[t], tx'[t], "closing_delivery_window", tx[t].recovery)
      /\ \A u \in Tx : u # t => tx'[u] = tx[u]
  BY MethodsSet DEF TapPickup, BeginConfirm, Put, TypeOK
<1>4. /\ tx'[t].session = "completed" /\ ~Flagged(tx'[t])
      /\ tx'[t].status = "closing_delivery_window"
  BY <1>1, <1>2, <1>3 DEF Becomes, Flagged, HandedOver
<1>5. /\ pc["checkout"] \notin {"stop", "enable"} /\ ~Completing /\ pc["confirm"] = "rest"
      /\ UNCHANGED <<active, vended>>
  BY <1>1, <1>2, OneHand DEF TapPickup, BeginConfirm, HandedOver, ContractInvariant, ValidatorAt
<1>6. CASE Start("confirm", t, "close")
  <2>1. /\ pc'["confirm"] = "close" /\ on'["confirm"] = t
        /\ \A k \in {"checkout", "validator"} : pc'[k] = pc[k] /\ on'[k] = on[k]
    BY <1>6, TaskAlone, TaskNames DEF Start, TypeOK
  <2>2. fsm' = "CLOSING_DELIVERY_WINDOW" /\ journal' = journal \cup {Intent(t, "confirm_close")}
    BY <1>5, <1>6, <2>1 DEF TapPickup, BeginConfirm, Show, Write
  <2>3. InPlace'
    BY <1>2, <1>3, <1>4, <1>5, <2>1, PlacesFrame
  <2>4. NothingRefuses'
    BY <1>2, <1>4, <1>5, <2>1, <2>2 DEF NothingRefuses, Completing
  <2>5. OutcomesFollow'
    BY <1>5, <2>1, <2>2, IntentWritten DEF Awaited
  <2>. QED
    BY <2>3, <2>4, <2>5 DEF AliveNext
<1>7. CASE ~Start("confirm", t, "close")
  <2>1. UNCHANGED <<fsm, pc, on, journal>>
    BY <1>7 DEF TapPickup, BeginConfirm
  <2>2. InPlace'
    BY <1>2, <1>3, <1>4, <1>5, <2>1, PlacesFrame
  <2>3. NothingRefuses'
    BY <1>2, <1>4, <1>5, <2>1 DEF NothingRefuses, Completing
  <2>4. OutcomesFollow'
    BY <2>1, OutcomesStay DEF Awaited
  <2>. QED
    BY <2>2, <2>3, <2>4 DEF AliveNext
<1>. QED
  BY <1>6, <1>7

LEMMA ClosingFollows ==
    ASSUME SettledBasic, Alive, ConfirmTask
    PROVE  AliveNext
<1> USE DEF SettledBasic, ContractBasic, OnceBasic, Basic, Alive
<1>0. PICK t \in Tx : t = on["confirm"]
  BY OnSale, TaskNames, LabelNames DEF ConfirmTask, PickupClosed, PickupCloseFails
<1>1. /\ pc["confirm"] = "close" /\ active = t /\ fsm = "CLOSING_DELIVERY_WINDOW"
      /\ tx[t].session = "completed" /\ tx[t].status = "closing_delivery_window"
      /\ pc["checkout"] \notin {"stop", "enable"} /\ ~Completing /\ ~Flagged(tx[t])
  BY <1>0, OneHand DEF ConfirmTask, PickupClosed, PickupCloseFails, NothingRefuses
<1>2. MayEnter(fsm, "COMPLETED")
  BY <1>1 DEF MayEnter, CanTransition, AllowedTransitions
<1>3. /\ Go("confirm", "rest") /\ journal' = journal \cup {Outcome(t, "confirm_close")}
      /\ UNCHANGED vended
  BY <1>0, <1>2 DEF ConfirmTask, PickupClosed, PickupCloseFails, Write
<1>4. /\ pc'["confirm"] = "rest"
      /\ \A k \in {"checkout", "validator"} : pc'[k] = pc[k] /\ on'[k] = on[k]
  BY <1>3, TaskAlone, TaskNames
<1>5. OutcomesFollow'
  BY <1>0, <1>3, <1>4, OutcomeWritten DEF Awaited
<1>6. CASE PickupClosed
  <2>1. active' = NoTx
    BY <1>0, <1>1, <1>2, <1>6 DEF PickupClosed, ClearActive
  <2>2. /\ Becomes(tx[t], tx'[t], "completed", tx[t].recovery)
        /\ \A u \in Tx : u # t => tx'[u] = tx[u]
    BY <1>0, <1>6, MethodsSet DEF PickupClosed, Put, TypeOK
  <2>3. ~Flagged(tx'[t]) /\ tx'[t].status = "completed"
    BY <1>1, <2>2 DEF Becomes, Flagged
  <2>4. InPlace'
    BY <1>1, <2>2, <2>3, <1>4, PlacesFrame
  <2>5. NothingRefuses'
    BY <1>1, <2>1, <1>4, StateAssumption DEF NothingRefuses, Completing
  <2>. QED
    BY <1>5, <2>4, <2>5 DEF AliveNext
<1>7. CASE PickupCloseFails
  <2>1. UNCHANGED <<active, fsm>>
    BY <1>7 DEF PickupCloseFails
  <2>2. /\ Becomes(tx[t], tx'[t], "faulted", "pending")
        /\ \A u \in Tx : u # t => tx'[u] = tx[u]
    BY <1>0, <1>7, MethodsSet DEF PickupCloseFails, Put, TypeOK
  <2>3. Flagged(tx'[t]) /\ tx'[t].status = "faulted"
    BY <2>2 DEF Becomes, Flagged
  <2>4. InPlace'
    BY <1>1, <2>1, <2>2, <2>3, <1>4, PlacesFrame
  <2>5. NothingRefuses'
    BY <1>1, <2>1, <2>3, <1>4 DEF NothingRefuses, Completing
  <2>. QED
    BY <1>5, <2>4, <2>5 DEF AliveNext
<1>. QED
  BY <1>6, <1>7 DEF ConfirmTask

LEMMA QuietFollows ==
    ASSUME SettledBasic, Alive,
           \/ \E t \in Tx : TapBuy(t)
           \/ \E b \in Bills : InsertBill(b)
           \/ Environment \/ TapScreen \/ UNCHANGED vars
    PROVE  AliveNext
<1> USE DEF SettledBasic, ContractBasic, OnceBasic, Basic, Alive
<1>1. UNCHANGED <<fsm, active, tx, vended, journal>>
  BY DEF TapBuy, InsertBill, Environment, ValidatorBreaks, HealthBlocks, HealthUnblocks,
         TapScreen, vars
<1>2. /\ \A k \in {"validator", "confirm"} : pc'[k] = pc[k] /\ on'[k] = on[k]
      /\ \/ pc'["checkout"] = pc["checkout"] /\ on'["checkout"] = on["checkout"]
         \/ pc["checkout"] = "rest" /\ pc'["checkout"] = "sensor"
  <2>1. CASE \E t \in Tx : TapBuy(t)
    BY <2>1, TaskAlone, TaskNames DEF TapBuy
  <2>2. CASE ~\E t \in Tx : TapBuy(t)
    BY <2>2
    DEF InsertBill, Environment, ValidatorBreaks, HealthBlocks, HealthUnblocks, TapScreen, vars
  <2>. QED
    BY <2>1, <2>2
<1>3. InPlace' /\ NothingRefuses'
  BY <1>1, <1>2 DEF InPlace, NothingRefuses, Unfinished, Phase
<1>4. OutcomesFollow'
  BY <1>1, <1>2, OutcomesStay DEF Awaited
<1>. QED
  BY <1>3, <1>4 DEF AliveNext

LEMMA OthersFollow ==
    ASSUME SettledBasic, Alive, OtherStep
    PROVE  SettledInvariant'
<1>1. AliveNext
  BY CheckoutFollows, PurchaseFollows, SessionFollows, SessionHeldFollows, PickupFollows,
     ClosingFollows, QuietFollows
  DEF OtherStep, CheckoutTask
<1>2. ~ValidatorDead' /\ pc'["timeout"] = "rest" /\ BooksBalance'
  BY OtherTasks, OtherBooks DEF SettledBasic, SettledInvariant, Alive, ValidatorDead, ValidatorStays
<1>. QED
  BY <1>1, <1>2 DEF SettledInvariant, DeadStops, AliveNext

-----------------------------------------------------------------------------
(* The validator task: bills.                                              *)

LEMMA ValidatorAlone ==
    ASSUME SettledBasic, NEW t, NEW label, Go("validator", label) \/ Start("validator", t, label)
    PROVE  /\ pc'["validator"] = label /\ pc'["timeout"] = "rest"
           /\ \A k \in {"checkout", "confirm"} : pc'[k] = pc[k] /\ on'[k] = on[k]
BY TaskAlone, TaskNames DEF SettledBasic, SettledInvariant

LEMMA AliveAtWork ==
    ASSUME SettledBasic, pc["validator"] # "dead"
    PROVE  Alive
BY DEF SettledBasic, SettledInvariant, Alive, ValidatorDead

(* It takes the next event, or goes back to wait for one, and leaves the   *)
(* sales alone.                                                            *)
LEMMA WaitingFollows ==
    ASSUME SettledBasic, Alive, NEW t, NEW label,
           Go("validator", label) \/ Start("validator", t, label),
           pc["validator"] \in {"rest", "event", "credited"}, label \in {"rest", "event"},
           UNCHANGED <<fsm, active, tx, vended, paid, answers, journal>>
    PROVE  SettledInvariant'
<1> USE DEF SettledBasic, ContractBasic, OnceBasic, Basic, Alive
<1>1. /\ pc'["validator"] = label /\ pc'["timeout"] = "rest"
      /\ \A k \in {"checkout", "confirm"} : pc'[k] = pc[k] /\ on'[k] = on[k]
  BY ValidatorAlone
<1>2. BooksBalance'
  BY <1>1, BooksStay DEF InSettlement, SettledInvariant
<1>3. InPlace' /\ NothingRefuses'
  BY <1>1 DEF InPlace, NothingRefuses, Unfinished, Phase
<1>4. OutcomesFollow'
  BY <1>1, OutcomesStay DEF Awaited
<1>. QED
  BY <1>1, <1>2, <1>3, <1>4 DEF SettledInvariant, DeadStops, ValidatorDead

LEMMA BillFollows ==
    ASSUME SettledBasic, CreditBill
    PROVE  SettledInvariant'
<1> USE DEF SettledBasic, ContractBasic, OnceBasic, Basic
<1>1. pc["validator"] = "event" /\ BillWaits
  BY DEF CreditBill, EventInQueue, BillWaits
<1>2. PICK t \in Tx : /\ t = on["validator"] /\ active = t /\ tx[t].session = "accepting"
                      /\ ~tx[t].cancelled /\ t # NoTx
  BY <1>1, StateAssumption DEF ContractInvariant, BillsAreOurs, SalesTell, RecordTells
<1>3. Alive
  BY <1>1, AliveAtWork
<1>4. /\ Put(t, RecordStackedCash(tx[t], Head(queue).bill)) /\ Go("validator", "credited")
      /\ UNCHANGED <<fsm, active, vended, paid, answers, journal>>
  BY <1>2 DEF CreditBill, CanStack
<1>5. Head(queue).bill \in Nat
  BY EventTyped, <1>1 DEF ValidatorEvents
<1>6. /\ tx'[t].status = tx[t].status /\ tx'[t].recovery = tx[t].recovery
      /\ tx'[t].session = "accepting"
      /\ \A u \in Tx : u # t => tx'[u] = tx[u]
  BY <1>2, <1>4, <1>5, CashSets DEF Put, TypeOK
<1>7. Flagged(tx'[t]) <=> Flagged(tx[t])
  BY <1>6 DEF Flagged
<1>8. /\ pc'["validator"] = "credited" /\ pc'["timeout"] = "rest"
      /\ \A k \in {"checkout", "confirm"} : pc'[k] = pc[k] /\ on'[k] = on[k]
  BY <1>4, ValidatorAlone
<1>9. BooksBalance'
  BY <1>1, <1>2, <1>4, <1>6, <1>8, BooksStay DEF InSettlement, SettledInvariant
<1>10. InPlace'
  BY <1>1, <1>2, <1>3, <1>4, <1>6, <1>7, <1>8, PlacesFrame DEF Alive, InPlace
<1>11. NothingRefuses'
  BY <1>2, <1>3, <1>4, <1>6, <1>7, <1>8, OneHand DEF Alive, NothingRefuses
<1>12. OutcomesFollow'
  BY <1>1, <1>3, <1>4, <1>8, OutcomesStay DEF Alive, Awaited
<1>. QED
  BY <1>8, <1>9, <1>10, <1>11, <1>12 DEF SettledInvariant, DeadStops, ValidatorDead

LEMMA FaultFollows ==
    ASSUME SettledBasic, ValidatorFault
    PROVE  SettledInvariant'
<1> USE DEF SettledBasic, ContractBasic, OnceBasic, Basic
<1> DEFINE t == on["validator"]
<1>0. pc["validator"] = "event" /\ Alive
  BY AliveAtWork DEF ValidatorFault
<1>1. CASE Go("validator", "rest") /\ tx' = tx /\ fsm' = fsm
  BY <1>0, <1>1, WaitingFollows DEF ValidatorFault
<1>2. CASE /\ t # NoTx /\ Put(t, MarkFaulted(tx[t])) /\ Go("validator", "dead")
           /\ blockers' = blockers \cup {"validator_fault"}
  <2>1. t \in Tx
    BY <1>2 DEF TypeOK, SaleIds, Tasks
  <2>2. /\ Becomes(tx[t], tx'[t], "faulted", "pending")
        /\ \A u \in Tx : u # t => tx'[u] = tx[u]
    BY <1>2, <2>1, MethodsSet DEF Put, TypeOK
  <2>3. pc'["validator"] = "dead" /\ pc'["timeout"] = "rest"
    BY <1>2, ValidatorAlone
  <2>4. UNCHANGED <<paid, vended, answers>> /\ BooksBalance
    BY DEF ValidatorFault, SettledInvariant
  <2>5. \A u \in Tx : InSettlement(u)' <=> InSettlement(u)
    BY <1>0, <2>3 DEF InSettlement
  <2>6. BooksBalance'
    BY <2>2, <2>4, <2>5, BooksStay DEF Becomes, SameMoney, Flagged
  <2>7. Locked'
    BY <1>2 DEF Locked
  <2>. QED
    BY <2>3, <2>6, <2>7 DEF SettledInvariant, DeadStops, ValidatorDead
<1>. QED
  BY <1>1, <1>2 DEF ValidatorFault

LEMMA CompletionFollows ==
    ASSUME SettledBasic, BeginCompletion
    PROVE  SettledInvariant'
<1> USE DEF SettledBasic, ContractBasic, OnceBasic, Basic
<1>0. PICK t \in Tx : t = on["validator"]
  BY OnSale, TaskNames, LabelNames DEF BeginCompletion
<1>1. Alive /\ pc["validator"] = "credited"
  BY AliveAtWork DEF BeginCompletion
<1>2. /\ active = t /\ tx[t].session = "accepting" /\ RecordTells(t)
      /\ pc["checkout"] \notin {"stop", "enable"}
  BY <1>0, <1>1, Credited
<1>3. /\ tx'[t] = ConfirmPayment(tx[t]) /\ Go("validator", "disable")
      /\ journal' = journal \cup {Intent(t, "disable")}
      /\ UNCHANGED <<fsm, active, vended, paid, answers>>
      /\ \A u \in Tx : u # t => tx'[u] = tx[u]
  BY <1>0 DEF BeginCompletion, Put, Write, TypeOK
<1>4. /\ tx'[t].payment = "confirmed" /\ tx'[t].session = "completed"
      /\ tx'[t].status = "payment_accepted" /\ tx'[t].recovery = tx[t].recovery
  BY <1>0, <1>2, <1>3, ConfirmSets DEF TypeOK
<1>5. Flagged(tx'[t]) <=> Flagged(tx[t])
  BY <1>2, <1>4 DEF Flagged, RecordTells
<1>6. /\ pc'["validator"] = "disable" /\ pc'["timeout"] = "rest" /\ on' = on
      /\ \A k \in {"checkout", "confirm"} : pc'[k] = pc[k] /\ on'[k] = on[k]
  BY <1>3, ValidatorAlone DEF Go
<1>7. BooksBalance'
  <2> SUFFICES ASSUME NEW u \in Tx PROVE BookBalances(u)'
    BY DEF BooksBalance
  <2>1. answers[t]["refund"] = "none"
    BY <1>2 DEF SettledInvariant, BooksBalance, BookBalances
  <2>. QED
    BY <1>0, <1>1, <1>3, <1>6, <2>1 DEF SettledInvariant, BooksBalance, BookBalances, InSettlement
<1>8. InPlace'
  BY <1>0, <1>1, <1>2, <1>3, <1>6, PlacesFrame DEF Alive
<1>9. NothingRefuses'
  BY <1>0, <1>1, <1>2, <1>3, <1>4, <1>5, <1>6, OneHand DEF Alive, NothingRefuses
<1>10. OutcomesFollow'
  BY <1>0, <1>1, <1>3, <1>6, IntentWritten DEF Alive, Awaited
<1>. QED
  BY <1>6, <1>7, <1>8, <1>9, <1>10 DEF SettledInvariant, DeadStops, ValidatorDead

LEMMA BillsFollow ==
    ASSUME SettledBasic,
           TakeEvent \/ CreditBill \/ ValidatorFault \/ BillNotEnough \/ BeginCompletion
    PROVE  SettledInvariant'
<1>1. CASE TakeEvent
  BY <1>1, AliveAtWork, WaitingFollows DEF TakeEvent
<1>2. CASE BillNotEnough
  BY <1>2, AliveAtWork, WaitingFollows DEF BillNotEnough
<1>. QED
  BY <1>1, <1>2, BillFollows, FaultFollows, CompletionFollows

-----------------------------------------------------------------------------
(* The validator task: the completion of a payment.                        *)

(* What it does to the records and the money of the sale in its hands.     *)
LEMMA BooksMove ==
    ASSUME SettledBasic, Completing, NEW t, t = on["validator"],
           NEW label, Go("validator", label), OnlySale(t),
           \A u \in Tx : u # t => answers'[u] = answers[u],
           BookBalances(t)'
    PROVE  BooksBalance'
<1> USE DEF SettledBasic, ContractBasic, OnceBasic, Basic
<1> SUFFICES ASSUME NEW u \in Tx \ {t} PROVE BookBalances(u)'
  BY DEF BooksBalance
<1>1. on'["validator"] \in {t, NoTx}
  BY DEF Go, TypeOK, Tasks
<1>2. ~InSettlement(u) /\ ~InSettlement(u)'
  BY <1>1, StateAssumption DEF InSettlement
<1>3. tx'[u] = tx[u] /\ vended'[u] = vended[u] /\ paid'[u] = paid[u] /\ answers'[u] = answers[u]
  BY DEF OnlySale
<1>. QED
  BY <1>2, <1>3 DEF SettledInvariant, BooksBalance, BookBalances

(* It dies.                                                                *)
LEMMA HandEnds ==
    ASSUME SettledBasic, Completing, NEW t, t = on["validator"], Go("validator", "dead"),
           OnlySale(t), \A u \in Tx : u # t => answers'[u] = answers[u],
           BookBalances(t)', Locked' \/ Stuck'
    PROVE  SettledInvariant'
BY ValidatorAlone, BooksMove DEF SettledInvariant, DeadStops, ValidatorDead, Stuck

(* It goes on.                                                             *)
LEMMA HandFollows ==
    ASSUME SettledBasic, Completing, NEW t, t = on["validator"],
           NEW label \in {"payout", "change", "repay", "paid", "motor", "open", "rest"},
           Go("validator", label),
           OnlySale(t), \A u \in Tx : u # t => answers'[u] = answers[u],
           BookBalances(t)', OutcomesFollow',
           active' = active, tx'[t].session = "completed",
           Flagged(tx'[t]) => tx'[t].status \in {"faulted", "ambiguous"},
           label \in {"payout", "change"} =>
               tx'[t].payment = "confirmed" /\ fsm' = "DISPENSING_CHANGE",
           label = "paid" =>
               CanAuthorize(tx'[t]) /\ fsm' \in {"PAYMENT_ACCEPTED", "DISPENSING_CHANGE"},
           label = "motor" =>
               tx'[t].status = "dispensing_product" /\ fsm' = "DISPENSING_PRODUCT",
           label = "open" => fsm' = "OPENING_DELIVERY_WINDOW"
    PROVE  SettledInvariant'
<1> USE DEF SettledBasic, ContractBasic, OnceBasic, Basic
<1>1. /\ pc'["validator"] = label /\ pc'["timeout"] = "rest"
      /\ \A k \in {"checkout", "confirm"} : pc'[k] = pc[k] /\ on'[k] = on[k]
  BY ValidatorAlone
<1>2. label # "rest" => on'["validator"] = t
  BY DEF Go
<1>3. Alive
  BY AliveAtWork DEF Completing
<1>4. /\ t \in Tx /\ active = t /\ tx[t].session = "completed"
      /\ pc["checkout"] \notin {"stop", "enable"} /\ pc["confirm"] # "close"
  BY <1>3, OneHand, CompletingInHand DEF InHand
<1>5. InPlace'
  BY <1>3, <1>4, PlacesFrame DEF Alive, OnlySale
<1>6. NothingRefuses'
  BY <1>1, <1>2, <1>4 DEF NothingRefuses
<1>. QED
  BY <1>1, <1>5, <1>6, BooksMove DEF SettledInvariant, DeadStops, ValidatorDead

(* While the money of a sale is being settled, nothing has been refunded.  *)
LEMMA NoRefundYet ==
    ASSUME SettledBasic, NEW t \in Tx, InSettlement(t)
    PROVE  answers[t]["refund"] = "none" /\ Completing /\ t = on["validator"] /\ Alive
BY AliveAtWork
DEF SettledBasic, SettledInvariant, BooksBalance, BookBalances, InSettlement, Completing

LEMMA DisableFollows ==
    ASSUME SettledBasic, CompletionDisabled
    PROVE  SettledInvariant'
<1> USE DEF SettledBasic, ContractBasic, OnceBasic, Basic
<1>0. PICK t \in Tx : t = on["validator"]
  BY OnSale, TaskNames, LabelNames DEF CompletionDisabled
<1>1. /\ pc["validator"] = "disable" /\ answers[t]["refund"] = "none"
      /\ Completing /\ Alive /\ InHand(t)
  BY <1>0, NoRefundYet, CompletingInHand DEF CompletionDisabled, InSettlement
<1>2. tx[t].payment = "confirmed" /\ (Flagged(tx[t]) \/ fsm = "ACCEPTING_CASH")
  BY <1>0, <1>1 DEF Alive, NothingRefuses
<1>3. Flagged(tx[t]) => Halted
  BY <1>0, <1>1 DEF ContractInvariant, ValidatorAt
<1>4. UNCHANGED <<blockers, active, answers, paid, vended>>
  BY <1>0 DEF CompletionDisabled
<1>5. CASE Flagged(tx[t])
  <2>1. ~MayEnter(fsm, "PAYMENT_ACCEPTED")
    BY <1>3, <1>5, Waits
  <2>2. UNCHANGED <<fsm, shown, tx>> /\ Go("validator", "dead")
    BY <1>0, <2>1 DEF CompletionDisabled
  <2>3. Locked' /\ OnlySale(t)
    BY <1>3, <1>4, <1>5, <2>2 DEF Locked, Halted, OnlySale
  <2>4. pc'["validator"] = "dead"
    BY <2>2, ValidatorAlone
  <2>5. BookBalances(t)'
    BY <1>1, <1>4, <1>5, <2>2, <2>4 DEF BookBalances, InSettlement
  <2>. QED
    BY <1>0, <1>1, <1>4, <2>2, <2>3, <2>5, HandEnds
<1>6. CASE ~Flagged(tx[t])
  <2>1. MayEnter(fsm, "PAYMENT_ACCEPTED")
    BY <1>2, <1>6 DEF MayEnter, CanTransition, AllowedTransitions
  <2>2. PICK label \in {"paid", "payout", "repay"}, status \in {tx[t].status, "dispensing_change"} :
            /\ Go("validator", label)
            /\ Becomes(tx[t], tx'[t], status, tx[t].recovery)
            /\ \A u \in Tx : u # t => tx'[u] = tx[u]
            /\ label = "paid" => fsm' = "PAYMENT_ACCEPTED" /\ tx[t].due = 0
            /\ label = "payout" => fsm' = "DISPENSING_CHANGE"
            /\ journal' = journal \cup {Outcome(t, "disable")}
                 \/ (label = "payout"
                      /\ journal' = journal \cup {Outcome(t, "disable"), Intent(t, "change")})
    <3>1. tx[t] \in TransactionRecords /\ TypeOK
      BY <1>1 DEF InHand
    <3>2. ASSUME Put(t, ReleaseReserve(tx[t]))
          PROVE  /\ Becomes(tx[t], tx'[t], tx[t].status, tx[t].recovery)
                 /\ \A u \in Tx : u # t => tx'[u] = tx[u]
      BY <3>1, <3>2, MethodsSet DEF Put, TypeOK
    <3>3. ASSUME Put(t, MarkChangePending(tx[t]))
          PROVE  /\ Becomes(tx[t], tx'[t], "dispensing_change", tx[t].recovery)
                 /\ \A u \in Tx : u # t => tx'[u] = tx[u]
      BY <3>1, <3>3, MethodsSet DEF Put, TypeOK
    <3>. QED
      BY <1>0, <2>1, <3>2, <3>3 DEF CompletionDisabled, Show, Write
  <2>3. /\ pc'["validator"] = label /\ on'["validator"] = t
        /\ \A k \in {"checkout", "confirm"} : pc'[k] = pc[k] /\ on'[k] = on[k]
    BY <1>0, <2>2, ValidatorAlone DEF Go
  <2>4. /\ tx'[t].session = "completed" /\ tx'[t].payment = "confirmed"
        /\ label = "paid" => CanAuthorize(tx'[t])
        /\ ~Flagged(tx'[t]) /\ OnlySale(t)
    BY <1>1, <1>2, <1>4, <1>6, <2>2
    DEF Becomes, SameMoney, InHand, CanAuthorize, Flagged, OnlySale
  <2>5. BookBalances(t)'
    BY <1>1, <1>4, <2>3 DEF BookBalances, InSettlement
  <2>6. OutcomesFollow'
    <3> DEFINE R == IF journal' = journal \cup {Outcome(t, "disable")}
                    THEN {Outcome(t, "disable")}
                    ELSE {Outcome(t, "disable"), Intent(t, "change")}
    <3>1. journal' = journal \cup R
      BY <2>2
    <3>2. ASSUME NEW u \in Tx, NEW step \in Steps
          PROVE  /\ Intent(u, step) \in R => Awaited(u, step)'
                 /\ Awaited(u, step) => Awaited(u, step)' \/ Outcome(u, step) \in R
      BY <1>0, <1>1, <2>2, <2>3, RecordNames DEF Awaited
    <3> HIDE DEF R
    <3>. QED
      BY <1>1, <3>1, <3>2, OutcomesFrame DEF Alive
  <2>. QED
    BY <1>0, <1>1, <1>4, <2>2, <2>4, <2>5, <2>6, HandFollows
<1>. QED
  BY <1>5, <1>6

LEMMA DisableFailsFollows ==
    ASSUME SettledBasic, CompletionDisableFails
    PROVE  SettledInvariant'
<1> USE DEF SettledBasic, ContractBasic, OnceBasic, Basic
<1>0. PICK t \in Tx : t = on["validator"]
  BY OnSale, TaskNames, LabelNames DEF CompletionDisableFails
<1>1. Completing /\ InHand(t)
  BY <1>0, CompletingInHand DEF CompletionDisableFails, Completing
<1>2. /\ Becomes(tx[t], tx'[t], "ambiguous", "manual_review")
      /\ \A u \in Tx : u # t => tx'[u] = tx[u]
      /\ UNCHANGED <<paid, vended, answers>> /\ Go("validator", "dead")
  BY <1>0, <1>1, MethodsSet DEF CompletionDisableFails, DisableFails, Put, TypeOK, InHand
<1>3. Flagged(tx'[t]) /\ tx'[t].session = "completed" /\ OnlySale(t)
  BY <1>1, <1>2 DEF Becomes, Flagged, InHand, OnlySale
<1>4. pc'["validator"] = "dead"
  BY <1>2, ValidatorAlone
<1>5. BookBalances(t)'
  BY <1>3, <1>4 DEF BookBalances, InSettlement
<1>6. Locked'
  BY Halts DEF CompletionDisableFails, DisableFails, Locked
<1>. QED
  BY <1>0, <1>1, <1>2, <1>3, <1>5, <1>6, HandEnds

LEMMA RequestFollows ==
    ASSUME SettledBasic, RequestChange
    PROVE  SettledInvariant'
<1> USE DEF SettledBasic, ContractBasic, OnceBasic, Basic
<1>0. PICK t \in Tx : t = on["validator"]
  BY OnSale, TaskNames, LabelNames DEF RequestChange
<1>1. /\ pc["validator"] = "payout" /\ answers[t]["refund"] = "none"
      /\ Completing /\ Alive /\ InHand(t) /\ tx[t].reserve /\ ~Flagged(tx[t])
  BY <1>0, NoRefundYet, CompletingInHand
  DEF RequestChange, InSettlement, ContractInvariant, ValidatorAt
<1>2. Go("validator", "change") /\ UNCHANGED <<fsm, active, tx, vended, paid, answers, journal>>
  BY <1>0, <1>1 DEF RequestChange
<1>3. /\ pc'["validator"] = "change" /\ on'["validator"] = t
      /\ \A k \in {"checkout", "confirm"} : pc'[k] = pc[k] /\ on'[k] = on[k]
  BY <1>0, <1>2, ValidatorAlone DEF Go
<1>4. BookBalances(t)' /\ OnlySale(t)
  BY <1>1, <1>2, <1>3 DEF BookBalances, InSettlement, OnlySale
<1>5. OutcomesFollow'
  BY <1>1, <1>2, <1>3, <1>0, OutcomesStay DEF Alive, Awaited
<1>6. tx[t].session = "completed" /\ tx[t].payment = "confirmed" /\ fsm = "DISPENSING_CHANGE"
  BY <1>0, <1>1 DEF Alive, NothingRefuses, InHand
<1>. QED
  BY <1>0, <1>1, <1>2, <1>4, <1>5, <1>6, HandFollows

LEMMA ChangeFollows ==
    ASSUME WholeChange, SettledBasic, ChangeDispensed \/ ChangeFails
    PROVE  SettledInvariant'
<1> USE DEF SettledBasic, ContractBasic, OnceBasic, Basic
<1>0. PICK t \in Tx : t = on["validator"]
  BY OnSale, TaskNames, LabelNames DEF ChangeDispensed, ChangeFails
<1>1. /\ pc["validator"] = "change" /\ answers[t]["refund"] = "none"
      /\ Completing /\ Alive /\ InHand(t) /\ tx[t].reserve /\ ~Flagged(tx[t])
  BY <1>0, NoRefundYet, HandPays DEF ChangeDispensed, ChangeFails, InSettlement
<1>2. tx[t].payment = "confirmed" /\ fsm = "DISPENSING_CHANGE"
  BY <1>0, <1>1 DEF Alive, NothingRefuses
<1>3. PICK label \in {"paid", "repay"} :
          /\ Go("validator", label)
          /\ \/ Put(t, MarkChangeDispensed(tx[t]))
             \/ Put(t, MarkAmbiguous(tx[t])) /\ label = "repay"
          /\ \A u \in Tx : u # t => answers'[u] = answers[u] /\ paid'[u] = paid[u]
          /\ answers'[t]["refund"] = answers[t]["refund"]
          /\ UNCHANGED <<fsm, active, vended>> /\ journal' = journal \cup {Outcome(t, "change")}
  <2>1. "change" \in Requests /\ "refund" \in Requests
    BY DEF Requests
  <2>2. ASSUME NEW amounts, NEW answer, Dispense(t, "change", amounts, answer)
        PROVE  /\ \A u \in Tx : u # t => answers'[u] = answers[u] /\ paid'[u] = paid[u]
               /\ answers'[t]["refund"] = answers[t]["refund"]
    BY <2>1, <2>2 DEF Dispense, PayBack, TypeOK
  <2>3. CASE ChangeDispensed
    BY <1>0, <1>1, <2>2, <2>3 DEF ChangeDispensed, Write
  <2>4. CASE ChangeFails
    <3>1. Dispense(t, "change", {0}, "failed") /\ Put(t, MarkAmbiguous(tx[t]))
      BY <1>0, <2>4 DEF ChangeFails, WholeChange
    <3>. QED
      BY <1>0, <2>2, <2>4, <3>1 DEF ChangeFails, Write
  <2>. QED
    BY <2>3, <2>4
<1>4. /\ \A u \in Tx : u # t => tx'[u] = tx[u]
      /\ tx'[t].session = "completed"
      /\ Flagged(tx'[t]) => tx'[t].status = "ambiguous"
      /\ label = "paid" => CanAuthorize(tx'[t])
  <2>1. tx[t] \in TransactionRecords /\ tx[t].session = "completed"
    BY <1>1 DEF InHand
  <2>2. CASE Put(t, MarkChangeDispensed(tx[t]))
    <3>1. /\ Becomes(tx[t], tx'[t], tx[t].status, tx[t].recovery)
          /\ tx'[t].payout = "dispensed"
          /\ \A u \in Tx : u # t => tx'[u] = tx[u]
      BY <2>1, <2>2, MethodsSet, MethodsPay DEF Put, TypeOK
    <3>. QED
      BY <1>1, <1>2, <2>1, <3>1 DEF Becomes, SameMoney, Flagged, CanAuthorize
  <2>3. CASE Put(t, MarkAmbiguous(tx[t])) /\ label = "repay"
    <3>1. /\ Becomes(tx[t], tx'[t], "ambiguous", "manual_review")
          /\ \A u \in Tx : u # t => tx'[u] = tx[u]
      BY <2>1, <2>3, MethodsSet DEF Put, TypeOK
    <3>. QED
      BY <2>1, <2>3, <3>1 DEF Becomes
  <2>. QED
    BY <1>3, <2>2, <2>3
<1>5. /\ pc'["validator"] = label /\ on'["validator"] = t
      /\ \A k \in {"checkout", "confirm"} : pc'[k] = pc[k] /\ on'[k] = on[k]
  BY <1>0, <1>3, ValidatorAlone DEF Go
<1>6. BookBalances(t)' /\ OnlySale(t)
  BY <1>1, <1>3, <1>4, <1>5 DEF BookBalances, InSettlement, OnlySale
<1>7. OutcomesFollow'
  BY <1>0, <1>1, <1>3, <1>5, OutcomeWritten DEF Alive, Awaited
<1>. QED
  BY <1>0, <1>1, <1>2, <1>3, <1>4, <1>6, <1>7, HandFollows

(* The whole accepted amount goes back, once.                              *)
LEMMA RepaidFollows ==
    ASSUME SettledBasic, Repaid
    PROVE  SettledInvariant'
<1> USE DEF SettledBasic, ContractBasic, OnceBasic, Basic
<1>0. PICK t \in Tx : t = on["validator"]
  BY OnSale, TaskNames, LabelNames DEF Repaid
<1>1. /\ pc["validator"] = "repay" /\ answers[t]["refund"] = "none"
      /\ Completing /\ Alive /\ InHand(t) /\ paid[t] = 0 /\ vended[t] = 0
      /\ tx[t].accepted \in Nat
  BY <1>0, NoRefundYet, HandPays DEF Repaid, InSettlement
<1>2. /\ Go("validator", "rest") /\ UNCHANGED <<fsm, active, tx, vended, journal>>
      /\ PayBack(t, tx[t].accepted)
      /\ \A u \in Tx : u # t => answers'[u] = answers[u]
  BY <1>0, <1>1 DEF Repaid, Dispense, TypeOK
<1>3. paid'[t] = tx[t].accepted /\ \A u \in Tx : u # t => paid'[u] = paid[u]
  BY <1>1, <1>2 DEF PayBack, TypeOK
<1>4. /\ pc'["validator"] = "rest"
      /\ \A k \in {"checkout", "confirm"} : pc'[k] = pc[k] /\ on'[k] = on[k]
  BY <1>2, ValidatorAlone
<1>5. tx'[t].accepted = paid'[t] + Price * vended'[t]
  BY <1>1, <1>2, <1>3, PriceAssumption
<1>6. BookBalances(t)' /\ OnlySale(t) /\ tx'[t].session = "completed"
  BY <1>1, <1>2, <1>3, <1>4, <1>5 DEF BookBalances, InSettlement, OnlySale, InHand
<1>7. OutcomesFollow'
  BY <1>1, <1>2, <1>4, OutcomesStay DEF Alive, Awaited
<1>8. Flagged(tx'[t]) => tx'[t].status \in {"faulted", "ambiguous"}
  BY <1>1, <1>2 DEF Alive, InPlace
<1>. QED
  BY <1>0, <1>1, <1>2, <1>6, <1>7, <1>8, HandFollows

LEMMA RepayFailsFollows ==
    ASSUME SettledBasic, RepayFails
    PROVE  SettledInvariant'
<1> USE DEF SettledBasic, ContractBasic, OnceBasic, Basic
<1>0. PICK t \in Tx : t = on["validator"]
  BY OnSale, TaskNames, LabelNames DEF RepayFails
<1>1. Completing /\ InHand(t)
  BY <1>0, HandPays DEF RepayFails
<1>2. /\ Becomes(tx[t], tx'[t], "ambiguous", "manual_review")
      /\ \A u \in Tx : u # t => tx'[u] = tx[u]
      /\ Go("validator", "dead") /\ UNCHANGED vended
  BY <1>0, <1>1, MethodsSet DEF RepayFails, Put, TypeOK, InHand
<1>3. \A u \in Tx : u # t => answers'[u] = answers[u] /\ paid'[u] = paid[u]
  <2>1. RefundNotPaid(t, tx[t].accepted)
    BY <1>0 DEF RepayFails
  <2>. QED
    BY <2>1 DEF RefundNotPaid, Dispense, DispenseRaises, PayBack, TypeOK
<1>4. Flagged(tx'[t]) /\ tx'[t].session = "completed" /\ OnlySale(t)
  BY <1>1, <1>2, <1>3 DEF Becomes, Flagged, InHand, OnlySale
<1>5. pc'["validator"] = "dead"
  BY <1>2, ValidatorAlone
<1>6. BookBalances(t)'
  BY <1>4, <1>5 DEF BookBalances, InSettlement
<1>7. Locked'
  BY Halts DEF RepayFails, Locked
<1>. QED
  BY <1>0, <1>1, <1>2, <1>3, <1>4, <1>6, <1>7, HandEnds

-----------------------------------------------------------------------------
(* The validator task: the release of the product.                         *)

LEMMA AuthorizeFollows ==
    ASSUME SettledBasic, AuthorizeSale
    PROVE  SettledInvariant'
<1> USE DEF SettledBasic, ContractBasic, OnceBasic, Basic
<1>0. PICK t \in Tx : t = on["validator"]
  BY OnSale, TaskNames, LabelNames DEF AuthorizeSale
<1>1. /\ pc["validator"] = "paid" /\ answers[t]["refund"] = "none"
      /\ Completing /\ Alive /\ InHand(t) /\ ~Flagged(tx[t])
  BY <1>0, NoRefundYet, HandPays DEF AuthorizeSale, InSettlement
<1>2. CanAuthorize(tx[t]) /\ MayEnter(fsm, "DISPENSING_PRODUCT")
  BY <1>0, <1>1 DEF Alive, NothingRefuses, MayEnter, CanTransition, AllowedTransitions
<1>3. /\ Put(t, AuthorizeVend(tx[t])) /\ Go("validator", "motor")
      /\ fsm' = "DISPENSING_PRODUCT" /\ journal' = journal \cup {Intent(t, "motor")}
      /\ UNCHANGED <<active, vended, paid, answers>>
  BY <1>0, <1>2 DEF AuthorizeSale, Show, Write
<1>4. /\ Becomes(tx[t], tx'[t], "dispensing_product", tx[t].recovery)
      /\ \A u \in Tx : u # t => tx'[u] = tx[u]
  BY <1>1, <1>3, MethodsSet DEF Put, TypeOK, InHand
<1>5. /\ tx'[t].session = "completed" /\ tx'[t].status = "dispensing_product"
      /\ ~Flagged(tx'[t]) /\ OnlySale(t)
  BY <1>1, <1>3, <1>4 DEF Becomes, Flagged, InHand, OnlySale
<1>6. /\ pc'["validator"] = "motor" /\ on'["validator"] = t
      /\ \A k \in {"checkout", "confirm"} : pc'[k] = pc[k] /\ on'[k] = on[k]
  BY <1>0, <1>3, ValidatorAlone DEF Go
<1>7. BookBalances(t)'
  BY <1>1, <1>3, <1>6 DEF BookBalances, InSettlement
<1>8. OutcomesFollow'
  BY <1>1, <1>3, <1>6, IntentWritten DEF Alive, Awaited
<1>. QED
  BY <1>0, <1>1, <1>3, <1>5, <1>7, <1>8, HandFollows

(* The price of the product has been kept, and the rest paid out.          *)
LEMMA MotorFollows ==
    ASSUME SettledBasic, MotorDone
    PROVE  SettledInvariant'
<1> USE DEF SettledBasic, ContractBasic, OnceBasic, Basic
<1>0. PICK t \in Tx : t = on["validator"]
  BY OnSale, TaskNames, LabelNames DEF MotorDone
<1>1. /\ pc["validator"] = "motor" /\ answers[t]["refund"] = "none"
      /\ Completing /\ Alive /\ InHand(t) /\ ~Flagged(tx[t])
      /\ vended[t] = 0 /\ paid[t] = tx[t].due /\ tx[t].due = tx[t].accepted - Price
      /\ tx[t].accepted \in Nat
  BY <1>0, NoRefundYet, HandPays DEF MotorDone, InSettlement
<1>2. tx[t].status = "dispensing_product" /\ fsm = "DISPENSING_PRODUCT"
  BY <1>0, <1>1 DEF Alive, NothingRefuses
<1>3. MayEnter(fsm, "OPENING_DELIVERY_WINDOW")
  BY <1>2 DEF MayEnter, CanTransition, AllowedTransitions
<1>4. /\ vended' = [vended EXCEPT ![t] = @ + 1] /\ UNCHANGED <<active, paid, answers>>
      /\ tx' = tx \/ Put(t, MarkProductDispensed(tx[t]))
      /\ stock = 0 => tx' = tx
  BY <1>0 DEF MotorDone
<1>5. PICK status \in {"dispensing_product", "opening_delivery_window"} :
          /\ Becomes(tx[t], tx'[t], status, tx[t].recovery)
          /\ tx' = tx => status = "dispensing_product"
          /\ \A u \in Tx : u # t => tx'[u] = tx[u]
  <2>1. CASE tx' = tx
    BY <1>2, <2>1 DEF Becomes, SameMoney
  <2>2. CASE tx' # tx
    BY <1>1, <1>4, <2>2, MethodsSet DEF Put, TypeOK, InHand
  <2>. QED
    BY <2>1, <2>2
<1>6. /\ tx'[t].session = "completed" /\ tx'[t].status = status /\ ~Flagged(tx'[t])
      /\ tx'[t].accepted = tx[t].accepted
  BY <1>1, <1>5 DEF Becomes, SameMoney, Flagged, InHand
<1>7. OnlySale(t)
  BY <1>4, <1>5 DEF OnlySale, TypeOK
<1>8. tx'[t].accepted = paid'[t] + Price * vended'[t]
  <2>1. vended'[t] = 1 /\ paid'[t] = tx[t].accepted - Price
    BY <1>1, <1>4 DEF TypeOK
  <2>2. Price * 1 = Price
    BY PriceAssumption
  <2>. QED
    BY <1>1, <1>6, <2>1, <2>2, PriceAssumption
<1>9. BookBalances(t)' <=> ~(answers[t]["refund"] # "none" /\ InSettlement(t)')
  BY <1>1, <1>4, <1>6, <1>8 DEF BookBalances
<1>10. BookBalances(t)'
  BY <1>1, <1>9
<1>11. CASE stock = 0
  <2>1. Go("validator", "dead") /\ tx' = tx
    BY <1>4, <1>11 DEF MotorDone
  <2>2. Stuck'
    BY <1>1, <1>2, <1>4, <2>1 DEF Stuck, InHand
  <2>. QED
    BY <1>0, <1>1, <1>4, <1>7, <1>10, <2>1, <2>2, HandEnds
<1>12. CASE stock # 0
  <2> DEFINE R == {Outcome(t, "motor"), Intent(t, "open")} \cup Resolved(t, "inventory")
  <2>1. /\ Go("validator", "open") /\ fsm' = "OPENING_DELIVERY_WINDOW"
        /\ journal' = journal \cup R
    BY <1>0, <1>3, <1>12 DEF MotorDone, Show, Write
  <2>2. /\ pc'["validator"] = "open" /\ on'["validator"] = t
        /\ \A k \in {"checkout", "confirm"} : pc'[k] = pc[k] /\ on'[k] = on[k]
    BY <1>0, <2>1, ValidatorAlone DEF Go
  <2>3. ASSUME NEW u \in Tx, NEW step \in Steps
        PROVE  /\ Intent(u, step) \in R => Outcome(u, step) \in R \/ Awaited(u, step)'
               /\ Awaited(u, step) => Awaited(u, step)' \/ Outcome(u, step) \in R
    BY <1>0, <1>1, <2>2, RecordNames DEF Awaited, Resolved
  <2> HIDE DEF R
  <2>4. OutcomesFollow'
    BY <1>1, <2>1, <2>3, OutcomesFrame DEF Alive
  <2>. QED
    BY <1>0, <1>1, <1>4, <1>6, <1>7, <1>10, <2>1, <2>4, HandFollows
<1>. QED
  BY <1>11, <1>12

LEMMA WindowFollows ==
    ASSUME SettledBasic, WindowOpens
    PROVE  SettledInvariant'
<1> USE DEF SettledBasic, ContractBasic, OnceBasic, Basic
<1>0. PICK t \in Tx : t = on["validator"]
  BY OnSale, TaskNames, LabelNames DEF WindowOpens
<1>1. /\ pc["validator"] = "open" /\ Completing /\ InHand(t) /\ ~Flagged(tx[t])
  BY <1>0, HandPays DEF WindowOpens
<1>2. Alive /\ fsm = "OPENING_DELIVERY_WINDOW"
  BY <1>1, AliveAtWork DEF Alive, NothingRefuses
<1>3. MayEnter(fsm, "WAITING_FOR_CUSTOMER_PICKUP")
  BY <1>2 DEF MayEnter, CanTransition, AllowedTransitions
<1>4. /\ Put(t, MarkWindowOpened(tx[t])) /\ Go("validator", "rest")
      /\ journal' = journal \cup {Outcome(t, "open")}
      /\ UNCHANGED <<active, vended, paid, answers>>
  BY <1>0, <1>3 DEF WindowOpens, Write
<1>5. /\ Becomes(tx[t], tx'[t], "waiting_for_customer_pickup", tx[t].recovery)
      /\ \A u \in Tx : u # t => tx'[u] = tx[u]
  BY <1>1, <1>4, MethodsSet DEF Put, TypeOK, InHand
<1>6. /\ tx'[t].session = "completed" /\ tx'[t].accepted = tx[t].accepted
      /\ ~Flagged(tx'[t]) /\ OnlySale(t)
  BY <1>1, <1>4, <1>5 DEF Becomes, SameMoney, Flagged, InHand, OnlySale
<1>7. /\ pc'["validator"] = "rest"
      /\ \A k \in {"checkout", "confirm"} : pc'[k] = pc[k] /\ on'[k] = on[k]
  BY <1>4, ValidatorAlone
<1>8. BookBalances(t)'
  BY <1>0, <1>1, <1>4, <1>6, <1>7
  DEF SettledInvariant, BooksBalance, BookBalances, InSettlement, InHand
<1>9. OutcomesFollow'
  BY <1>0, <1>1, <1>2, <1>4, <1>7, OutcomeWritten DEF Alive, Awaited
<1>. QED
  BY <1>0, <1>1, <1>4, <1>6, <1>8, <1>9, HandFollows

LEMMA HardwareFailsFollows ==
    ASSUME SettledBasic, MotorFails \/ WindowOpenFails
    PROVE  SettledInvariant'
<1> USE DEF SettledBasic, ContractBasic, OnceBasic, Basic
<1>0. PICK t \in Tx : t = on["validator"]
  BY OnSale, TaskNames, LabelNames DEF MotorFails, WindowOpenFails
<1>1. PICK step : FaultSale(t, step)
  BY <1>0 DEF MotorFails, WindowOpenFails
<1>2. /\ pc["validator"] \in {"motor", "open"} /\ Completing /\ InHand(t)
  BY <1>0, HandPays DEF MotorFails, WindowOpenFails
<1>3. /\ UNCHANGED <<blockers, paid, answers>>
      /\ \A u \in Tx : u # t => vended'[u] = vended[u]
  BY <1>0 DEF MotorFails, WindowOpenFails, TypeOK
<1>4. /\ Becomes(tx[t], tx'[t], "faulted", "pending")
      /\ \A u \in Tx : u # t => tx'[u] = tx[u]
      /\ Flagged(tx'[t]) /\ Go("validator", "dead") /\ Locked'
  BY <1>0, <1>1, <1>2, <1>3, SaleFaulted
<1>5. pc'["validator"] = "dead" /\ tx'[t].session = "completed" /\ OnlySale(t)
  BY <1>2, <1>3, <1>4, ValidatorAlone DEF Becomes, InHand, OnlySale
<1>6. BookBalances(t)'
  BY <1>4, <1>5 DEF BookBalances, InSettlement
<1>. QED
  BY <1>0, <1>2, <1>3, <1>4, <1>5, <1>6, HandEnds

-----------------------------------------------------------------------------
(* The invariant.                                                          *)

LEMMA StepSettled ==
    ASSUME Undisturbed, WholeChange, PromptPickup, SettledBasic, [Next]_vars
    PROVE  SettledInvariant'
<1>1. CASE ValidatorDead
  BY <1>1, DeadStays
<1>2. CASE ~ValidatorDead
  <2>1. Alive
    BY <1>2 DEF SettledBasic, SettledInvariant, Alive
  <2>2. CASE OtherStep
    BY <2>1, <2>2, OthersFollow
  <2>3. CASE ValidatorTask
    BY <2>3, BillsFollow, DisableFollows, DisableFailsFollows, RequestFollows, ChangeFollows,
       RepaidFollows, RepayFailsFollows, AuthorizeFollows, MotorFollows, WindowFollows,
       HardwareFailsFollows
    DEF ValidatorTask
  <2>. QED
    BY <2>2, <2>3, SettlingSteps
<1>. QED
  BY <1>1, <1>2

LEMMA SettledStarts ==
    ASSUME Init
    PROVE  SettledInvariant
<1>0. /\ active = NoTx /\ tx = [t \in Tx |-> UnbornTransaction] /\ journal = {}
      /\ \A k \in {"checkout", "validator", "confirm", "timeout"} : pc[k] = "rest"
      /\ \A t \in Tx : answers[t]["refund"] = "none"
  BY DEF Init, Tasks, Requests
<1>1. ASSUME NEW t \in Tx
      PROVE  tx[t].session = "none" /\ ~Flagged(tx[t]) /\ ~Unfinished(t)
  BY <1>0, UnfinishedPhase DEF UnbornTransaction, Flagged, Unfinished, Phase
<1>2. BooksBalance
  BY <1>0, <1>1 DEF BooksBalance, BookBalances
<1>3. InPlace /\ NothingRefuses /\ OutcomesFollow
  BY <1>0, <1>1, StateAssumption DEF InPlace, NothingRefuses, OutcomesFollow
<1>. QED
  BY <1>0, <1>2, <1>3 DEF SettledInvariant, DeadStops, ValidatorDead

LEMMA SettledHolds ==
    ASSUME Undisturbed, WholeChange, PromptPickup
    PROVE  Spec => [](SettledBasic /\ Basic)
<1>1. Init => SettledInvariant
  BY SettledStarts
<1>2. (ContractBasic /\ Basic) /\ SettledInvariant /\ [Next]_vars => SettledInvariant'
  BY StepSettled DEF SettledBasic
<1>. QED
  BY <1>1, <1>2, ContractHolds, PTL DEF Spec, SettledBasic

-----------------------------------------------------------------------------
(* The theorems.                                                           *)

(* While nobody cancels, services the machine or hurries the validator,    *)
(* customers collect in time and the change is paid whole or not at all:   *)
(* once everything is at rest, every coin of a sale that is over bought    *)
(* the product or was paid back, or the sale is flagged for an operator    *)
(* (complete_payment, _refund_after_failed_change, handle_vend_authorized).*)
THEOREM MoneyIsAccounted ==
    ASSUME Undisturbed, WholeChange, PromptPickup
    PROVE  Spec => []MoneyAccounted
<1>1. SettledBasic => MoneyAccounted
  <2> USE DEF SettledBasic, ContractBasic, OnceBasic, Basic
  <2> SUFFICES ASSUME SettledBasic, AllAtRest, NEW t \in Tx,
                      tx[t].session # "accepting", ~Flagged(tx[t])
               PROVE  inserted[t] = paid[t] + Price * vended[t]
    BY DEF MoneyAccounted
  <2>1. queue = << >> /\ pc["validator"] \in {"rest", "dead"}
    BY TaskNames DEF AllAtRest, AtRest
  <2>2. /\ tx[t] \in TransactionRecords /\ inserted[t] = tx[t].accepted + 0
        /\ paid[t] \in Nat /\ vended[t] \in Nat
    BY <2>1 DEF ContractInvariant, CashCounted, BillWaits, TypeOK
  <2>3. inserted[t] = tx[t].accepted
    BY <2>2 DEF TransactionRecords
  <2>4. CASE tx[t].session = "none"
    <3>1. vended[t] = 0 /\ paid[t] = 0
      BY <2>4 DEF ContractInvariant, SalesTell, RecordTells
    <3>2. tx[t].accepted = 0
      BY <2>4 DEF SaleSafe, FreshSales
    <3>. QED
      BY <2>3, <3>1, <3>2, PriceAssumption
  <2>5. CASE tx[t].session = "completed"
    BY <2>1, <2>3, <2>5 DEF SettledInvariant, BooksBalance, BookBalances, InSettlement
  <2>6. tx[t].session # "cancelled"
    BY DEF ContractInvariant, SalesTell, RecordTells
  <2>. QED
    BY <2>2, <2>4, <2>5, <2>6 DEF TransactionRecords
<1>. QED
  BY <1>1, SettledHolds, PTL

(* Under the same hypotheses a restart would find nothing to recover once  *)
(* everything is at rest: every journalled intent has its outcome, unless  *)
(* the validator task has died (the idempotent intents and outcomes of     *)
(* payment_coordinator and vending_controller).                            *)
THEOREM IntentsGetOutcomes ==
    ASSUME Undisturbed, WholeChange, PromptPickup
    PROVE  Spec => []IntentsResolved
<1>1. SettledBasic => IntentsResolved
  <2> SUFFICES ASSUME SettledBasic, AllAtRest, pc["validator"] = "rest",
                      NEW t \in Tx, NEW step \in Steps
               PROVE  ~Awaited(t, step) /\ Alive
    BY DEF IntentsResolved, Alive, OutcomesFollow
  <2>1. \A k \in {"checkout", "confirm"} : pc[k] \in {"rest", "dead"}
    BY TaskNames DEF AllAtRest, AtRest
  <2>2. Alive
    BY AliveAtWork
  <2>. QED
    BY <2>1, <2>2 DEF Awaited
<1>. QED
  BY <1>1, SettledHolds, PTL

(* Under the same hypotheses no sale starts to take cash while another one *)
(* is faulted, ambiguous or has an intent without an outcome: such a sale  *)
(* keeps the place over which create_transaction makes no other, a sale in *)
(* trouble whose validator task has died has locked the machine, or its    *)
(* record blocks the slot.                                                 *)
THEOREM NewSalesFindNothingOpen ==
    ASSUME Undisturbed, WholeChange, PromptPickup
    PROVE  Spec => NoSaleOverUnsettled
<1> DEFINE A == \A t, u \in Tx : SessionStarts(u) /\ t # u => ~Unsettled(t)
<1>1. (SettledBasic /\ Basic) /\ [Next]_vars => A
  <2> USE DEF SettledBasic, ContractBasic, OnceBasic
  <2> SUFFICES ASSUME SettledBasic, [Next]_vars, NEW t \in Tx, NEW u \in Tx,
                      SessionStarts(u), t # u
               PROVE  ~Unsettled(t)
    OBVIOUS
  <2>1. StartPayment /\ tx' # tx
    BY StepBorn DEF NoneStarts, SessionStarts
  <2>2. SalesAllowed /\ pc["checkout"] = "stop"
    BY <2>1 DEF StartPayment
  <2>3. PICK v \in Tx : v = on["checkout"]
    BY <2>2, OnSale, TaskNames, LabelNames
  <2>4. active = v /\ tx[v].session = "none"
    BY <2>2, <2>3 DEF ContractInvariant, CheckoutAt
  <2>5. v = u
    BY <2>1, <2>3 DEF StartPayment, SessionStarts, Put, Basic, TypeOK
  <2>6. Alive
    <3>1. ~Locked
      BY <2>2, NotAllowed
    <3>2. ~ValidatorDead
      BY <2>4, <3>1 DEF SettledInvariant, DeadStops
    <3>. QED
      BY <3>2 DEF SettledInvariant, Alive
  <2>7. tx[t].status \notin {"faulted", "ambiguous"}
    <3>1. ~Unfinished(t)
      BY <2>4, <2>5, <2>6 DEF Alive, InPlace
    <3>. QED
      BY <3>1, UnfinishedPhase DEF Unfinished, Phase, Flagged
  <2>8. ASSUME NEW step \in Steps PROVE ~Awaited(t, step)
    <3>1. /\ pc["checkout"] # "enable" /\ ~Completing
          /\ pc["confirm"] # "close"
      BY <2>2, <2>4, <2>6, OneHand
    <3>. QED
      BY <3>1 DEF Awaited, Completing
  <2>. QED
    BY <2>6, <2>7, <2>8 DEF Unsettled, Alive, OutcomesFollow
<1> HIDE DEF A
<1>2. Spec => [][A]_vars
  BY SettledHolds, <1>1, PTL DEF Spec
<1>. QED
  BY <1>2 DEF A, NoSaleOverUnsettled

=============================================================================
