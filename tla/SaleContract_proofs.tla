------------------------- MODULE SaleContract_proofs ------------------------
(***************************************************************************)
(* While nobody cancels, services the machine or outruns the counting of a *)
(* bill, every step of every orchestrator is a step of the contract or     *)
(* none.                                                                   *)
(*                                                                         *)
(* ContractInvariant says where a sale stands while a task has it in its   *)
(* hands, and that an unfinished sale is the active one unless the machine *)
(* is locked.  The first part proves what a step keeps of the sales, tasks *)
(* and devices it does not touch; the second one goes through the actions, *)
(* each with the step of the contract it takes; the theorems follow.       *)
(***************************************************************************)
EXTENDS SaleFlow_proofs, SaleRefinement

ContractBasic == OnceBasic /\ ContractInvariant

ContractStep == [Contract!ContractNext]_(Contract!contractVars)

-----------------------------------------------------------------------------
(* The regime.                                                             *)

LEMMA Regime ==
    ASSUME Undisturbed
    PROVE  /\ UnhurriedCustomers /\ NoKioskCancellation
           /\ Actors \cap {"technician", "idle"} = {}
BY DEF Undisturbed, UnhurriedCustomers, NoKioskCancellation

(* The edges that lead into the states a sale passes through, and those    *)
(* that lead a sale in trouble to FAULT.                                   *)
LEMMA Edges ==
    ASSUME NEW f \in MachineStates
    PROVE  /\ MayEnter(f, "PRODUCT_SELECTED") => f \in {"IDLE", "PRODUCT_SELECTED"}
           /\ MayEnter(f, "ACCEPTING_CASH") => f \in {"WAITING_FOR_PAYMENT", "ACCEPTING_CASH"}
           /\ MayEnter(f, "PAYMENT_ACCEPTED") => f \in {"ACCEPTING_CASH", "PAYMENT_ACCEPTED"}
           /\ MayEnter(f, "DISPENSING_PRODUCT") =>
                  f \in {"PAYMENT_ACCEPTED", "DISPENSING_CHANGE", "DISPENSING_PRODUCT"}
           /\ MayEnter(f, "OPENING_DELIVERY_WINDOW") =>
                  f \in {"DISPENSING_PRODUCT", "OPENING_DELIVERY_WINDOW"}
           /\ MayEnter(f, "WAITING_FOR_CUSTOMER_PICKUP") =>
                  f \in {"OPENING_DELIVERY_WINDOW", "WAITING_FOR_CUSTOMER_PICKUP"}
           /\ MayEnter(f, "CLOSING_DELIVERY_WINDOW") =>
                  f \in {"WAITING_FOR_CUSTOMER_PICKUP", "CLOSING_DELIVERY_WINDOW"}
           /\ MayEnter(f, "COMPLETED") => f \in {"CLOSING_DELIVERY_WINDOW", "COMPLETED"}
           /\ f \in { "ACCEPTING_CASH", "DISPENSING_PRODUCT", "OPENING_DELIVERY_WINDOW",
                      "FAULT", "RECOVERY_PENDING", "MANUAL_REVIEW" } => MayEnter(f, "FAULT")
BY DEF MachineStates, MayEnter, CanTransition, AllowedTransitions

LEMMA Phases ==
    ASSUME NEW r, NEW n
    PROVE  /\ Flagged(r) => PhaseOf(r, n) = "held"
           /\ ~Flagged(r) /\ r.session = "none" => PhaseOf(r, n) = "new"
           /\ ~Flagged(r) /\ r.session # "none" /\ r.status = "completed"
                  => PhaseOf(r, n) = "over"
           /\ ~Flagged(r) /\ r.session # "none" /\ r.status # "completed" /\ n > 0
                  => PhaseOf(r, n) = "handing"
           /\ ~Flagged(r) /\ r.session # "none" /\ r.status # "completed" /\ ~(n > 0)
                  => PhaseOf(r, n) = "taking"
BY DEF PhaseOf

-----------------------------------------------------------------------------
(* What a step keeps.                                                      *)

LocksStay == (Locked => Locked') /\ (Halted => Halted')

(* The records, releases and payouts of all sales but t are left alone.    *)
OnlySale(t) ==
    \A u \in Tx : u # t =>
        tx'[u] = tx[u] /\ vended'[u] = vended[u] /\ paid'[u] = paid[u]

SaleTells(t) ==
    RecordTells(t) /\ PlaceKept(t) /\ paid[t] + Price * vended[t] <= inserted[t]

(* The state machine is left where it is, stopped, or moved from a state   *)
(* that no task with a sale in its hands counts on.                        *)
FsmAside ==
    \/ fsm' = fsm /\ (Halted => Halted')
    \/ Halted'
    \/ ~Halted /\ fsm \notin {"ACCEPTING_CASH", "DISPENSING_PRODUCT", "OPENING_DELIVERY_WINDOW"}

BlockersStay == blockers \ {"device_fault"} \subseteq blockers'

LEMMA Stays ==
    ASSUME FsmAside, BlockersStay
    PROVE  LocksStay
BY DEF FsmAside, BlockersStay, LocksStay, Locked

LEMMA Halts ==
    ASSUME NEW s \in {"FAULT", "RECOVERY_PENDING", "MANUAL_REVIEW"}, Show(s)
    PROVE  Halted' /\ FsmAside
BY DEF Show, Halted, FsmAside

(* In these states MayEnter lets no task go on.                            *)
LEMMA Waits ==
    ASSUME TypeOK, Halted
    PROVE  /\ ~MayEnter(fsm, "PRODUCT_SELECTED") /\ ~MayEnter(fsm, "ACCEPTING_CASH")
           /\ ~MayEnter(fsm, "PAYMENT_ACCEPTED") /\ ~MayEnter(fsm, "DISPENSING_PRODUCT")
           /\ ~MayEnter(fsm, "OPENING_DELIVERY_WINDOW")
           /\ ~MayEnter(fsm, "WAITING_FOR_CUSTOMER_PICKUP")
           /\ ~MayEnter(fsm, "CLOSING_DELIVERY_WINDOW") /\ ~MayEnter(fsm, "COMPLETED")
           /\ MayEnter(fsm, "FAULT")
BY Edges DEF Halted, TypeOK

LEMMA NotAllowed == ASSUME SalesAllowed PROVE ~Locked
BY DEF SalesAllowed, Locked, Halted, UnsafeMachineStates

(* The sales that the step does not touch.                                 *)
LEMMA OthersTell ==
    ASSUME ContractBasic, NEW t, OnlySale(t), t \in Tx => SaleTells(t)',
           UNCHANGED inserted, cached' \subseteq cached \cup {t}, LocksStay,
           pc["validator"] = "dead" => pc'["validator"] = "dead",
           \A u \in Tx \ {t} : active = u /\ Unfinished(u) => Locked' \/ active' = u
    PROVE  SalesTell'
<1> SUFFICES ASSUME NEW u \in Tx \ {t}
             PROVE  SaleTells(u)'
  BY DEF SalesTell, SaleTells
<1>1. tx'[u] = tx[u] /\ vended'[u] = vended[u] /\ paid'[u] = paid[u]
  BY DEF OnlySale
<1>2. RecordTells(u)'
  BY <1>1 DEF ContractBasic, ContractInvariant, SalesTell, RecordTells, Born
<1>3. Phase(u)' = Phase(u)
  BY <1>1 DEF Phase
<1>4. PlaceKept(u)'
  BY <1>1, <1>3 DEF ContractBasic, ContractInvariant, SalesTell, PlaceKept, Unfinished, LocksStay
<1>5. paid'[u] + Price * vended'[u] <= inserted'[u]
  BY <1>1 DEF ContractBasic, ContractInvariant, SalesTell
<1>. QED
  BY <1>2, <1>4, <1>5 DEF SaleTells

(* The checkout task of a sale whose session stays as it is.               *)
LEMMA CheckoutFrame ==
    ASSUME ContractBasic, FsmAside,
           pc'["checkout"] = pc["checkout"], on'["checkout"] = on["checkout"],
           accepting' => accepting, BillWaits' => BillWaits,
           pc'["validator"] = "credited" => BillWaits \/ pc["validator"] = "credited",
           pc["checkout"] \in {"stop", "enable"} => active' = active,
           \A u \in Tx : (Born(u)' <=> Born(u)) /\ tx'[u].session = tx[u].session
    PROVE  CheckoutAt'
<1>1. pc["checkout"] \in {"sensor", "stop", "enable"} => on["checkout"] \in Tx
  BY OnSale, TaskNames, LabelNames DEF ContractBasic, OnceBasic
<1>. QED
  BY <1>1
  DEF ContractBasic, ContractInvariant, CheckoutAt, FsmAside, Halted, Born

(* The validator task while another task touches another sale than its own.*)
LEMMA ValidatorFrame ==
    ASSUME ContractBasic, FsmAside, ValidatorStays, NEW t, OnlySale(t), cached' = cached,
           pc["validator"] = "credited" \/ Completing =>
               on["validator"] # t /\ active' = active
    PROVE  ValidatorAt'
<1>1. pc["validator"] = "credited" \/ Completing => on["validator"] \in Tx
  BY OnSale, TaskNames, LabelNames, CompletingOnSale DEF ContractBasic, OnceBasic
<1>2. pc["validator"] = "credited" \/ Completing =>
          LET v == on["validator"]
          IN  tx'[v] = tx[v] /\ vended'[v] = vended[v] /\ paid'[v] = paid[v]
  BY <1>1 DEF OnlySale
<1>. QED
  BY <1>2
  DEF ContractBasic, ContractInvariant, ValidatorAt, ValidatorStays, Completing, FsmAside, Halted

(* The confirmation and the timeout while a sale that is not handed over   *)
(* yet moves.                                                              *)
LEMMA ClosersFrame ==
    ASSUME ContractBasic, LocksStay, NEW t, OnlySale(t), t \in Tx => ~HandedOver(t),
           \A k \in {"confirm", "timeout"} : pc'[k] = pc[k] /\ on'[k] = on[k],
           Completing' => on'["validator"] = t \/ (Completing /\ on'["validator"] = on["validator"]),
           Locked' \/ active' = active \/ ~(active \in Tx)
             \/ tx[active].status # "closing_delivery_window"
    PROVE  ClosersAt'
<1>1. /\ pc["confirm"] = "close" => on["confirm"] \in Tx
      /\ pc["timeout"] \in {"elapsed", "close"} => on["timeout"] \in Tx
  BY OnSale, TaskNames, LabelNames DEF ContractBasic, OnceBasic
<1>2. ASSUME NEW u \in Tx, HandedOver(u)
      PROVE  HandedOver(u)' /\ tx'[u] = tx[u]
  BY <1>2 DEF OnlySale, HandedOver
<1>. QED
  BY <1>1, <1>2 DEF ContractBasic, ContractInvariant, ClosersAt, LocksStay

(* A bill that waits, and the cash counted, while the queue is left alone  *)
(* or a fault joins it.                                                    *)
LEMMA BillsFrame ==
    ASSUME ContractBasic, ValidatorStays \/ ~BillWaits, UNCHANGED inserted,
           queue' = queue \/ queue' = Append(queue, [kind |-> "fault", bill |-> 0]),
           BillWaits => active' = active /\ tx'[active].session = "accepting",
           \A u \in Tx : tx'[u].accepted = tx[u].accepted
    PROVE  BillsAreOurs' /\ CashCounted' /\ (BillWaits' => BillWaits)
<1>1. BillWaits' <=> BillWaits
  <2>1. CASE queue' = queue
    BY <2>1 DEF BillWaits
  <2>2. CASE queue' = Append(queue, [kind |-> "fault", bill |-> 0])
    <3>1. queue \in Seq(ValidatorEvents)
      BY DEF ContractBasic, OnceBasic, Basic, TypeOK
    <3>2. CASE queue = << >>
      BY <2>2, <3>2 DEF BillWaits
    <3>3. CASE queue # << >>
      <4>1. queue' # << >> /\ Head(queue') = Head(queue)
        BY <2>2, <3>1, <3>3 DEF ValidatorEvents
      <4>. QED
        BY <3>3, <4>1 DEF BillWaits
    <3>. QED
      BY <3>2, <3>3
  <2>. QED
    BY <2>1, <2>2
<1>2. BillWaits => Head(queue') = Head(queue)
  <2>1. queue \in Seq(ValidatorEvents)
    BY DEF ContractBasic, OnceBasic, Basic, TypeOK
  <2>. QED
    BY <2>1 DEF BillWaits, ValidatorEvents
<1>3. BillsAreOurs'
  BY <1>1 DEF ContractBasic, ContractInvariant, BillsAreOurs, ValidatorStays
<1>4. CashCounted'
  BY <1>1, <1>2 DEF ContractBasic, ContractInvariant, CashCounted
<1>. QED
  BY <1>1, <1>3, <1>4

(* The validator and the window while the active sale stays what it is.    *)
LEMMA DevicesFrame ==
    ASSUME ContractBasic, ValidatorStays, LocksStay, accepting' => accepting,
           window' = "open" => window = "open", UNCHANGED <<active, vended>>,
           \A u \in Tx : /\ tx'[u].session = tx[u].session
                         /\ Flagged(tx[u]) => Flagged(tx'[u])
                         /\ tx'[u].status = "completed" => tx[u].status = "completed"
    PROVE  AcceptingFor' /\ WindowFor'
BY DEF ContractBasic, ContractInvariant, AcceptingFor, WindowFor, ValidatorStays, LocksStay

(* The contract.                                                           *)

LEMMA Stutters ==
    ASSUME UNCHANGED <<vended, paid, inserted>>,
           \A u \in Tx : PhaseOf(tx'[u], vended[u]) = PhaseOf(tx[u], vended[u])
    PROVE  ContractStep
BY DEF ContractStep, Contract!contractVars, Phase

LEMMA HoldsSale ==
    ASSUME NEW t \in Tx, UNCHANGED <<vended, paid, inserted>>, Flagged(tx'[t]),
           \A u \in Tx : u # t => tx'[u] = tx[u]
    PROVE  ContractStep
<1>1. \A u \in Tx : Phase(u)' = [[v \in Tx |-> Phase(v)] EXCEPT ![t] = "held"][u]
  BY Phases DEF Phase
<1>2. [v \in Tx |-> Phase(v)]' = [[v \in Tx |-> Phase(v)] EXCEPT ![t] = "held"]
  BY <1>1
<1>3. Contract!HoldPurchase(t)
  BY <1>2 DEF Contract!HoldPurchase, Contract!Enters
<1>. QED
  BY <1>3 DEF ContractStep, Contract!ContractNext

(* A step that leaves the sales, their money and the validator task alone. *)
LEMMA QuietFrame ==
    ASSUME ContractBasic, FsmAside, BlockersStay, ValidatorStays,
           UNCHANGED <<active, tx, cached, inserted, paid, vended>>,
           queue' = queue \/ queue' = Append(queue, [kind |-> "fault", bill |-> 0])
    PROVE  /\ SalesTell' /\ ValidatorAt' /\ BillsAreOurs' /\ CashCounted'
           /\ BillWaits' => BillWaits
           /\ ContractStep /\ LocksStay
<1>1. LocksStay /\ OnlySale(NoTx) /\ NoTx \notin Tx
  BY Stays, StateAssumption DEF OnlySale
<1>2. SalesTell'
  BY <1>1, OthersTell DEF ValidatorStays
<1>3. pc["validator"] = "credited" \/ Completing => on["validator"] # NoTx
  BY <1>1, OnSale, TaskNames, LabelNames, CompletingOnSale DEF ContractBasic, OnceBasic
<1>4. ValidatorAt'
  BY <1>1, <1>3, ValidatorFrame
<1>5. BillWaits => tx[active].session = "accepting"
  BY DEF ContractBasic, ContractInvariant, BillsAreOurs
<1>6. BillsAreOurs' /\ CashCounted' /\ (BillWaits' => BillWaits)
  BY <1>5, BillsFrame
<1>7. ContractStep
  BY Stutters
<1>. QED
  BY <1>1, <1>2, <1>4, <1>6, <1>7

(* The tasks that never leave their rest.                                  *)
LEMMA TaskAlone ==
    ASSUME ContractBasic, NEW k \in {"checkout", "validator", "confirm", "timeout"},
           NEW t, NEW label, Go(k, label) \/ Start(k, t, label)
    PROVE  /\ NobodyCancels'
           /\ \A j \in Tasks \ {k} : pc'[j] = pc[j] /\ on'[j] = on[j]
           /\ pc'[k] = label
           /\ k # "validator" => ValidatorStays
<1>1. k \in Tasks /\ TypeOK
  BY TaskNames DEF ContractBasic, OnceBasic, Basic
<1>2. \A j \in Tasks \ {k} : pc'[j] = pc[j] /\ on'[j] = on[j]
  BY <1>1, OthersStay
<1>3. pc'[k] = label
  BY <1>1 DEF Go, Start, TypeOK
<1>. QED
  BY <1>2, <1>3, TaskNames
  DEF ContractBasic, ContractInvariant, NobodyCancels, ValidatorStays

USE DEF fsmVars, permitVars, saleVars, deviceVars, taskVars, kioskVars, storeVars, cashVars

-----------------------------------------------------------------------------
(* The checkout task.                                                      *)

LEMMA CheckoutQuiet ==
    ASSUME ContractBasic, BornFirst', Basic',
           \/ SensorMismatch \/ RefusePurchase \/ StopFails \/ AcceptanceEnabled
           \/ StartPayment /\ tx' = tx
    PROVE  ContractInvariant' /\ ContractStep
<1> USE DEF ContractBasic, OnceBasic
<1>0. Go("checkout", "rest") \/ (StartPayment /\ tx' = tx /\ ~Go("checkout", "rest"))
  BY DEF SensorMismatch, RefusePurchase, StopFails, AcceptanceEnabled
(* A session that starts changes the sale.                                 *)
<1>1. Go("checkout", "rest")
  <2> SUFFICES ASSUME StartPayment, tx' = tx, ~Go("checkout", "rest")
               PROVE  FALSE
    BY <1>0
  <2>0. PICK t \in Tx : t = on["checkout"]
    BY OnSale, TaskNames, LabelNames DEF StartPayment
  <2>1. tx[t] \in TransactionRecords
    BY DEF Basic, TypeOK
  <2>2. tx[t].session = "none"
    BY <2>0 DEF StartPayment, ContractInvariant, CheckoutAt
  <2>3. PICK reserved \in BOOLEAN : Put(t, StartCashSession(tx[t], reserved))
    BY <2>0 DEF StartPayment
  <2>4. StartCashSession(tx[t], reserved).session = "accepting"
    BY <2>1, SessionIsRecord
  <2>5. tx'[t] = StartCashSession(tx[t], reserved)
    BY <2>3 DEF Put, Basic, TypeOK
  <2>. QED
    BY <2>2, <2>4, <2>5
<1>2. /\ UNCHANGED <<active, tx, cached, inserted, paid, vended, queue, window, blockers>>
      /\ accepting' = accepting \/ AcceptanceEnabled
  BY DEF SensorMismatch, RefusePurchase, StopFails, AcceptanceEnabled, StartPayment
<1>3. FsmAside /\ BlockersStay
  <2>1. UNCHANGED fsmVars \/ (StartPayment /\ MayEnter(fsm, "ACCEPTING_CASH") /\ Show("ACCEPTING_CASH"))
    BY DEF SensorMismatch, RefusePurchase, StopFails, AcceptanceEnabled, StartPayment
  <2>2. MayEnter(fsm, "ACCEPTING_CASH") => fsm \in {"WAITING_FOR_PAYMENT", "ACCEPTING_CASH"}
    BY Edges DEF Basic, TypeOK
  <2>. QED
    BY <1>2, <2>1, <2>2 DEF FsmAside, Halted, BlockersStay, Show
<1>4. /\ NobodyCancels' /\ pc'["checkout"] = "rest" /\ ValidatorStays
      /\ \A k \in {"confirm", "timeout"} : pc'[k] = pc[k] /\ on'[k] = on[k]
  BY <1>1, TaskAlone, TaskNames
<1>5. /\ SalesTell' /\ ValidatorAt' /\ BillsAreOurs' /\ CashCounted'
      /\ ContractStep /\ LocksStay
  BY <1>2, <1>3, <1>4, QuietFrame
<1>6. CheckoutAt'
  BY <1>4 DEF CheckoutAt
<1>7. ClosersAt'
  BY <1>2, <1>4, <1>5, ClosersFrame, StateAssumption DEF OnlySale, Completing, ValidatorStays
<1>8. AcceptingFor' /\ WindowFor'
  <2>1. CASE AcceptanceEnabled
    <3>1. active \in Tx /\ tx[active].session = "accepting"
      BY <2>1, OnSale, TaskNames, LabelNames
      DEF AcceptanceEnabled, ContractInvariant, CheckoutAt
    <3>. QED
      BY <1>2, <1>5, <3>1 DEF AcceptingFor, WindowFor, ContractInvariant, LocksStay
  <2>2. CASE accepting' = accepting
    BY <1>2, <1>4, <1>5, <2>2, DevicesFrame
  <2>. QED
    BY <1>2, <2>1, <2>2
<1>. QED
  BY <1>4, <1>5, <1>6, <1>7, <1>8 DEF ContractInvariant

(* A session opens: no other sale is unfinished, the window is closed.     *)
LEMMA SessionOpens ==
    ASSUME ContractBasic, BornFirst', Basic', StartPayment, tx' # tx
    PROVE  ContractInvariant' /\ ContractStep
<1> USE DEF ContractBasic, OnceBasic
<1>0. PICK t \in Tx : t = on["checkout"]
  BY OnSale, TaskNames, LabelNames DEF StartPayment
<1>1. /\ t \in Tx /\ tx[t] \in TransactionRecords
      /\ active = t /\ Born(t) /\ tx[t].session = "none"
  BY <1>0 DEF StartPayment, Basic, TypeOK, ContractInvariant, CheckoutAt
<1>2. ~Locked /\ RecordTells(t) /\ PlaceKept(t) /\ paid[t] + Price * vended[t] <= inserted[t]
  BY <1>1, NotAllowed DEF StartPayment, ContractInvariant, SalesTell
<1>3. PICK reserved \in BOOLEAN : Put(t, StartCashSession(tx[t], reserved))
  BY <1>0 DEF StartPayment
<1>4. /\ tx'[t].session = "accepting" /\ tx'[t].status = "accepting_cash"
      /\ tx'[t].accepted = tx[t].accepted
      /\ tx'[t].recovery = tx[t].recovery /\ tx'[t].cancelled = tx[t].cancelled
      /\ \A u \in Tx : u # t => tx'[u] = tx[u]
  BY <1>1, <1>3, SessionIsRecord, StartSets DEF Put, Basic, TypeOK, SameMoney
<1>5. UNCHANGED <<active, cached, inserted, paid, vended, queue, window, blockers, accepting>>
  BY DEF StartPayment
<1>6. ~Flagged(tx[t]) /\ ~Flagged(tx'[t])
  BY <1>1, <1>2, <1>4 DEF RecordTells, PlaceKept, Flagged
<1>7. /\ NobodyCancels' /\ ValidatorStays /\ pc'["checkout"] \in {"rest", "enable"}
      /\ on'["checkout"] = t \/ pc'["checkout"] = "rest"
      /\ \A k \in {"confirm", "timeout"} : pc'[k] = pc[k] /\ on'[k] = on[k]
  BY <1>0, TaskAlone, TaskNames DEF StartPayment, Go
<1>8. FsmAside /\ LocksStay
  <2>1. UNCHANGED fsmVars \/ (MayEnter(fsm, "ACCEPTING_CASH") /\ Show("ACCEPTING_CASH"))
    BY DEF StartPayment
  <2>2. MayEnter(fsm, "ACCEPTING_CASH") => fsm \in {"WAITING_FOR_PAYMENT", "ACCEPTING_CASH"}
    BY Edges DEF Basic, TypeOK
  <2>3. FsmAside
    BY <2>1, <2>2 DEF FsmAside, Halted, Show
  <2>. QED
    BY <1>5, <2>3, Stays DEF BlockersStay
<1>9. /\ ~BillWaits /\ pc["validator"] # "credited" /\ ~Completing /\ ~accepting
      /\ window # "open"
  BY <1>1, <1>2, <1>6
  DEF ContractInvariant, BillsAreOurs, ValidatorAt, AcceptingFor, WindowFor, RecordTells, Completing
<1>10. SalesTell'
  <2>1. OnlySale(t)
    BY <1>4, <1>5 DEF OnlySale
  <2>2. RecordTells(t)'
    <3>1. vended'[t] = 0 /\ paid'[t] = 0 /\ t \notin cached'
      BY <1>1, <1>2, <1>5 DEF RecordTells
    <3>2. ~tx'[t].cancelled
      BY <1>2, <1>4 DEF RecordTells
    <3>. QED
      BY <1>4, <1>6, <3>1, <3>2 DEF RecordTells, Born, Delivered
  <2>3. PlaceKept(t)'
    BY <1>1, <1>5, <1>6 DEF PlaceKept
  <2>. QED
    BY <1>1, <1>2, <1>5, <1>7, <1>8, <2>1, <2>2, <2>3, OthersTell DEF SaleTells, ValidatorStays
<1>11. BillsAreOurs' /\ CashCounted' /\ (BillWaits' => BillWaits)
  BY <1>4, <1>5, <1>7, <1>9, BillsFrame
<1>12. CheckoutAt'
  <2>1. ASSUME pc'["checkout"] = "enable"
        PROVE  fsm' = "ACCEPTING_CASH"
    <3>1. ASSUME Go("checkout", "rest")
          PROVE  FALSE
      BY <2>1, <3>1, TaskNames DEF Go, Basic, TypeOK
    <3>. QED
      BY <3>1 DEF StartPayment, Show
  <2>. QED
    BY <1>1, <1>4, <1>5, <1>7, <1>9, <1>11, <2>1 DEF CheckoutAt, ValidatorStays
<1>13. ValidatorAt'
  BY <1>4, <1>5, <1>7, <1>8, <1>9, ValidatorFrame DEF OnlySale
<1>14. ClosersAt'
  BY <1>1, <1>4, <1>5, <1>7, <1>8, <1>9, ClosersFrame
  DEF OnlySale, HandedOver, Completing, ValidatorStays
<1>15. AcceptingFor' /\ WindowFor'
  BY <1>5, <1>9 DEF AcceptingFor, WindowFor
<1>16. ContractStep
  <2>1. \A u \in Tx \ {t} : Phase(u) \in {"new", "over"}
    BY <1>1, <1>2 DEF ContractInvariant, SalesTell, PlaceKept, Unfinished
  <2>2. Phase(t) = "new" /\ Phase(t)' = "taking"
    BY <1>1, <1>2, <1>4, <1>5, <1>6, Phases DEF Phase, RecordTells
  <2>3. \A u \in Tx : u # t => Phase(u)' = Phase(u)
    BY <1>4, <1>5 DEF Phase
  <2>4. [v \in Tx |-> Phase(v)]' = [[v \in Tx |-> Phase(v)] EXCEPT ![t] = "taking"]
    BY <2>2, <2>3
  <2>5. Contract!BeginPurchase(t)
    BY <1>5, <2>1, <2>2, <2>4 DEF Contract!BeginPurchase, Contract!Enters
  <2>. QED
    BY <1>1, <2>5 DEF ContractStep, Contract!ContractNext
<1>. QED
  BY <1>7, <1>10, <1>11, <1>12, <1>13, <1>14, <1>15, <1>16 DEF ContractInvariant

(* The validator cannot be enabled: the sale is held, the machine stopped. *)
LEMMA SessionHeld ==
    ASSUME ContractBasic, BornFirst', Basic', AcceptanceNotEnabled
    PROVE  ContractInvariant' /\ ContractStep
<1> USE DEF ContractBasic, OnceBasic
<1>0. PICK t \in Tx : t = on["checkout"]
  BY OnSale, TaskNames, LabelNames DEF AcceptanceNotEnabled
<1>1. /\ tx[t] \in TransactionRecords /\ active = t /\ tx[t].session = "accepting"
      /\ fsm = "ACCEPTING_CASH" \/ Halted
      /\ ~BillWaits /\ pc["validator"] # "credited"
  BY <1>0 DEF AcceptanceNotEnabled, Basic, TypeOK, ContractInvariant, CheckoutAt
<1>2. RecordTells(t) /\ PlaceKept(t) /\ paid[t] + Price * vended[t] <= inserted[t]
  BY DEF ContractInvariant, SalesTell
<1>3. ~Completing
  BY <1>1 DEF ContractInvariant, ValidatorAt
<1>4. /\ Becomes(tx[t], tx'[t], "faulted", "pending")
      /\ \A u \in Tx : u # t => tx'[u] = tx[u]
  BY <1>0, <1>1, MethodsSet DEF AcceptanceNotEnabled, Put, Basic, TypeOK
<1>5. UNCHANGED <<active, cached, inserted, paid, vended, queue, window>>
  BY DEF AcceptanceNotEnabled
<1>6. Halted' /\ Locked' /\ FsmAside /\ LocksStay
  <2>1. fsm \in {"ACCEPTING_CASH", "FAULT", "RECOVERY_PENDING", "MANUAL_REVIEW"}
    BY <1>1 DEF Halted
  <2>2. Show("FAULT")
    BY <2>1, Edges DEF AcceptanceNotEnabled, Basic, TypeOK
  <2>. QED
    BY <2>2, Halts DEF Locked, LocksStay
<1>7. /\ NobodyCancels' /\ ValidatorStays /\ pc'["checkout"] = "rest"
      /\ \A k \in {"confirm", "timeout"} : pc'[k] = pc[k] /\ on'[k] = on[k]
  BY TaskAlone, TaskNames DEF AcceptanceNotEnabled
<1>8. SalesTell'
  <2>1. OnlySale(t)
    BY <1>4, <1>5 DEF OnlySale
  <2>2. RecordTells(t)'
    BY <1>1, <1>2, <1>4, <1>5 DEF RecordTells, Born, Becomes, Delivered, Flagged
  <2>3. PlaceKept(t)'
    BY <1>6 DEF PlaceKept
  <2>. QED
    BY <1>2, <1>5, <1>6, <1>7, <2>1, <2>2, <2>3, OthersTell DEF SaleTells, ValidatorStays
<1>9. CheckoutAt'
  BY <1>7 DEF CheckoutAt
<1>10. ValidatorAt'
  BY <1>1, <1>3, <1>4, <1>5, <1>6, <1>7, ValidatorFrame DEF OnlySale
<1>11. ClosersAt'
  BY <1>1, <1>3, <1>4, <1>5, <1>6, <1>7, ClosersFrame
  DEF OnlySale, HandedOver, Completing, ValidatorStays
<1>12. BillsAreOurs' /\ CashCounted'
  BY <1>1, <1>4, <1>5, BillsFrame DEF Becomes, SameMoney
<1>13. AcceptingFor' /\ WindowFor'
  BY <1>1, <1>4, <1>5, <1>6 DEF AcceptingFor, WindowFor, Becomes
<1>14. ContractStep
  BY <1>4, <1>5, HoldsSale DEF Becomes, Flagged
<1>. QED
  BY <1>7, <1>8, <1>9, <1>10, <1>11, <1>12, <1>13, <1>14 DEF ContractInvariant

(* A sale over which create_transaction accepts a new one is finished, or  *)
(* the machine is locked; nobody has it in hand and the validator is off.  *)
LEMMA SlotFree ==
    ASSUME ContractBasic, SlotIsFree
    PROVE  /\ ~BillWaits /\ ~accepting /\ pc["validator"] # "credited" /\ ~Completing
           /\ window = "open" => Locked
           /\ active \in Tx => /\ tx[active].status # "closing_delivery_window"
                               /\ Unfinished(active) => Locked
<1> USE DEF ContractBasic, OnceBasic
<1>1. active = NoTx \/ active \in Tx
  BY DEF Basic, TypeOK, SaleIds
<1>2. CASE active = NoTx
  BY <1>2, StateAssumption, OnSale, CompletingOnSale, TaskNames, LabelNames
  DEF ContractInvariant, BillsAreOurs, AcceptingFor, ValidatorAt, WindowFor
<1>3. CASE active \in Tx
  <2>1. PICK t \in Tx : t = active
    BY <1>3
  <2>2. RecordTells(t) /\ PlaceKept(t)
    BY DEF ContractInvariant, SalesTell
  <2>3. t # NoTx /\ tx[t].status \in {"completed", "cancelled", "pickup_timed_out"}
    BY <2>1, StateAssumption DEF SlotIsFree
  <2>4. /\ tx[t].status \in {"completed", "pickup_timed_out"}
        /\ tx[t].session = "completed" /\ vended[t] > 0
    BY <2>2, <2>3 DEF RecordTells, Delivered
  <2>5. tx[t].status = "pickup_timed_out" \/ Flagged(tx[t]) => Locked
    BY <2>2, <2>4 DEF RecordTells, PlaceKept, Flagged
  <2>6. Unfinished(t) => Locked
    BY <2>4, <2>5, Phases DEF Unfinished, Phase
  <2>7. ~Completing
    <3> SUFFICES ASSUME Completing
                 PROVE  FALSE
      OBVIOUS
    <3>1. on["validator"] = t
      BY <2>1 DEF ContractInvariant, ValidatorAt
    <3>2. ~(vended[t] = 0)
      BY <2>4
    <3>. QED
      BY <2>4, <3>1, <3>2
      DEF Completing, ContractInvariant, ValidatorAt, OnceInvariant, CompletesOnce
  <2>8. ~BillWaits /\ pc["validator"] # "credited"
    BY <2>1, <2>4 DEF ContractInvariant, BillsAreOurs, ValidatorAt
  <2>9. ~accepting
    <3>1. ~(vended[t] = 0)
      BY <2>4
    <3>. QED
      BY <2>1, <2>4, <2>7, <3>1 DEF ContractInvariant, AcceptingFor, Completing
  <2>10. window = "open" => Locked
    BY <2>1, <2>4, <2>5 DEF ContractInvariant, WindowFor
  <2>. QED
    BY <2>1, <2>4, <2>6, <2>7, <2>8, <2>9, <2>10
<1>. QED
  BY <1>1, <1>2, <1>3

LEMMA PurchaseCreated ==
    ASSUME ContractBasic, BornFirst', Basic', CreatePurchase
    PROVE  ContractInvariant' /\ ContractStep
<1> USE DEF ContractBasic, OnceBasic
<1>0. PICK t \in Tx : t = on["checkout"]
  BY OnSale, TaskNames, LabelNames DEF CreatePurchase
<1>1. ~Born(t) /\ tx[t] = UnbornTransaction /\ RecordTells(t) /\ PlaceKept(t)
      /\ paid[t] + Price * vended[t] <= inserted[t]
  BY <1>0 DEF CreatePurchase, ContractInvariant, CheckoutAt, SalesTell, RecordTells
<1>2. /\ tx'[t] = NewTransaction /\ \A u \in Tx : u # t => tx'[u] = tx[u]
      /\ active' = t
      /\ UNCHANGED <<accepting, cached, inserted, paid, vended, queue, window, blockers>>
  BY <1>0 DEF CreatePurchase, Put, Basic, TypeOK
<1>3. /\ ~BillWaits /\ ~accepting /\ pc["validator"] # "credited" /\ ~Completing
      /\ window = "open" => Locked
      /\ active \in Tx => /\ tx[active].status # "closing_delivery_window"
                          /\ Unfinished(active) => Locked
  BY SlotFree DEF CreatePurchase
<1>4. /\ NobodyCancels' /\ ValidatorStays
      /\ \A k \in {"confirm", "timeout"} : pc'[k] = pc[k] /\ on'[k] = on[k]
  BY TaskAlone, TaskNames DEF CreatePurchase
<1>5. pc'["checkout"] = "rest" \/ (pc'["checkout"] = "stop" /\ on'["checkout"] = t)
  BY <1>0, TaskNames DEF CreatePurchase, Go, Basic, TypeOK
<1>6. FsmAside /\ LocksStay
  <2>1. MayEnter(fsm, "PRODUCT_SELECTED") => fsm \in {"IDLE", "PRODUCT_SELECTED"}
    BY Edges DEF Basic, TypeOK
  <2>2. MayEnter(fsm, "PRODUCT_SELECTED") \/ UNCHANGED fsmVars
    BY DEF CreatePurchase
  <2>3. FsmAside
    BY <2>1, <2>2 DEF FsmAside, Halted
  <2>. QED
    BY <1>2, <2>3, Stays DEF BlockersStay
<1>7. OnlySale(t)
  BY <1>2 DEF OnlySale
<1>8. SalesTell'
  <2>1. RecordTells(t)'
    BY <1>1, <1>2
    DEF RecordTells, Born, Flagged, NewTransaction, UnbornTransaction, Delivered
  <2>2. PlaceKept(t)'
    BY <1>2 DEF PlaceKept, Flagged, NewTransaction, UnbornTransaction
  <2>. QED
    BY <1>1, <1>2, <1>3, <1>4, <1>6, <1>7, <2>1, <2>2, OthersTell
    DEF SaleTells, ValidatorStays, LocksStay
<1>9. CheckoutAt'
  BY <1>2, <1>5 DEF CheckoutAt, Born, NewTransaction, UnbornTransaction
<1>10. ValidatorAt'
  BY <1>2, <1>3, <1>4, <1>6, <1>7, ValidatorFrame
<1>11. ClosersAt'
  BY <1>1, <1>2, <1>3, <1>4, <1>6, <1>7, ClosersFrame
  DEF HandedOver, UnbornTransaction, Completing, ValidatorStays
<1>12. BillsAreOurs' /\ CashCounted'
  BY <1>1, <1>2, <1>3, <1>4, BillsFrame DEF UnbornTransaction, NewTransaction
<1>13. AcceptingFor' /\ WindowFor'
  BY <1>2, <1>3, <1>6 DEF AcceptingFor, WindowFor, LocksStay
<1>14. ContractStep
  <2>1. PhaseOf(tx[t], vended[t]) = "new" /\ PhaseOf(tx'[t], vended[t]) = "new"
    BY <1>1, <1>2, Phases DEF Flagged, UnbornTransaction, NewTransaction
  <2>. QED
    BY <1>2, <2>1, Stutters
<1>. QED
  BY <1>4, <1>8, <1>9, <1>10, <1>11, <1>12, <1>13, <1>14 DEF ContractInvariant

-----------------------------------------------------------------------------
(* Steps of nobody with a sale in hand.                                    *)

LEMMA QuietStep ==
    ASSUME ContractBasic, BornFirst', FsmAside, BlockersStay, UNCHANGED <<pc, on>>,
           UNCHANGED <<active, tx, cached, inserted, paid, vended, window>>,
           queue' = queue \/ queue' = Append(queue, [kind |-> "fault", bill |-> 0]),
           accepting' => accepting
    PROVE  ContractInvariant' /\ ContractStep
<1>1. ValidatorStays
  BY DEF ValidatorStays
<1>2. /\ SalesTell' /\ ValidatorAt' /\ BillsAreOurs' /\ CashCounted'
      /\ BillWaits' => BillWaits
      /\ ContractStep /\ LocksStay
  BY <1>1, QuietFrame
<1>3. CheckoutAt'
  BY <1>2, CheckoutFrame DEF Born
<1>4. ClosersAt'
  BY <1>2, ClosersFrame, StateAssumption DEF OnlySale, Completing
<1>5. AcceptingFor' /\ WindowFor'
  BY <1>1, <1>2, DevicesFrame
<1>6. NobodyCancels'
  BY DEF ContractBasic, ContractInvariant, NobodyCancels
<1>. QED
  BY <1>2, <1>3, <1>4, <1>5, <1>6 DEF ContractInvariant

LEMMA EnvironmentKeeps ==
    ASSUME ContractBasic, BornFirst',
           Environment \/ TapScreen \/ UNCHANGED vars
    PROVE  ContractInvariant' /\ ContractStep
<1>1. FsmAside
  BY DEF Environment, ValidatorBreaks, HealthBlocks, HealthUnblocks, TapScreen, vars,
         FsmAside, Halted
<1>2. BlockersStay
  BY DEF Environment, ValidatorBreaks, HealthBlocks, HealthUnblocks, TapScreen, vars,
         BlockersStay
<1>3. /\ UNCHANGED <<pc, on>>
      /\ UNCHANGED <<active, tx, cached, inserted, paid, vended, window>>
      /\ queue' = queue \/ queue' = Append(queue, [kind |-> "fault", bill |-> 0])
      /\ accepting' => accepting
  BY DEF Environment, ValidatorBreaks, HealthBlocks, HealthUnblocks, TapScreen, vars
<1>. QED
  BY <1>1, <1>2, <1>3, QuietStep

LEMMA TapBuyKeeps ==
    ASSUME ContractBasic, BornFirst', NEW t \in Tx, TapBuy(t)
    PROVE  ContractInvariant' /\ ContractStep
<1>1. UNCHANGED <<fsm, shown, blockers, active, tx, cached, inserted, paid, vended, window,
                  queue, accepting>>
  BY DEF TapBuy
<1>2. FsmAside /\ BlockersStay
  BY <1>1 DEF FsmAside, BlockersStay, Halted
<1>3. /\ NobodyCancels' /\ ValidatorStays
      /\ pc'["checkout"] = "sensor"
      /\ \A k \in {"confirm", "timeout"} : pc'[k] = pc[k] /\ on'[k] = on[k]
  BY TaskAlone, TaskNames DEF TapBuy
<1>4. /\ SalesTell' /\ ValidatorAt' /\ BillsAreOurs' /\ CashCounted'
      /\ ContractStep /\ LocksStay
  BY <1>1, <1>2, <1>3, QuietFrame
<1>5. on'["checkout"] = t /\ ~Born(t)'
  BY <1>1, TaskNames DEF TapBuy, Start, Born, ContractBasic, OnceBasic, Basic, TypeOK
<1>6. CheckoutAt'
  BY <1>3, <1>5 DEF CheckoutAt
<1>7. ClosersAt'
  BY <1>1, <1>3, <1>4, ClosersFrame, StateAssumption DEF OnlySale, Completing, ValidatorStays
<1>8. AcceptingFor' /\ WindowFor'
  BY <1>1, <1>3, <1>4, DevicesFrame
<1>. QED
  BY <1>3, <1>4, <1>6, <1>7, <1>8 DEF ContractInvariant

(* A sale that waits for its customer is out of the validator task's hands.*)
LEMMA WaitsForPickup ==
    ASSUME ContractBasic, NEW t \in Tx, tx[t].status = "waiting_for_customer_pickup"
    PROVE  HandedOver(t)
<1> USE DEF ContractBasic, OnceBasic
<1>1. tx[t].session = "completed" /\ vended[t] > 0
  BY DEF ContractInvariant, SalesTell, RecordTells, Delivered
<1>2. ~(Completing /\ on["validator"] = t)
  <2>1. ~(vended[t] = 0)
    BY <1>1
  <2>. QED
    BY <2>1 DEF Completing, ContractInvariant, ValidatorAt, OnceInvariant, CompletesOnce
<1>. QED
  BY <1>1, <1>2 DEF HandedOver

(* The deadline of a sale handed over has passed.                          *)
LEMMA DeadlineKeeps ==
    ASSUME ContractBasic, BornFirst', Basic',
           TimeoutCloses \/ (\E t \in Tx : PickupExpires(t))
    PROVE  ContractInvariant' /\ ContractStep
<1> USE DEF ContractBasic, OnceBasic
<1>1. UNCHANGED <<blockers, active, tx, cached, inserted, paid, vended, window, queue, accepting>>
  BY DEF TimeoutCloses, PickupExpires
<1>2. FsmAside /\ BlockersStay
  BY <1>1 DEF TimeoutCloses, PickupExpires, FsmAside, BlockersStay, Halted, Show
<1>3. /\ NobodyCancels' /\ ValidatorStays
      /\ \A k \in {"checkout", "confirm"} : pc'[k] = pc[k] /\ on'[k] = on[k]
  BY TaskAlone, TaskNames DEF TimeoutCloses, PickupExpires
<1>4. /\ SalesTell' /\ ValidatorAt' /\ BillsAreOurs' /\ CashCounted'
      /\ BillWaits' => BillWaits
      /\ ContractStep /\ LocksStay
  BY <1>1, <1>2, <1>3, QuietFrame
<1>5. CheckoutAt'
  BY <1>1, <1>2, <1>3, <1>4, CheckoutFrame DEF Born, ValidatorStays
<1>6. HandedOver(on'["timeout"])
  <2>1. CASE TimeoutCloses
    BY <2>1, TaskNames DEF TimeoutCloses, Go, ContractInvariant, ClosersAt, Basic, TypeOK
  <2>2. CASE \E t \in Tx : PickupExpires(t)
    <3>1. PICK t \in Tx : PickupExpires(t)
      BY <2>2
    <3>. QED
      BY <3>1, WaitsForPickup, TaskNames
      DEF PickupExpires, AwaitsPickup, Start, Basic, TypeOK
  <2>. QED
    BY <2>1, <2>2
<1>7. ClosersAt'
  BY <1>1, <1>3, <1>4, <1>6
  DEF ContractInvariant, ClosersAt, HandedOver, Completing, ValidatorStays, LocksStay
<1>8. AcceptingFor' /\ WindowFor'
  BY <1>1, <1>3, <1>4, DevicesFrame
<1>. QED
  BY <1>3, <1>4, <1>5, <1>7, <1>8 DEF ContractInvariant

-----------------------------------------------------------------------------
(* A sale that has been handed over is closed.                             *)

LEMMA ClosingFrame ==
    ASSUME ContractBasic, FsmAside, LocksStay, ValidatorStays, NEW t \in Tx, HandedOver(t),
           OnlySale(t), UNCHANGED <<cached, inserted, paid, vended, queue, accepting>>,
           pc'["checkout"] = pc["checkout"] /\ on'["checkout"] = on["checkout"],
           tx'[t].session = tx[t].session, tx'[t].accepted = tx[t].accepted, Born(t)',
           active' = active \/ ClearActive(t), RecordTells(t)', PlaceKept(t)'
    PROVE  /\ SalesTell' /\ CheckoutAt' /\ ValidatorAt'
           /\ BillsAreOurs' /\ CashCounted' /\ AcceptingFor'
           /\ \A u \in Tx : HandedOver(u) => HandedOver(u)'
<1> USE DEF ContractBasic, OnceBasic
<1>1. /\ tx[t].session = "completed" /\ vended[t] > 0
      /\ Completing => on["validator"] # t
  BY DEF HandedOver
<1>2. \A u \in Tx : u # t => tx'[u] = tx[u]
  BY DEF OnlySale
<1>3. active # t => active' = active
  BY DEF ClearActive
<1>4. /\ pc["validator"] = "credited" \/ Completing \/ BillWaits \/ accepting => active # t
      /\ pc["checkout"] \in {"stop", "enable"} => active # t
  <2>1. ~(vended[t] = 0)
    BY <1>1
  <2>. QED
    BY <1>1, <2>1
    DEF ContractInvariant, ValidatorAt, BillsAreOurs, AcceptingFor, CheckoutAt, Completing
<1>5. RecordTells(t) /\ Born(t) /\ paid[t] + Price * vended[t] <= inserted[t]
  BY <1>1 DEF ContractInvariant, SalesTell, RecordTells, UnbornTransaction
<1>6. SalesTell'
  <2>1. \A u \in Tx \ {t} : active = u /\ Unfinished(u) => Locked' \/ active' = u
    BY <1>3
  <2>. QED
    BY <1>5, <2>1, OthersTell DEF SaleTells, ValidatorStays
<1>7. ValidatorAt'
  <2>1. pc["validator"] = "credited" => on["validator"] = active
    BY DEF ContractInvariant, ValidatorAt
  <2>. QED
    BY <1>1, <1>3, <1>4, <2>1, ValidatorFrame
<1>8. BillsAreOurs' /\ CashCounted' /\ (BillWaits' => BillWaits)
  <2>1. BillWaits => active' = active /\ tx'[active].session = "accepting"
    BY <1>2, <1>3, <1>4 DEF ContractInvariant, BillsAreOurs
  <2>. QED
    BY <1>2, <2>1, BillsFrame
<1>9. CheckoutAt'
  <2>1. \A u \in Tx : (Born(u)' <=> Born(u)) /\ tx'[u].session = tx[u].session
    BY <1>2, <1>5 DEF Born
  <2>. QED
    BY <1>3, <1>4, <1>8, <2>1, CheckoutFrame DEF ValidatorStays
<1>10. AcceptingFor'
  BY <1>2, <1>3, <1>4 DEF ContractInvariant, AcceptingFor, ValidatorStays
<1>11. \A u \in Tx : HandedOver(u) => HandedOver(u)'
  BY DEF OnlySale, HandedOver, Completing, ValidatorStays
<1>. QED
  BY <1>6, <1>7, <1>8, <1>9, <1>10, <1>11

LEMMA PickupTapped ==
    ASSUME ContractBasic, BornFirst', Basic', NEW t \in Tx, TapPickup(t)
    PROVE  ContractInvariant' /\ ContractStep
<1> USE DEF ContractBasic, OnceBasic
<1>1. /\ tx[t] \in TransactionRecords /\ tx[t].status = "waiting_for_customer_pickup"
      /\ HandedOver(t) /\ RecordTells(t) /\ PlaceKept(t)
  BY WaitsForPickup DEF TapPickup, Basic, TypeOK, ContractInvariant, SalesTell
<1>2. /\ Becomes(tx[t], tx'[t], "closing_delivery_window", tx[t].recovery)
      /\ \A u \in Tx : u # t => tx'[u] = tx[u]
  BY <1>1, MethodsSet DEF TapPickup, BeginConfirm, Put, Basic, TypeOK
<1>3. UNCHANGED <<active, cached, inserted, paid, vended, queue, accepting, window, blockers>>
  BY DEF TapPickup, BeginConfirm
<1>4. /\ NobodyCancels' /\ ValidatorStays
      /\ \A k \in {"checkout", "timeout"} : pc'[k] = pc[k] /\ on'[k] = on[k]
      /\ pc'["confirm"] = "close" => on'["confirm"] = t
  <2>1. CASE UNCHANGED <<pc, on>>
    BY <2>1 DEF TapPickup, BeginConfirm, ContractInvariant, NobodyCancels, ValidatorStays
  <2>2. CASE Start("confirm", t, "close")
    <3>1. on'["confirm"] = t
      BY <2>2, TaskNames DEF Start, Basic, TypeOK
    <3>. QED
      BY <2>2, <3>1, TaskAlone, TaskNames
  <2>. QED
    BY <2>1, <2>2 DEF TapPickup, BeginConfirm
<1>5. FsmAside /\ LocksStay
  <2>1. MayEnter(fsm, "CLOSING_DELIVERY_WINDOW")
          => fsm \in {"WAITING_FOR_CUSTOMER_PICKUP", "CLOSING_DELIVERY_WINDOW"}
    BY Edges DEF Basic, TypeOK
  <2>2. FsmAside
    BY <2>1 DEF TapPickup, BeginConfirm, FsmAside, Halted, Show
  <2>. QED
    BY <1>3, <2>2, Stays DEF BlockersStay
<1>6. OnlySale(t)
  BY <1>2, <1>3 DEF OnlySale
<1>7. Flagged(tx[t]) <=> Flagged(tx'[t])
  BY <1>1, <1>2 DEF Becomes, Flagged
<1>8. Phase(t)' = Phase(t) /\ (~Flagged(tx[t]) => Phase(t) = "handing")
  <2>1. vended'[t] > 0 /\ vended[t] > 0 /\ tx[t].session # "none" /\ tx'[t].session # "none"
    BY <1>1, <1>2, <1>3 DEF HandedOver, Becomes
  <2>. QED
    BY <1>1, <1>2, <1>7, <2>1, Phases DEF Phase, Becomes
<1>9. RecordTells(t)'
  BY <1>1, <1>2, <1>3, <1>7
  DEF RecordTells, HandedOver, Becomes, SameMoney, Born, Delivered, CanConfirm
<1>10. PlaceKept(t)'
  BY <1>1, <1>2, <1>3, <1>5, <1>7, <1>8
  DEF PlaceKept, Unfinished, LocksStay, HandedOver, Becomes
<1>11. /\ SalesTell' /\ CheckoutAt' /\ ValidatorAt'
       /\ BillsAreOurs' /\ CashCounted' /\ AcceptingFor'
       /\ \A u \in Tx : HandedOver(u) => HandedOver(u)'
  BY <1>1, <1>2, <1>3, <1>4, <1>5, <1>6, <1>9, <1>10, ClosingFrame
  DEF Becomes, SameMoney, Born
<1>12. Locked \/ active = t
  BY <1>1, <1>7, <1>8, Phases DEF PlaceKept, Unfinished, Phase
<1>13. ClosersAt'
  BY <1>1, <1>2, <1>3, <1>4, <1>5, <1>11, <1>12, OnSale, TaskNames, LabelNames
  DEF ContractInvariant, ClosersAt, LocksStay, Becomes
<1>14. WindowFor'
  BY <1>2, <1>3, <1>5 DEF ContractInvariant, WindowFor, LocksStay, Becomes
<1>15. ContractStep
  BY <1>2, <1>3, <1>8, Stutters DEF Phase
<1>. QED
  BY <1>4, <1>11, <1>13, <1>14, <1>15 DEF ContractInvariant

(* The window closes behind the product: the sale is over.                 *)
LEMMA PickupEnds ==
    ASSUME ContractBasic, BornFirst', Basic', PickupClosed
    PROVE  ContractInvariant' /\ ContractStep
<1> USE DEF ContractBasic, OnceBasic
<1>0. PICK t \in Tx : t = on["confirm"]
  BY OnSale, TaskNames, LabelNames DEF PickupClosed
<1>1. /\ tx[t] \in TransactionRecords
      /\ HandedOver(t) /\ RecordTells(t) /\ PlaceKept(t)
      /\ Locked \/ (active = t /\ tx[t].status = "closing_delivery_window")
  BY <1>0 DEF PickupClosed, Basic, TypeOK, ContractInvariant, SalesTell, ClosersAt
<1>2. /\ Becomes(tx[t], tx'[t], "completed", tx[t].recovery)
      /\ \A u \in Tx : u # t => tx'[u] = tx[u]
  BY <1>0, <1>1, MethodsSet DEF PickupClosed, Put, Basic, TypeOK
<1>3. /\ UNCHANGED <<cached, inserted, paid, vended, queue, accepting, blockers>>
      /\ window' = "closed" /\ (active' = active \/ ClearActive(t))
  BY <1>0 DEF PickupClosed
<1>4. /\ NobodyCancels' /\ ValidatorStays
      /\ \A k \in {"checkout", "timeout"} : pc'[k] = pc[k] /\ on'[k] = on[k]
      /\ pc'["confirm"] = "rest"
  BY TaskAlone, TaskNames DEF PickupClosed
<1>5. FsmAside /\ LocksStay
  <2>1. MayEnter(fsm, "COMPLETED") => fsm \in {"CLOSING_DELIVERY_WINDOW", "COMPLETED"}
    BY Edges DEF Basic, TypeOK
  <2>2. FsmAside
    BY <2>1 DEF PickupClosed, FsmAside, Halted, Show
  <2>. QED
    BY <1>3, <2>2, Stays DEF BlockersStay
<1>6. OnlySale(t)
  BY <1>2, <1>3 DEF OnlySale
<1>7. Flagged(tx[t]) => Flagged(tx'[t])
  BY <1>1, <1>2 DEF RecordTells, Becomes, Flagged
<1>8. Flagged(tx'[t]) => Flagged(tx[t]) /\ Locked
  BY <1>1, <1>2 DEF PlaceKept, Becomes, Flagged
<1>9. ~Flagged(tx[t]) => Phase(t) \in {"handing", "over"} /\ Phase(t)' = "over"
  <2>1. vended'[t] > 0 /\ vended[t] > 0 /\ tx[t].session # "none" /\ tx'[t].session # "none"
    BY <1>1, <1>2, <1>3 DEF HandedOver, Becomes
  <2>. QED
    BY <1>2, <1>8, <2>1, Phases DEF Phase, Becomes
<1>10. RecordTells(t)'
  BY <1>1, <1>2, <1>3, <1>7, <1>8
  DEF RecordTells, HandedOver, Becomes, SameMoney, Born, Delivered, CanConfirm
<1>11. PlaceKept(t)'
  BY <1>1, <1>2, <1>5, <1>7, <1>8, <1>9
  DEF PlaceKept, Unfinished, LocksStay, HandedOver, Becomes
<1>12. /\ SalesTell' /\ CheckoutAt' /\ ValidatorAt'
       /\ BillsAreOurs' /\ CashCounted' /\ AcceptingFor'
       /\ \A u \in Tx : HandedOver(u) => HandedOver(u)'
  BY <1>1, <1>2, <1>3, <1>4, <1>5, <1>6, <1>10, <1>11, ClosingFrame
  DEF Becomes, SameMoney, Born
<1>13. ClosersAt'
  BY <1>4, <1>12, OnSale, TaskNames, LabelNames DEF ContractInvariant, ClosersAt
<1>14. WindowFor'
  BY <1>3 DEF WindowFor
<1>15. ContractStep
  <2>1. CASE Phase(t)' = Phase(t)
    BY <1>2, <1>3, <2>1, Stutters DEF Phase
  <2>2. CASE Phase(t) = "handing" /\ Phase(t)' = "over"
    <3>1. \A u \in Tx : u # t => Phase(u)' = Phase(u)
      BY <1>2, <1>3 DEF Phase
    <3>2. [v \in Tx |-> Phase(v)]' = [[v \in Tx |-> Phase(v)] EXCEPT ![t] = "over"]
      BY <2>2, <3>1
    <3>3. Contract!FinishPurchase(t)
      BY <1>3, <2>2, <3>2 DEF Contract!FinishPurchase, Contract!Enters
    <3>. QED
      BY <3>3 DEF ContractStep, Contract!ContractNext
  <2>3. Flagged(tx[t]) => Phase(t)' = Phase(t)
    BY <1>7, Phases DEF Phase
  <2>. QED
    BY <1>9, <2>1, <2>2, <2>3
<1>. QED
  BY <1>4, <1>12, <1>13, <1>14, <1>15 DEF ContractInvariant

(* The window does not close, or it closes too late: the sale is held.     *)
LEMMA ClosingHeld ==
    ASSUME ContractBasic, BornFirst', Basic', PickupCloseFails \/ TimeoutClosed \/ TimeoutCloseFails
    PROVE  ContractInvariant' /\ ContractStep
<1> USE DEF ContractBasic, OnceBasic
<1>0. PICK t \in Tx : t = IF PickupCloseFails THEN on["confirm"] ELSE on["timeout"]
  BY OnSale, TaskNames, LabelNames DEF PickupCloseFails, TimeoutClosed, TimeoutCloseFails
<1>1. /\ tx[t] \in TransactionRecords
      /\ HandedOver(t) /\ RecordTells(t) /\ PlaceKept(t)
      /\ PickupCloseFails => Locked \/ active = t
  BY <1>0
  DEF PickupCloseFails, TimeoutClosed, TimeoutCloseFails, Basic, TypeOK, ContractInvariant,
      SalesTell, ClosersAt
<1>2. /\ \/ Becomes(tx[t], tx'[t], "faulted", "pending")
         \/ Becomes(tx[t], tx'[t], "pickup_timed_out", "manual_review") /\ ~PickupCloseFails
      /\ \A u \in Tx : u # t => tx'[u] = tx[u]
  BY <1>0, <1>1, MethodsSet
  DEF PickupCloseFails, TimeoutClosed, TimeoutCloseFails, Put, Basic, TypeOK
<1>3. /\ UNCHANGED <<active, cached, inserted, paid, vended, queue, accepting>>
      /\ PickupCloseFails => UNCHANGED <<window, blockers, fsm, shown>>
  BY DEF PickupCloseFails, TimeoutClosed, TimeoutCloseFails
<1>4. /\ NobodyCancels' /\ ValidatorStays
      /\ pc'["checkout"] = pc["checkout"] /\ on'["checkout"] = on["checkout"]
      /\ \A k \in {"confirm", "timeout"} :
            pc'[k] = "rest" \/ (pc'[k] = pc[k] /\ on'[k] = on[k])
      /\ PickupCloseFails => pc'["confirm"] = "rest"
  <2>1. CASE PickupCloseFails
    BY <2>1, TaskAlone, TaskNames DEF PickupCloseFails
  <2>2. CASE ~PickupCloseFails
    <3>1. Go("timeout", "rest")
      BY <2>2 DEF TimeoutClosed, TimeoutCloseFails
    <3>. QED
      BY <2>2, <3>1, TaskAlone, TaskNames
  <2>. QED
    BY <2>1, <2>2
<1>5. FsmAside /\ LocksStay /\ (~PickupCloseFails => Locked')
  <2>1. CASE PickupCloseFails
    BY <1>3, <2>1 DEF FsmAside, LocksStay, Locked, Halted
  <2>2. CASE TimeoutClosed \/ TimeoutCloseFails
    BY <2>2, Halts DEF TimeoutClosed, TimeoutCloseFails, LocksStay, Locked
  <2>. QED
    BY <2>1, <2>2
<1>6. OnlySale(t)
  BY <1>2, <1>3 DEF OnlySale
<1>7. Flagged(tx'[t])
  BY <1>2 DEF Becomes, Flagged
<1>8. RecordTells(t)'
  <2>1. /\ tx'[t].session = "completed" /\ ~tx'[t].cancelled /\ vended'[t] > 0
        /\ CanConfirm(tx'[t])
    BY <1>1, <1>2, <1>3 DEF RecordTells, HandedOver, Becomes, SameMoney, CanConfirm
  <2>2. /\ tx'[t].recovery \in {"pending", "manual_review"}
        /\ tx'[t].status \in {"faulted", "pickup_timed_out"}
    BY <1>2 DEF Becomes
  <2>. QED
    BY <2>1, <2>2 DEF RecordTells, Born
<1>9. PlaceKept(t)'
  BY <1>1, <1>2, <1>3, <1>5 DEF PlaceKept, LocksStay, HandedOver, Becomes
<1>10. /\ SalesTell' /\ CheckoutAt' /\ ValidatorAt'
       /\ BillsAreOurs' /\ CashCounted' /\ AcceptingFor'
       /\ \A u \in Tx : HandedOver(u) => HandedOver(u)'
  <2>1. /\ tx'[t].session = tx[t].session /\ tx'[t].accepted = tx[t].accepted
        /\ tx'[t].status # "unborn"
    BY <1>2 DEF Becomes, SameMoney
  <2>. QED
    BY <1>1, <1>3, <1>4, <1>5, <1>6, <1>8, <1>9, <2>1, ClosingFrame DEF Born
<1>11. ClosersAt'
  <2>1. pc'["confirm"] = "close" => Locked'
    BY <1>4, <1>5
  <2>. QED
    BY <1>4, <1>10, <2>1, OnSale, TaskNames, LabelNames DEF ContractInvariant, ClosersAt
<1>12. WindowFor'
  BY <1>2, <1>3, <1>5 DEF ContractInvariant, WindowFor, LocksStay, Becomes
<1>13. ContractStep
  BY <1>2, <1>3, <1>7, HoldsSale
<1>. QED
  BY <1>4, <1>10, <1>11, <1>12, <1>13 DEF ContractInvariant

-----------------------------------------------------------------------------
(* The bills.                                                              *)

LEMMA EventTaken ==
    ASSUME ContractBasic, BornFirst', Basic', TakeEvent
    PROVE  ContractInvariant' /\ ContractStep
<1> USE DEF ContractBasic, OnceBasic
<1>1. /\ UNCHANGED <<fsm, shown, blockers, active, tx, cached, inserted, paid, vended, queue,
                     accepting, window>>
      /\ pc["validator"] = "rest"
  BY DEF TakeEvent
<1>2. FsmAside /\ LocksStay
  BY <1>1 DEF FsmAside, LocksStay, Locked, Halted
<1>3. /\ NobodyCancels' /\ pc'["validator"] = "event"
      /\ \A k \in {"checkout", "confirm", "timeout"} : pc'[k] = pc[k] /\ on'[k] = on[k]
  BY TaskAlone, TaskNames DEF TakeEvent
<1>4. on'["validator"] = active
  BY TaskNames DEF TakeEvent, Start, Basic, TypeOK
<1>5. SalesTell'
  BY <1>1, <1>2, OthersTell, StateAssumption DEF OnlySale
<1>6. CheckoutAt'
  BY <1>1, <1>2, <1>3, CheckoutFrame DEF Born, BillWaits
<1>7. ValidatorAt'
  BY <1>3 DEF ValidatorAt, Completing
<1>8. ClosersAt'
  BY <1>1, <1>2, <1>3, ClosersFrame, StateAssumption DEF OnlySale, Completing
<1>9. BillsAreOurs' /\ CashCounted'
  BY <1>1, <1>4 DEF ContractInvariant, BillsAreOurs, CashCounted, BillWaits
<1>10. AcceptingFor' /\ WindowFor'
  BY <1>1, <1>2 DEF ContractInvariant, AcceptingFor, WindowFor, LocksStay
<1>11. ContractStep
  BY <1>1, Stutters
<1>. QED
  BY <1>3, <1>5, <1>6, <1>7, <1>8, <1>9, <1>10, <1>11 DEF ContractInvariant

(* Once an event has been taken off the queue, or past it, no bill waits.  *)
LEMMA NoBillLeft ==
    ASSUME OnceBasic
    PROVE  /\ pc["validator"] = "event" /\ queue' = Tail(queue) => ~BillWaits'
           /\ pc["validator"] \notin {"rest", "event"} => ~BillWaits
<1>1. ASSUME pc["validator"] = "event", queue' = Tail(queue)
      PROVE  ~BillWaits'
  <2>1. queue # << >> /\ queue \in Seq(ValidatorEvents) /\ HoldsNoBill(Tail(queue))
    BY <1>1 DEF OnceBasic, OnceInvariant, BillsOneByOne, Basic, EventInQueue, TypeOK
  <2>2. Tail(queue) \in Seq(ValidatorEvents)
    BY <2>1
  <2>. QED
    BY <1>1, <2>1, <2>2, NoBillBehind DEF BillWaits
<1>2. ASSUME pc["validator"] \notin {"rest", "event"}
      PROVE  ~BillWaits
  BY <1>2 DEF OnceBasic, OnceInvariant, BillsOneByOne, BillWaits
<1>. QED
  BY <1>1, <1>2

LEMMA BillCredited ==
    ASSUME ContractBasic, BornFirst', Basic', CreditBill
    PROVE  ContractInvariant' /\ ContractStep
<1> USE DEF ContractBasic, OnceBasic
<1>1. BillWaits
  BY DEF CreditBill, Basic, EventInQueue, BillWaits
<1>2. PICK t \in Tx : t = on["validator"]
  BY <1>1 DEF CreditBill, ContractInvariant, BillsAreOurs
<1>3. /\ tx[t] \in TransactionRecords /\ active = t /\ tx[t].session = "accepting"
      /\ RecordTells(t) /\ PlaceKept(t) /\ paid[t] + Price * vended[t] <= inserted[t]
  BY <1>1, <1>2
  DEF CreditBill, ContractInvariant, BillsAreOurs, SalesTell, Basic, TypeOK
<1>4. t # NoTx /\ CanStack(tx[t])
  BY <1>3, StateAssumption DEF CanStack, RecordTells
<1>5. PICK bill \in Nat : bill = Head(queue).bill
  BY EventTyped DEF CreditBill, ValidatorEvents, Basic, EventInQueue
<1>6. Put(t, RecordStackedCash(tx[t], bill)) /\ Go("validator", "credited")
  BY <1>2, <1>3, <1>4, <1>5 DEF CreditBill, RecordTells
<1>7. /\ UNCHANGED <<fsm, shown, blockers, active, cached, inserted, paid, vended, accepting,
                     window>>
      /\ ~BillWaits' /\ pc["validator"] = "event"
  BY <1>2, <1>4, NoBillLeft, <1>3 DEF CreditBill, CanStack
<1>8. LET r == tx[t]
          s == tx'[t]
      IN  /\ s.accepted = r.accepted + bill
          /\ s.status = r.status /\ s.recovery = r.recovery /\ s.session = r.session
          /\ s.cancelled = r.cancelled
          /\ \A u \in Tx : u # t => tx'[u] = tx[u]
  BY <1>3, <1>6, CashSets DEF Put, Basic, TypeOK
<1>9. FsmAside /\ LocksStay
  BY <1>7 DEF FsmAside, LocksStay, Locked, Halted
<1>10. /\ NobodyCancels' /\ pc'["validator"] = "credited"
       /\ \A k \in {"checkout", "confirm", "timeout"} : pc'[k] = pc[k] /\ on'[k] = on[k]
  BY <1>6, TaskAlone, TaskNames
<1>11. on'["validator"] = t
  BY <1>2, <1>6 DEF Go
<1>12. OnlySale(t)
  BY <1>7, <1>8 DEF OnlySale
<1>13. Phase(t)' = Phase(t) /\ Flagged(tx'[t]) = Flagged(tx[t])
  BY <1>7, <1>8 DEF Phase, PhaseOf, Flagged
<1>14. SalesTell'
  <2>1. RecordTells(t)'
    BY <1>3, <1>7, <1>8, <1>13 DEF RecordTells, Born, UnbornTransaction
  <2>2. PlaceKept(t)'
    BY <1>3, <1>7, <1>8, <1>9, <1>13 DEF PlaceKept, Unfinished, LocksStay
  <2>. QED
    BY <1>3, <1>7, <1>9, <1>12, <2>1, <2>2, OthersTell DEF SaleTells
<1>15. CheckoutAt'
  <2>1. pc["checkout"] \notin {"stop", "enable"}
    BY <1>1, <1>3 DEF ContractInvariant, CheckoutAt
  <2>2. pc["checkout"] = "sensor" => on["checkout"] \in Tx
    BY OnSale, TaskNames, LabelNames
  <2>. QED
    BY <1>8, <1>10, <2>1, <2>2 DEF ContractInvariant, CheckoutAt, Born
<1>16. ValidatorAt'
  BY <1>3, <1>7, <1>8, <1>10, <1>11 DEF ValidatorAt, Completing
<1>17. ClosersAt'
  BY <1>3, <1>7, <1>9, <1>10, <1>12, ClosersFrame DEF HandedOver, Completing
<1>18. BillsAreOurs' /\ CashCounted'
  <2>1. inserted[t] = tx[t].accepted + bill
    BY <1>1, <1>3, <1>5 DEF ContractInvariant, CashCounted
  <2>2. \A u \in Tx : u # t => inserted[u] = tx[u].accepted + 0
    BY <1>3 DEF ContractInvariant, CashCounted
  <2>3. tx[t].accepted \in Nat
    BY <1>3 DEF TransactionRecords
  <2>. QED
    BY <1>7, <1>8, <2>1, <2>2, <2>3 DEF BillsAreOurs, CashCounted
<1>19. AcceptingFor' /\ WindowFor'
  BY <1>3, <1>7, <1>8, <1>9 DEF ContractInvariant, AcceptingFor, WindowFor, LocksStay
<1>20. ContractStep
  BY <1>7, <1>8, <1>13, Stutters DEF Phase
<1>. QED
  BY <1>10, <1>14, <1>15, <1>16, <1>17, <1>18, <1>19, <1>20 DEF ContractInvariant

LEMMA BillInserted ==
    ASSUME Undisturbed, ContractBasic, BornFirst', Basic', NEW b \in Bills, InsertBill(b)
    PROVE  ContractInvariant' /\ ContractStep
<1> USE DEF ContractBasic, OnceBasic
<1>1. /\ queue = << >> /\ pc["validator"] = "rest" /\ accepting
      /\ active # NoTx
  BY Regime DEF InsertBill, CountedUp, UnhurriedCustomers
<1>2. PICK t \in Tx : t = active
  BY <1>1 DEF Basic, TypeOK, SaleIds
<1>3. /\ tx[t].session = "accepting" /\ tx[t] \in TransactionRecords
      /\ RecordTells(t) /\ PlaceKept(t) /\ paid[t] + Price * vended[t] <= inserted[t]
  BY <1>1, <1>2 DEF ContractInvariant, AcceptingFor, SalesTell, Basic, TypeOK
<1>4. /\ UNCHANGED <<fsm, shown, blockers, active, tx, cached, paid, vended, accepting,
                     window, pc, on>>
      /\ queue' = << [kind |-> "stacked", bill |-> b] >>
      /\ inserted' = [inserted EXCEPT ![t] = @ + b]
  BY <1>1, <1>2 DEF InsertBill
<1>5. b \in Nat /\ b > 0 /\ inserted \in [SaleIds -> Nat] /\ t \in SaleIds
  <2>1. b \in Nat \ {0}
    BY StateAssumption
  <2>2. b \in Nat /\ b > 0
    BY ONLY <2>1
  <2>. QED
    BY <2>2 DEF Basic, TypeOK, SaleIds
<1>6. /\ inserted'[t] = inserted[t] + b
      /\ \A u \in Tx : u # t => inserted'[u] = inserted[u]
  BY <1>4, <1>5 DEF SaleIds
<1>7. BillWaits' /\ Head(queue').bill = b /\ ~BillWaits
  BY <1>1, <1>4 DEF BillWaits
<1>8. SalesTell'
  <2> SUFFICES ASSUME NEW u \in Tx
               PROVE  SaleTells(u)'
    BY DEF SalesTell, SaleTells
  <2>1. RecordTells(u) /\ PlaceKept(u) /\ paid[u] + Price * vended[u] <= inserted[u]
    BY DEF ContractInvariant, SalesTell
  <2>2. RecordTells(u)'
    BY <1>4, <2>1 DEF RecordTells, Born
  <2>3. PlaceKept(u)'
    BY <1>4, <2>1 DEF PlaceKept, Unfinished, Phase, Locked, Halted
  <2>4. paid[u] + Price * vended[u] \in Nat /\ inserted[u] \in Nat /\ inserted'[u] >= inserted[u]
    <3>1. \A m, n \in Nat : m * n \in Nat
      OBVIOUS
    <3>2. Price * vended[u] \in Nat /\ paid[u] \in Nat
      BY <3>1, PriceAssumption DEF Basic, TypeOK
    <3>. QED
      BY <1>5, <1>6, <3>2 DEF SaleIds
  <2>5. paid'[u] + Price * vended'[u] <= inserted'[u]
    <3>1. inserted'[u] \in Nat
      BY DEF Basic, TypeOK, SaleIds
    <3>. QED
      BY <1>4, <2>1, <2>4, <3>1
  <2>. QED
    BY <2>2, <2>3, <2>5 DEF SaleTells
<1>9. CheckoutAt'
  BY <1>1, <1>4 DEF ContractInvariant, CheckoutAt, Born
<1>10. ValidatorAt' /\ ClosersAt'
  BY <1>1, <1>4
  DEF ContractInvariant, ValidatorAt, Completing, ClosersAt, HandedOver, Locked, Halted
<1>11. BillsAreOurs'
  BY <1>1, <1>2, <1>3, <1>4 DEF BillsAreOurs
<1>12. CashCounted'
  BY <1>2, <1>4, <1>6, <1>7, <1>3, <1>5 DEF ContractInvariant, CashCounted, TransactionRecords
<1>13. AcceptingFor' /\ WindowFor' /\ NobodyCancels'
  BY <1>4
  DEF ContractInvariant, AcceptingFor, WindowFor, Locked, Halted, NobodyCancels
<1>14. ContractStep
  <2>1. Phase(t) \in {"taking", "held"}
    BY <1>3, Phases DEF Phase, RecordTells
  <2>2. [v \in Tx |-> Phase(v)]' = [v \in Tx |-> Phase(v)]
    BY <1>4 DEF Phase
  <2>3. [v \in Tx |-> inserted[v]]' = [[v \in Tx |-> inserted[v]] EXCEPT ![t] = inserted'[t]]
    BY <1>6
  <2>4. inserted'[t] > inserted[t]
    BY <1>5, <1>6
  <2>5. Contract!TakeCash(t)
    <3>1. [v \in Tx |-> Phase(v)][t] \in {"taking", "held"}
      BY <2>1
    <3>. QED
      BY <1>4, <2>2, <2>3, <2>4, <3>1 DEF Contract!TakeCash, Contract!Grows
  <2>. QED
    BY <2>5 DEF ContractStep, Contract!ContractNext
<1>. QED
  BY <1>8, <1>9, <1>10, <1>11, <1>12, <1>13, <1>14 DEF ContractInvariant

(* A fault of the validator, perhaps late, holds the sale it reached.      *)
LEMMA FaultTaken ==
    ASSUME ContractBasic, BornFirst', Basic', ValidatorFault
    PROVE  ContractInvariant' /\ ContractStep
<1> USE DEF ContractBasic, OnceBasic
<1> DEFINE t == on["validator"]
<1>0. t = NoTx \/ t \in Tx
  BY TaskNames DEF Basic, TypeOK, SaleIds
<1>1. /\ UNCHANGED <<active, cached, inserted, paid, vended, accepting, window>>
      /\ pc["validator"] = "event" /\ ~BillWaits /\ ~BillWaits'
  BY NoBillLeft DEF ValidatorFault, BillWaits
<1>2. \/ t = NoTx /\ UNCHANGED <<fsm, shown, blockers, tx>>
      \/ /\ t \in Tx /\ Becomes(tx[t], tx'[t], "faulted", "pending")
         /\ \A u \in Tx : u # t => tx'[u] = tx[u]
         /\ Locked' /\ FsmAside /\ Go("validator", "dead")
  <2>1. CASE t = NoTx
    BY <2>1 DEF ValidatorFault
  <2>2. CASE t \in Tx
    <3>1. t # NoTx /\ ~tx[t].cancelled /\ tx[t] \in TransactionRecords
      BY <2>2, StateAssumption DEF ContractInvariant, SalesTell, RecordTells, Basic, TypeOK
    <3>2. Put(t, MarkFaulted(tx[t]))
      BY <3>1 DEF ValidatorFault
    <3>3. Becomes(tx[t], tx'[t], "faulted", "pending") /\ \A u \in Tx : u # t => tx'[u] = tx[u]
      BY <2>2, <3>1, <3>2, MethodsSet DEF Put, Basic, TypeOK
    <3>4. Locked' /\ Go("validator", "dead")
      BY <3>1 DEF ValidatorFault, Locked
    <3>5. FsmAside
      BY <3>1, Halts DEF ValidatorFault, FsmAside, Halted
    <3>. QED
      BY <2>2, <3>3, <3>4, <3>5
  <2>. QED
    BY <1>0, <2>1, <2>2
<1>3. FsmAside /\ LocksStay
  <2>1. CASE UNCHANGED <<fsm, shown, blockers>>
    BY <2>1 DEF FsmAside, LocksStay, Locked, Halted
  <2>2. CASE Locked' /\ FsmAside
    <3>1. BlockersStay
      BY DEF ValidatorFault, BlockersStay
    <3>. QED
      BY <2>2, <3>1, Stays
  <2>. QED
    BY <1>2, <2>1, <2>2
<1>4. /\ NobodyCancels' /\ pc'["validator"] \in {"rest", "dead"}
      /\ \A k \in {"checkout", "confirm", "timeout"} : pc'[k] = pc[k] /\ on'[k] = on[k]
  <2>1. Go("validator", "rest") \/ Go("validator", "dead")
    BY DEF ValidatorFault
  <2>. QED
    BY <2>1, TaskAlone, TaskNames
<1>5. \A u \in Tx : /\ tx'[u].session = tx[u].session /\ tx'[u].accepted = tx[u].accepted
                    /\ Born(u)' <=> Born(u)
  BY <1>1, <1>2 DEF Becomes, SameMoney, ContractInvariant, BornFirst, Born
<1>6. SalesTell'
  <2>1. CASE t = NoTx /\ UNCHANGED <<fsm, shown, blockers, tx>>
    BY <1>1, <1>3, <2>1, OthersTell, StateAssumption DEF OnlySale
  <2>2. CASE /\ t \in Tx /\ Becomes(tx[t], tx'[t], "faulted", "pending")
             /\ \A u \in Tx : u # t => tx'[u] = tx[u]
             /\ Locked' /\ FsmAside /\ Go("validator", "dead")
    <3>0. PICK s \in Tx : s = t
      BY <2>2
    <3>1. RecordTells(s) /\ paid[s] + Price * vended[s] <= inserted[s]
      BY DEF ContractInvariant, SalesTell
    <3>2. pc'["validator"] = "dead"
      BY <2>2, TaskAlone
    <3>3. RecordTells(s)'
      BY <1>1, <2>2, <3>0, <3>1
      DEF RecordTells, Becomes, SameMoney, CanConfirm, Flagged, Born, Delivered
    <3>4. PlaceKept(s)'
      BY <2>2, <3>2 DEF PlaceKept
    <3>5. OnlySale(s)
      BY <1>1, <2>2, <3>0 DEF OnlySale
    <3>. QED
      BY <1>1, <1>3, <3>1, <3>2, <3>3, <3>4, <3>5, OthersTell DEF SaleTells
  <2>. QED
    BY <1>2, <2>1, <2>2
<1>7. CheckoutAt'
  BY <1>1, <1>3, <1>4, <1>5, CheckoutFrame
<1>8. ValidatorAt'
  BY <1>4 DEF ValidatorAt, Completing
<1>9. ClosersAt'
  <2>1. /\ pc["confirm"] = "close" => on["confirm"] \in Tx
        /\ pc["timeout"] \in {"elapsed", "close"} => on["timeout"] \in Tx
    BY OnSale, TaskNames, LabelNames
  <2>2. \A u \in Tx : HandedOver(u) => HandedOver(u)'
    BY <1>1, <1>4, <1>5 DEF HandedOver, Completing
  <2>3. Locked' \/ tx' = tx
    BY <1>2
  <2>. QED
    BY <1>1, <1>3, <1>4, <2>1, <2>2, <2>3 DEF ContractInvariant, ClosersAt, LocksStay
<1>10. BillsAreOurs' /\ CashCounted'
  BY <1>1, <1>5 DEF BillsAreOurs, ContractInvariant, CashCounted
<1>11. AcceptingFor' /\ WindowFor'
  BY <1>1, <1>2, <1>3, <1>5 DEF ContractInvariant, AcceptingFor, WindowFor, LocksStay
<1>12. ContractStep
  <2>1. CASE t = NoTx /\ UNCHANGED <<fsm, shown, blockers, tx>>
    BY <1>1, <2>1, Stutters
  <2>2. CASE /\ t \in Tx /\ Becomes(tx[t], tx'[t], "faulted", "pending")
             /\ \A u \in Tx : u # t => tx'[u] = tx[u]
    <3>1. Flagged(tx'[t])
      BY <2>2 DEF Becomes, Flagged
    <3>. QED
      BY <1>1, <2>2, <3>1, HoldsSale
  <2>. QED
    BY <1>2, <2>1, <2>2
<1>. QED
  BY <1>4, <1>6, <1>7, <1>8, <1>9, <1>10, <1>11, <1>12 DEF ContractInvariant

(* The sale that the validator task has just credited a bill to.           *)
LEMMA Credited ==
    ASSUME ContractBasic, NEW t, t = on["validator"], pc["validator"] = "credited"
    PROVE  /\ t \in Tx /\ tx[t] \in TransactionRecords
           /\ active = t /\ tx[t].session = "accepting"
           /\ RecordTells(t) /\ PlaceKept(t) /\ paid[t] + Price * vended[t] <= inserted[t]
           /\ ~BillWaits /\ pc["checkout"] \notin {"stop", "enable"}
<1> USE DEF ContractBasic, OnceBasic
<1>1. t \in Tx
  BY OnSale, TaskNames, LabelNames
<1>2. active = t /\ tx[t].session = "accepting"
  BY DEF ContractInvariant, ValidatorAt
<1>3. RecordTells(t) /\ PlaceKept(t) /\ paid[t] + Price * vended[t] <= inserted[t]
  BY <1>1 DEF ContractInvariant, SalesTell
<1>4. ~BillWaits /\ pc["checkout"] \notin {"stop", "enable"}
  BY <1>2, NoBillLeft DEF ContractInvariant, CheckoutAt
<1>. QED
  BY <1>1, <1>2, <1>3, <1>4 DEF Basic, TypeOK

LEMMA BillLeft ==
    ASSUME ContractBasic, BornFirst', Basic', BillNotEnough
    PROVE  ContractInvariant' /\ ContractStep
<1> USE DEF ContractBasic, OnceBasic
<1>0. PICK t \in Tx : t = on["validator"]
  BY Credited DEF BillNotEnough
<1>1. active = t /\ tx[t].session = "accepting" /\ ~BillWaits
  BY <1>0, Credited DEF BillNotEnough
<1>2. /\ UNCHANGED <<fsm, shown, blockers, active, tx, cached, inserted, paid, vended, queue,
                     accepting, window>>
      /\ pc["validator"] = "credited"
  BY DEF BillNotEnough
<1>3. FsmAside /\ LocksStay
  BY <1>2 DEF FsmAside, LocksStay, Locked, Halted
<1>4. /\ NobodyCancels' /\ pc'["validator"] = "rest"
      /\ \A k \in {"checkout", "confirm", "timeout"} : pc'[k] = pc[k] /\ on'[k] = on[k]
  BY TaskAlone, TaskNames DEF BillNotEnough
<1>5. SalesTell'
  BY <1>2, <1>3, OthersTell, StateAssumption DEF OnlySale
<1>6. CheckoutAt'
  BY <1>2, <1>3, <1>4, CheckoutFrame DEF Born, BillWaits
<1>7. ValidatorAt'
  BY <1>4 DEF ValidatorAt, Completing
<1>8. ClosersAt'
  BY <1>2, <1>3, <1>4, ClosersFrame, StateAssumption DEF OnlySale, Completing
<1>9. BillsAreOurs' /\ CashCounted'
  BY <1>1, <1>2 DEF ContractInvariant, BillsAreOurs, CashCounted, BillWaits
<1>10. AcceptingFor' /\ WindowFor'
  BY <1>1, <1>2, <1>3 DEF ContractInvariant, AcceptingFor, WindowFor, LocksStay
<1>11. ContractStep
  BY <1>2, Stutters
<1>. QED
  BY <1>4, <1>5, <1>6, <1>7, <1>8, <1>9, <1>10, <1>11 DEF ContractInvariant

(* The price is reached: the session is completed before anything is paid. *)
LEMMA PaymentCompletes ==
    ASSUME ContractBasic, BornFirst', Basic', BeginCompletion
    PROVE  ContractInvariant' /\ ContractStep
<1> USE DEF ContractBasic, OnceBasic
<1>0. PICK t \in Tx : t = on["validator"]
  BY Credited DEF BeginCompletion
<1>1. /\ tx[t] \in TransactionRecords
      /\ active = t /\ tx[t].session = "accepting" /\ CanConfirm(tx[t])
      /\ RecordTells(t) /\ PlaceKept(t) /\ paid[t] + Price * vended[t] <= inserted[t]
      /\ ~BillWaits /\ pc["checkout"] \notin {"stop", "enable"}
  BY <1>0, Credited DEF BeginCompletion
<1>2. /\ UNCHANGED <<fsm, shown, blockers, active, cached, inserted, paid, vended, queue,
                     accepting, window>>
      /\ pc["validator"] = "credited"
  BY DEF BeginCompletion
<1>3. LET r == tx[t]
          s == tx'[t]
      IN  /\ s.status = "payment_accepted" /\ s.session = "completed"
          /\ s.recovery = r.recovery /\ s.cancelled = r.cancelled
          /\ s.accepted = r.accepted
          /\ \A u \in Tx : u # t => tx'[u] = tx[u]
  BY <1>0, <1>1, ConfirmSets, ConfirmDue DEF BeginCompletion, Put, Basic, TypeOK
<1>4. FsmAside /\ LocksStay /\ (Locked' <=> Locked) /\ (Halted' <=> Halted)
  BY <1>2 DEF FsmAside, LocksStay, Locked, Halted
<1>5. /\ NobodyCancels' /\ pc'["validator"] = "disable"
      /\ \A k \in {"checkout", "confirm", "timeout"} : pc'[k] = pc[k] /\ on'[k] = on[k]
  BY TaskAlone, TaskNames DEF BeginCompletion
<1>6. on'["validator"] = t
  BY <1>0 DEF BeginCompletion, Go
<1>7. OnlySale(t)
  BY <1>2, <1>3 DEF OnlySale
<1>8. Flagged(tx'[t]) <=> Flagged(tx[t])
  BY <1>1, <1>3 DEF Flagged, RecordTells
<1>9. vended[t] = 0 /\ paid[t] = 0 /\ t \notin cached
  BY <1>1 DEF RecordTells
<1>10. Phase(t)' = Phase(t)
  <2>1. ~(vended[t] > 0) /\ vended'[t] = vended[t]
    BY <1>2, <1>9
  <2>2. tx[t].status # "completed" \/ Flagged(tx[t])
    BY <1>1 DEF RecordTells
  <2>. QED
    BY <1>1, <1>3, <1>8, <2>1, <2>2, Phases DEF Phase
<1>11. SalesTell'
  <2>1. RecordTells(t)'
    BY <1>1, <1>3, <1>8, <1>9 DEF RecordTells, Born, Flagged, Delivered, CanConfirm
  <2>2. PlaceKept(t)'
    BY <1>1, <1>2, <1>3, <1>4, <1>8 DEF PlaceKept
  <2>. QED
    BY <1>1, <1>2, <1>4, <1>7, <2>1, <2>2, OthersTell DEF SaleTells
<1>12. CheckoutAt'
  <2>1. pc["checkout"] = "sensor" => on["checkout"] \in Tx
    BY OnSale, TaskNames, LabelNames
  <2>2. Born(t)
    BY <1>1 DEF RecordTells, UnbornTransaction
  <2>3. pc'["checkout"] \notin {"stop", "enable"}
    BY <1>1, <1>5
  <2>4. pc'["checkout"] = "sensor" => ~Born(on["checkout"]) /\ on["checkout"] # t
    BY <1>5, <2>2 DEF ContractInvariant, CheckoutAt
  <2>5. pc'["checkout"] = "sensor" => ~Born(on["checkout"])'
    BY <1>3, <1>5, <2>1, <2>4 DEF Born
  <2>. QED
    BY <2>3, <2>5 DEF CheckoutAt
<1>13. ValidatorAt'
  <2>1. Flagged(tx'[t]) => Halted'
    BY <1>1, <1>2, <1>4, <1>8 DEF PlaceKept
  <2>. QED
    BY <1>1, <1>2, <1>3, <1>5, <1>6, <1>9, <2>1 DEF ValidatorAt, Completing
<1>14. ClosersAt'
  BY <1>1, <1>2, <1>4, <1>5, <1>6, <1>7, ClosersFrame DEF HandedOver, Completing
<1>15. BillsAreOurs' /\ CashCounted'
  BY <1>1, <1>2, <1>3, BillsFrame
<1>16. AcceptingFor' /\ WindowFor'
  <2>1. window = "open" => Locked
    BY <1>1, <1>9 DEF ContractInvariant, WindowFor
  <2>. QED
    BY <1>1, <1>2, <1>4, <1>5, <2>1 DEF AcceptingFor, WindowFor
<1>17. ContractStep
  BY <1>2, <1>3, <1>10, Stutters DEF Phase
<1>. QED
  BY <1>5, <1>11, <1>12, <1>13, <1>14, <1>15, <1>16, <1>17 DEF ContractInvariant

-----------------------------------------------------------------------------
(* The completion of a payment.                                            *)

(* The sale in the hands of the validator task past the threshold.         *)
InHand(t) ==
    /\ t \in Tx /\ t = on["validator"] /\ tx[t] \in TransactionRecords
    /\ active = t /\ tx[t].session = "completed"
    /\ RecordTells(t) /\ PlaceKept(t) /\ paid[t] + Price * vended[t] <= inserted[t]
    /\ ~BillWaits /\ inserted[t] = tx[t].accepted

LEMMA CompletingInHand ==
    ASSUME ContractBasic, Completing
    PROVE  InHand(on["validator"])
<1> USE DEF ContractBasic, OnceBasic
<1>0. PICK t \in Tx : t = on["validator"]
  BY CompletingOnSale
<1>1. tx[t] \in TransactionRecords /\ active = t /\ tx[t].session = "completed"
  BY <1>0 DEF ContractInvariant, ValidatorAt, Basic, TypeOK
<1>2. RecordTells(t) /\ PlaceKept(t) /\ paid[t] + Price * vended[t] <= inserted[t]
  BY DEF ContractInvariant, SalesTell
<1>3. ~BillWaits
  BY NoBillLeft DEF Completing
<1>4. inserted[t] = tx[t].accepted + 0
  BY <1>3 DEF ContractInvariant, CashCounted
<1>5. inserted[t] = tx[t].accepted
  BY <1>1, <1>4 DEF TransactionRecords
<1>. QED
  BY <1>0, <1>1, <1>2, <1>3, <1>5 DEF InHand

(* The rest of the machine while the validator task works on its sale.     *)
LEMMA CompletionFrame ==
    ASSUME ContractBasic, Completing, NEW t, t = on["validator"],
           NEW label, Go("validator", label), label \notin {"event", "credited"},
           OnlySale(t), LocksStay, UNCHANGED <<inserted, queue>>,
           cached' \subseteq cached \cup {t},
           tx'[t].session = "completed", tx'[t].accepted = tx[t].accepted, Born(t)',
           active' = active \/ (Locked' /\ ClearActive(t)),
           accepting' => /\ accepting /\ active' = active
                         /\ label = "dead" /\ Flagged(tx'[t]) /\ vended'[t] = 0,
           window' = "open" => Locked' \/ ( /\ active' = active /\ vended'[t] > 0
                                           /\ tx'[t].status # "completed" ),
           SaleTells(t)'
    PROVE  /\ NobodyCancels' /\ SalesTell' /\ CheckoutAt' /\ ClosersAt'
           /\ BillsAreOurs' /\ CashCounted' /\ AcceptingFor' /\ WindowFor'
           /\ pc'["validator"] = label /\ (label \notin {"rest", "dead"} => on'["validator"] = t)
<1> USE DEF ContractBasic, OnceBasic
<1>1. InHand(t)
  BY CompletingInHand
<1>2. /\ NobodyCancels' /\ pc'["validator"] = label
      /\ \A k \in {"checkout", "confirm", "timeout"} : pc'[k] = pc[k] /\ on'[k] = on[k]
  BY TaskAlone, TaskNames
<1>3. label \notin {"rest", "dead"} => on'["validator"] = t
  BY DEF Go
<1>4. \A u \in Tx : u # t => tx'[u] = tx[u]
  BY DEF OnlySale
<1>5. SalesTell'
  <2>1. pc["validator"] # "dead"
    BY DEF Completing
  <2>2. \A u \in Tx \ {t} : active # u
    BY <1>1 DEF InHand
  <2>. QED
    BY <2>1, <2>2, OthersTell
<1>6. CheckoutAt'
  <2>1. pc["checkout"] \notin {"stop", "enable"}
    BY <1>1 DEF ContractInvariant, CheckoutAt, InHand
  <2>2. Born(t)
    BY <1>1 DEF InHand, RecordTells, UnbornTransaction
  <2>3. pc["checkout"] = "sensor" => on["checkout"] \in Tx
    BY OnSale, TaskNames, LabelNames
  <2>. QED
    BY <1>2, <1>4, <2>1, <2>2, <2>3 DEF ContractInvariant, CheckoutAt, Born
<1>7. ClosersAt'
  <2>1. ~HandedOver(t)
    BY DEF HandedOver
  <2>2. Completing' => on'["validator"] = t
    BY <1>2, <1>3 DEF Completing
  <2>. QED
    BY <1>2, <2>1, <2>2, ClosersFrame
<1>8. BillsAreOurs' /\ CashCounted'
  <2>1. \A u \in Tx : tx'[u].accepted = tx[u].accepted
    BY <1>4
  <2>. QED
    BY <1>1, <2>1, BillsFrame DEF InHand
<1>9. AcceptingFor' /\ WindowFor'
  BY <1>1, <1>2 DEF InHand, AcceptingFor, WindowFor
<1>. QED
  BY <1>2, <1>3, <1>5, <1>6, <1>7, <1>8, <1>9

(* What the record of that sale says after a method of it.                 *)
LEMMA HandTells ==
    ASSUME NEW t, InHand(t), NEW status, NEW recovery,
           Becomes(tx[t], tx'[t], status, recovery),
           status \notin {"unborn", "cancelled"},
           status \in {"faulted", "ambiguous", "pickup_timed_out"} => recovery # "none",
           tx[t].recovery # "none" => recovery # "none",
           status \in Delivered => vended'[t] > 0,
           active' = t \/ Locked',
           Flagged(tx'[t]) => Locked' \/ status \in {"faulted", "ambiguous"}
    PROVE  /\ RecordTells(t)' /\ PlaceKept(t)'
           /\ tx'[t].session = "completed" /\ tx'[t].accepted = tx[t].accepted /\ Born(t)'
           /\ tx'[t].status = status /\ tx'[t].due = tx[t].due
<1>1. /\ tx'[t].session = "completed" /\ ~tx'[t].cancelled /\ CanConfirm(tx'[t])
      /\ tx'[t].status = status /\ tx'[t].recovery = recovery
      /\ tx'[t].accepted = tx[t].accepted /\ tx'[t].due = tx[t].due
  BY DEF InHand, RecordTells, Becomes, SameMoney, CanConfirm
<1>2. RecordTells(t)'
  BY <1>1 DEF RecordTells, Born, Flagged
<1>3. PlaceKept(t)'
  BY <1>1 DEF PlaceKept
<1>. QED
  BY <1>1, <1>2, <1>3 DEF Born

(* A sale in hand that is not released yet and not in trouble.             *)
LEMMA StillTaking ==
    ASSUME NEW t, InHand(t), UNCHANGED <<vended, paid, inserted>>, vended[t] = 0,
           tx'[t].session = "completed", tx'[t].status # "completed",
           Flagged(tx'[t]) <=> Flagged(tx[t]), \A u \in Tx : u # t => tx'[u] = tx[u]
    PROVE  ContractStep
<1>1. tx[t].status # "completed"
  BY DEF InHand, RecordTells, Delivered
<1>2. PhaseOf(tx'[t], vended[t]) = PhaseOf(tx[t], vended[t])
  BY <1>1, Phases DEF InHand
<1>. QED
  BY <1>2, Stutters

LEMMA AcceptanceCloses ==
    ASSUME ContractBasic, BornFirst', Basic', CompletionDisabled
    PROVE  ContractInvariant' /\ ContractStep
<1> USE DEF ContractBasic, OnceBasic
<1>0. PICK t \in Tx : t = on["validator"]
  BY OnSale, TaskNames, LabelNames DEF CompletionDisabled
<1>1. /\ Completing /\ InHand(t)
      /\ vended[t] = 0 /\ paid[t] = 0 /\ t \notin cached
      /\ Flagged(tx[t]) => Halted
      /\ tx[t].due = tx[t].accepted - Price
  BY <1>0, CompletingInHand
  DEF CompletionDisabled, Completing, ContractInvariant, ValidatorAt, OnceInvariant,
      CompletesOnce, ChangeIsDue
<1>2. /\ UNCHANGED <<blockers, active, inserted, paid, vended, queue, window>>
      /\ accepting' = FALSE /\ cached' = cached \cup {t}
  BY <1>0, <1>1 DEF CompletionDisabled, DisableWithId
<1>3. PICK status \in {tx[t].status, "dispensing_change"} :
          /\ Becomes(tx[t], tx'[t], status, tx[t].recovery)
          /\ \A u \in Tx : u # t => tx'[u] = tx[u]
  <2>1. tx[t] \in TransactionRecords /\ TypeOK
    BY <1>1 DEF InHand, Basic
  <2>2. Becomes(tx[t], tx[t], tx[t].status, tx[t].recovery)
    BY DEF Becomes, SameMoney
  <2>3. \/ tx' = tx \/ Put(t, ReleaseReserve(tx[t])) \/ Put(t, MarkChangePending(tx[t]))
    BY <1>0 DEF CompletionDisabled
  <2>. QED
    BY <2>1, <2>2, <2>3, MethodsSet DEF Put, TypeOK
<1>4. PICK label \in {"dead", "paid", "payout", "repay"} :
          /\ Go("validator", label)
          /\ label = "dead" \/ MayEnter(fsm, "PAYMENT_ACCEPTED")
          /\ label = "paid" => tx[t].due = 0
          /\ label = "payout" => tx[t].due > 0 /\ tx'[t].reserve
          /\ label = "dead" => UNCHANGED <<fsm, shown>>
  <2>1. tx[t] \in TransactionRecords /\ TypeOK
    BY <1>1 DEF InHand, Basic
  <2>2. ASSUME Put(t, MarkChangePending(tx[t]))
        PROVE  tx'[t].reserve
    BY <2>1, <2>2, MethodsPay DEF Put, TypeOK
  <2>. QED
    BY <1>0, <2>2 DEF CompletionDisabled
<1>5. LocksStay /\ (MayEnter(fsm, "PAYMENT_ACCEPTED") => ~Halted)
  <2>1. MayEnter(fsm, "PAYMENT_ACCEPTED") => ~Halted
    BY Waits DEF Basic
  <2>. QED
    BY <1>2, <1>4, <2>1 DEF LocksStay, Locked, Halted
<1>6. OnlySale(t)
  BY <1>2, <1>3 DEF OnlySale
<1>7. Flagged(tx'[t]) => Flagged(tx[t])
  BY <1>3 DEF Becomes, Flagged
<1>8. Flagged(tx'[t]) <=> Flagged(tx[t])
  BY <1>1, <1>3, <1>7 DEF Becomes, Flagged, InHand, RecordTells
<1>9. SaleTells(t)' /\ tx'[t].session = "completed" /\ tx'[t].accepted = tx[t].accepted
        /\ Born(t)' /\ tx'[t].status = status /\ tx'[t].due = tx[t].due
  <2>1. /\ status \notin {"unborn", "cancelled"} /\ status \notin Delivered
        /\ status \in {"faulted", "ambiguous", "pickup_timed_out"} => tx[t].recovery # "none"
    BY <1>1, <1>3 DEF InHand, RecordTells, Born, UnbornTransaction, Delivered, Flagged
  <2>2. Flagged(tx'[t]) => Locked'
    BY <1>1, <1>5, <1>7 DEF LocksStay, Locked
  <2>3. active' = t
    BY <1>1, <1>2 DEF InHand
  <2>4. paid'[t] + Price * vended'[t] <= inserted'[t]
    BY <1>1, <1>2 DEF InHand
  <2>. QED
    BY <1>1, <1>3, <2>1, <2>2, <2>3, <2>4, HandTells DEF SaleTells
<1>10. window = "open" => Locked
  BY <1>1 DEF ContractInvariant, WindowFor, InHand
<1>11. /\ NobodyCancels' /\ SalesTell' /\ CheckoutAt' /\ ClosersAt'
       /\ BillsAreOurs' /\ CashCounted' /\ AcceptingFor' /\ WindowFor'
       /\ pc'["validator"] = label /\ (label \notin {"rest", "dead"} => on'["validator"] = t)
  BY <1>0, <1>1, <1>2, <1>4, <1>5, <1>6, <1>9, <1>10, CompletionFrame DEF LocksStay
<1>12. ValidatorAt'
  <2>1. label # "dead" => ~Flagged(tx'[t])
    BY <1>1, <1>4, <1>5, <1>7
  <2>. QED
    BY <1>1, <1>2, <1>4, <1>9, <1>11, <2>1 DEF ValidatorAt, Completing, InHand
<1>13. ContractStep
  <2>1. status # "completed"
    BY <1>1 DEF InHand, RecordTells, Delivered
  <2>. QED
    BY <1>1, <1>2, <1>3, <1>8, <1>9, <2>1, StillTaking
<1>. QED
  BY <1>11, <1>12, <1>13 DEF ContractInvariant

LEMMA AcceptanceNotClosed ==
    ASSUME ContractBasic, BornFirst', Basic', CompletionDisableFails
    PROVE  ContractInvariant' /\ ContractStep
<1> USE DEF ContractBasic, OnceBasic
<1>0. PICK t \in Tx : t = on["validator"]
  BY OnSale, TaskNames, LabelNames DEF CompletionDisableFails
<1>1. Completing /\ InHand(t) /\ vended[t] = 0
  BY <1>0, CompletingInHand
  DEF CompletionDisableFails, Completing, OnceInvariant, CompletesOnce
<1>2. /\ UNCHANGED <<blockers, active, cached, inserted, paid, vended, queue, window>>
      /\ accepting' => accepting
      /\ Go("validator", "dead")
  <2>1. accepting' \in {accepting, FALSE}
    BY DEF CompletionDisableFails, DisableFails
  <2>2. accepting' => accepting
    BY <2>1
  <2>. QED
    BY <2>2 DEF CompletionDisableFails, DisableFails
<1>3. /\ Becomes(tx[t], tx'[t], "ambiguous", "manual_review")
      /\ \A u \in Tx : u # t => tx'[u] = tx[u]
  BY <1>0, <1>1, MethodsSet DEF CompletionDisableFails, DisableFails, Put, Basic, TypeOK, InHand
<1>4. Halted' /\ Locked' /\ LocksStay
  BY Halts DEF CompletionDisableFails, DisableFails, LocksStay, Locked
<1>5. OnlySale(t) /\ Flagged(tx'[t])
  BY <1>2, <1>3 DEF OnlySale, Becomes, Flagged
<1>6. SaleTells(t)' /\ tx'[t].session = "completed" /\ tx'[t].accepted = tx[t].accepted
        /\ Born(t)'
  <2>1. paid'[t] + Price * vended'[t] <= inserted'[t]
    BY <1>1, <1>2 DEF InHand
  <2>2. "ambiguous" \notin Delivered
    BY DEF Delivered
  <2>3. /\ RecordTells(t)' /\ PlaceKept(t)'
        /\ tx'[t].session = "completed" /\ tx'[t].accepted = tx[t].accepted /\ Born(t)'
    BY <1>1, <1>3, <1>4, <2>2, HandTells
  <2>. QED
    BY <2>1, <2>3 DEF SaleTells
<1>7. /\ NobodyCancels' /\ SalesTell' /\ CheckoutAt' /\ ClosersAt'
      /\ BillsAreOurs' /\ CashCounted' /\ AcceptingFor' /\ WindowFor'
      /\ pc'["validator"] = "dead"
  BY <1>0, <1>1, <1>2, <1>4, <1>5, <1>6, CompletionFrame
<1>8. ValidatorAt'
  BY <1>7 DEF ValidatorAt, Completing
<1>9. ContractStep
  BY <1>2, <1>3, <1>5, HoldsSale
<1>. QED
  BY <1>7, <1>8, <1>9 DEF ContractInvariant

(* Nobody takes the reserve away while the change is announced.            *)
LEMMA ChangeAsked ==
    ASSUME ContractBasic, BornFirst', Basic', RequestChange
    PROVE  ContractInvariant' /\ ContractStep
<1> USE DEF ContractBasic, OnceBasic
<1>0. PICK t \in Tx : t = on["validator"]
  BY OnSale, TaskNames, LabelNames DEF RequestChange
<1>1. /\ Completing /\ InHand(t) /\ ~accepting
      /\ paid[t] = 0 /\ tx[t].due > 0 /\ tx[t].reserve /\ ~Flagged(tx[t])
  BY <1>0, CompletingInHand
  DEF RequestChange, Completing, ContractInvariant, ValidatorAt, AcceptingFor, InHand
<1>2. /\ UNCHANGED <<fsm, shown, blockers, active, tx, cached, inserted, paid, vended, queue,
                     accepting, window>>
      /\ Go("validator", "change")
  BY <1>0, <1>1 DEF RequestChange
<1>3. LocksStay /\ OnlySale(t)
  BY <1>2 DEF LocksStay, Locked, Halted, OnlySale
<1>4. SaleTells(t)' /\ tx'[t].session = "completed" /\ Born(t)'
  BY <1>1, <1>2
  DEF InHand, SaleTells, RecordTells, PlaceKept, Unfinished, Phase, Born, UnbornTransaction,
      Locked, Halted
<1>5. window' = "open" => Locked' \/ (vended'[t] > 0 /\ tx'[t].status # "completed")
  BY <1>1, <1>2, <1>3 DEF ContractInvariant, WindowFor, InHand, LocksStay
<1>6. /\ NobodyCancels' /\ SalesTell' /\ CheckoutAt' /\ ClosersAt'
      /\ BillsAreOurs' /\ CashCounted' /\ AcceptingFor' /\ WindowFor'
      /\ pc'["validator"] = "change" /\ on'["validator"] = t
  BY <1>0, <1>1, <1>2, <1>3, <1>4, <1>5, CompletionFrame
<1>7. ValidatorAt'
  BY <1>1, <1>2, <1>6 DEF ValidatorAt, Completing, InHand
<1>8. ContractStep
  BY <1>2, Stutters
<1>. QED
  BY <1>6, <1>7, <1>8 DEF ContractInvariant

(* What the sale in hand says of the money, the devices and the order of   *)
(* things once bills are refused.                                          *)
LEMMA HandPays ==
    ASSUME ContractBasic, NEW t, t = on["validator"],
           pc["validator"] \in {"change", "repay", "paid", "motor", "open"}
    PROVE  /\ Completing /\ InHand(t) /\ ~accepting
           /\ inserted[t] \in Nat /\ paid[t] \in Nat /\ vended[t] \in Nat
           /\ tx[t].accepted = inserted[t]
           /\ pc["validator"] # "open" => vended[t] = 0
           /\ pc["validator"] \in {"change", "paid", "motor"} => tx[t].due = tx[t].accepted - Price
           /\ pc["validator"] \in {"change", "repay"} => paid[t] = 0
           /\ pc["validator"] \in {"paid", "motor"} => paid[t] = tx[t].due
           /\ pc["validator"] = "change" =>
                  tx[t].due > 0 /\ tx[t].reserve /\ answers[t]["change"] = "none"
           /\ pc["validator"] \in {"change", "paid", "motor", "open"} => ~Flagged(tx[t])
           /\ pc["validator"] = "motor" => fsm = "DISPENSING_PRODUCT" \/ Halted
           /\ pc["validator"] = "open" => /\ tx[t].status = "opening_delivery_window"
                                          /\ vended[t] > 0
                                          /\ fsm = "OPENING_DELIVERY_WINDOW" \/ Halted
<1> USE DEF ContractBasic, OnceBasic
<1>1. Completing /\ InHand(t)
  BY CompletingInHand DEF Completing
<1>2. inserted[t] \in Nat /\ paid[t] \in Nat /\ vended[t] \in Nat
  BY <1>1 DEF InHand, Basic, TypeOK, SaleIds
<1>3. ~accepting
  BY <1>1 DEF ContractInvariant, AcceptingFor, InHand
<1>4. pc["validator"] = "open" => vended[t] > 0
  BY <1>1 DEF ContractInvariant, ValidatorAt, InHand, RecordTells, Delivered
<1>5. /\ pc["validator"] \in {"change", "paid", "motor"} =>
             vended[t] = 0 /\ tx[t].due = tx[t].accepted - Price
      /\ pc["validator"] = "change" => answers[t]["change"] = "none"
  BY DEF OnceInvariant, CompletesOnce, ChangeIsDue
<1>. QED
  BY <1>1, <1>2, <1>3, <1>4, <1>5 DEF ContractInvariant, ValidatorAt, InHand

(* Money for the sale in hand leaves the machine.                          *)
LEMMA GivesBack ==
    ASSUME ContractBasic, NEW t, InHand(t), vended[t] = 0,
           UNCHANGED <<inserted, vended>>, NEW amount \in Nat, PayBack(t, amount), amount > 0,
           paid[t] + amount <= inserted[t],
           tx'[t] = tx[t] \/ Flagged(tx'[t])
             \/ (tx'[t].session = "completed" /\ tx'[t].status = tx[t].status
                  /\ tx'[t].recovery = tx[t].recovery),
           \A u \in Tx : u # t => tx'[u] = tx[u]
    PROVE  ContractStep
<1> USE DEF ContractBasic, OnceBasic
<1>1. t \in Tx /\ paid \in [Tx -> Nat] /\ inserted[t] \in Nat
  BY DEF InHand, Basic, TypeOK, SaleIds
<1>2. /\ paid' = [paid EXCEPT ![t] = paid'[t]] /\ paid'[t] = paid[t] + amount
      /\ paid'[t] > paid[t]
  BY <1>1 DEF PayBack
<1>3. tx[t].session = "completed" /\ tx[t].status # "completed"
  BY DEF InHand, RecordTells, Delivered
<1>4. Phase(t) \in {"taking", "held"}
  BY <1>3, Phases DEF Phase
<1>5. Phase(t)' = Phase(t) \/ Phase(t)' = "held"
  <2>1. Flagged(tx'[t]) => Phase(t)' = "held"
    BY Phases DEF Phase
  <2>2. ASSUME tx'[t].session = "completed" /\ tx'[t].status = tx[t].status
                  /\ tx'[t].recovery = tx[t].recovery
        PROVE  Phase(t)' = Phase(t)
    BY <1>3, <2>2 DEF Phase, PhaseOf, Flagged
  <2>. QED
    BY <1>3, <2>1, <2>2
<1>6. \A u \in Tx : u # t => Phase(u)' = Phase(u)
  BY DEF Phase
<1>7. LET phases == [v \in Tx |-> Phase(v)]
      IN  phases' = phases \/ phases' = [phases EXCEPT ![t] = "held"]
  BY <1>1, <1>5, <1>6
<1>8. paid'[t] + Price * vended[t] <= inserted[t]
  <2>1. Price * vended[t] = 0
    BY PriceAssumption
  <2>. QED
    BY <1>1, <1>2, <2>1
<1>9. Contract!GiveBack(t)
  BY <1>1, <1>2, <1>4, <1>7, <1>8 DEF Contract!GiveBack, Contract!Grows, Contract!Enters
<1>. QED
  BY <1>1, <1>9 DEF ContractStep, Contract!ContractNext

LEMMA ChangePaid ==
    ASSUME ContractBasic, BornFirst', Basic', ChangeDispensed
    PROVE  ContractInvariant' /\ ContractStep
<1> USE DEF ContractBasic, OnceBasic
<1>0. PICK t \in Tx : t = on["validator"]
  BY OnSale, TaskNames, LabelNames DEF ChangeDispensed
<1>1. /\ Completing /\ InHand(t) /\ ~accepting /\ active = t
      /\ inserted[t] \in Nat /\ paid[t] = 0 /\ vended[t] = 0
      /\ tx[t].due = inserted[t] - Price /\ tx[t].due > 0 /\ tx[t].reserve
      /\ answers[t]["change"] = "none" /\ ~Flagged(tx[t])
      /\ tx[t] \in TransactionRecords /\ tx[t].due \in Nat
  BY <1>0, HandPays DEF ChangeDispensed, InHand, TransactionRecords
<1>2. /\ UNCHANGED <<fsm, shown, blockers, active, cached, inserted, vended, queue,
                     accepting, window>>
      /\ PayBack(t, tx[t].due) /\ Go("validator", "paid")
      /\ Put(t, MarkChangeDispensed(tx[t]))
  BY <1>0, <1>1 DEF ChangeDispensed, Dispense
<1>3. /\ Becomes(tx[t], tx'[t], tx[t].status, tx[t].recovery)
      /\ \A u \in Tx : u # t => tx'[u] = tx[u]
  BY <1>1, <1>2, MethodsSet DEF Put, Basic, TypeOK
<1>4. /\ \A u \in Tx : u # t => paid'[u] = paid[u]
      /\ paid'[t] = tx[t].due
  BY <1>0, <1>1, <1>2 DEF PayBack, Basic, TypeOK
<1>5. LocksStay /\ OnlySale(t)
  BY <1>2, <1>3, <1>4 DEF LocksStay, Locked, Halted, OnlySale
<1>6. ~Flagged(tx'[t])
  BY <1>1, <1>3 DEF Becomes, Flagged
<1>7. /\ RecordTells(t)' /\ PlaceKept(t)'
      /\ tx'[t].session = "completed" /\ tx'[t].accepted = tx[t].accepted /\ Born(t)'
      /\ tx'[t].status = tx[t].status /\ tx'[t].due = tx[t].due
  <2>1. /\ tx[t].status \notin {"unborn", "cancelled", "faulted", "ambiguous"}
        /\ tx[t].status \notin Delivered /\ tx[t].status # "pickup_timed_out"
    BY <1>1 DEF InHand, RecordTells, Born, UnbornTransaction, Delivered, Flagged
  <2>. QED
    BY <1>1, <1>2, <1>3, <1>6, <2>1, HandTells
<1>8. paid'[t] + Price * vended'[t] <= inserted'[t]
  <2>1. Price * vended'[t] = 0
    BY <1>1, <1>2, PriceAssumption
  <2>. QED
    BY <1>1, <1>2, <1>4, <2>1, PriceAssumption
<1>9. window' = "open" => Locked'
  BY <1>1, <1>2, <1>5 DEF ContractInvariant, WindowFor, LocksStay
<1>10. /\ NobodyCancels' /\ SalesTell' /\ CheckoutAt' /\ ClosersAt'
       /\ BillsAreOurs' /\ CashCounted' /\ AcceptingFor' /\ WindowFor'
       /\ pc'["validator"] = "paid" /\ on'["validator"] = t
  BY <1>0, <1>1, <1>2, <1>5, <1>7, <1>8, <1>9, CompletionFrame DEF SaleTells
<1>11. ValidatorAt'
  BY <1>1, <1>2, <1>4, <1>6, <1>7, <1>10 DEF ValidatorAt, Completing
<1>12. ContractStep
  BY <1>1, <1>2, <1>3, <1>7, GivesBack, PriceAssumption DEF Becomes
<1>. QED
  BY <1>10, <1>11, <1>12 DEF ContractInvariant

(* A dispenser that says so pays nothing at all.                           *)
LEMMA ChangeNotPaid ==
    ASSUME ContractBasic, BornFirst', Basic', WholeChange, ChangeFails
    PROVE  ContractInvariant' /\ ContractStep
<1> USE DEF ContractBasic, OnceBasic
<1>0. PICK t \in Tx : t = on["validator"]
  BY OnSale, TaskNames, LabelNames DEF ChangeFails
<1>1. /\ Completing /\ InHand(t) /\ ~accepting /\ active = t
      /\ paid[t] = 0 /\ vended[t] = 0 /\ answers[t]["change"] = "none"
      /\ tx[t] \in TransactionRecords
  BY <1>0, HandPays DEF ChangeFails, InHand
<1>2. /\ UNCHANGED <<fsm, shown, blockers, active, cached, inserted, vended, queue,
                     accepting, window>>
      /\ PayBack(t, 0) /\ Go("validator", "repay") /\ Put(t, MarkAmbiguous(tx[t]))
  BY <1>0, <1>1 DEF ChangeFails, WholeChange, Dispense
<1>3. /\ Becomes(tx[t], tx'[t], "ambiguous", "manual_review")
      /\ \A u \in Tx : u # t => tx'[u] = tx[u]
  BY <1>1, <1>2, MethodsSet DEF Put, Basic, TypeOK
<1>4. paid' = paid
  BY <1>1, <1>2 DEF PayBack, Basic, TypeOK
<1>5. LocksStay /\ OnlySale(t) /\ Flagged(tx'[t])
  BY <1>2, <1>3, <1>4 DEF LocksStay, Locked, Halted, OnlySale, Becomes, Flagged
<1>6. /\ RecordTells(t)' /\ PlaceKept(t)'
      /\ tx'[t].session = "completed" /\ tx'[t].accepted = tx[t].accepted /\ Born(t)'
  BY <1>1, <1>2, <1>3, HandTells DEF Delivered
<1>7. paid'[t] + Price * vended'[t] <= inserted'[t]
  BY <1>1, <1>2, <1>4 DEF InHand
<1>8. window' = "open" => Locked'
  BY <1>1, <1>2, <1>5 DEF ContractInvariant, WindowFor, LocksStay
<1>9. /\ NobodyCancels' /\ SalesTell' /\ CheckoutAt' /\ ClosersAt'
      /\ BillsAreOurs' /\ CashCounted' /\ AcceptingFor' /\ WindowFor'
      /\ pc'["validator"] = "repay" /\ on'["validator"] = t
  BY <1>0, <1>1, <1>2, <1>5, <1>6, <1>7, <1>8, CompletionFrame DEF SaleTells
<1>10. ValidatorAt'
  BY <1>1, <1>2, <1>4, <1>6, <1>9 DEF ValidatorAt, Completing
<1>11. ContractStep
  BY <1>2, <1>3, <1>4, <1>5, HoldsSale
<1>. QED
  BY <1>9, <1>10, <1>11 DEF ContractInvariant

(* Everything the customer put in comes back, unless the dispenser has     *)
(* answered the same request before.                                       *)
LEMMA AllRepaid ==
    ASSUME ContractBasic, BornFirst', Basic', Repaid
    PROVE  ContractInvariant' /\ ContractStep
<1> USE DEF ContractBasic, OnceBasic
<1>0. PICK t \in Tx : t = on["validator"]
  BY OnSale, TaskNames, LabelNames DEF Repaid
<1>1. /\ Completing /\ InHand(t) /\ ~accepting /\ active = t
      /\ inserted[t] \in Nat /\ paid[t] = 0 /\ vended[t] = 0
      /\ tx[t].accepted = inserted[t]
  BY <1>0, HandPays DEF Repaid, InHand
<1>2. /\ UNCHANGED <<fsm, shown, blockers, active, tx, cached, inserted, vended, queue,
                     accepting, window>>
      /\ Go("validator", "rest")
      /\ paid' = paid \/ PayBack(t, inserted[t])
  BY <1>0, <1>1 DEF Repaid, Dispense
<1>3. /\ \A u \in Tx : u # t => paid'[u] = paid[u]
      /\ paid'[t] \in Nat /\ paid'[t] <= inserted[t]
  BY <1>0, <1>1, <1>2 DEF PayBack, Basic, TypeOK
<1>4. LocksStay /\ OnlySale(t)
  BY <1>2, <1>3 DEF LocksStay, Locked, Halted, OnlySale
<1>5. /\ RecordTells(t)' /\ PlaceKept(t)'
      /\ tx'[t].session = "completed" /\ tx'[t].accepted = tx[t].accepted /\ Born(t)'
  BY <1>1, <1>2, <1>4
  DEF InHand, RecordTells, PlaceKept, Unfinished, Phase, Born, UnbornTransaction, LocksStay
<1>6. paid'[t] + Price * vended'[t] <= inserted'[t]
  <2>1. Price * vended'[t] = 0
    BY <1>1, <1>2, PriceAssumption
  <2>. QED
    BY <1>1, <1>2, <1>3, <2>1
<1>7. window' = "open" => Locked'
  BY <1>1, <1>2, <1>4 DEF ContractInvariant, WindowFor, LocksStay
<1>8. /\ NobodyCancels' /\ SalesTell' /\ CheckoutAt' /\ ClosersAt'
      /\ BillsAreOurs' /\ CashCounted' /\ AcceptingFor' /\ WindowFor'
      /\ pc'["validator"] = "rest"
  BY <1>0, <1>1, <1>2, <1>4, <1>5, <1>6, <1>7, CompletionFrame DEF SaleTells
<1>9. ValidatorAt'
  BY <1>8 DEF ValidatorAt, Completing
<1>10. ContractStep
  <2>1. CASE paid' = paid
    BY <1>2, <2>1, Stutters
  <2>2. CASE PayBack(t, inserted[t]) /\ inserted[t] = 0
    <3>1. paid' = paid
      BY <1>0, <1>1, <2>2 DEF PayBack, Basic, TypeOK
    <3>. QED
      BY <2>1, <3>1
  <2>3. CASE PayBack(t, inserted[t]) /\ inserted[t] > 0
    BY <1>1, <1>2, <2>3, GivesBack
  <2>. QED
    BY <1>1, <1>2, <2>1, <2>2, <2>3
<1>. QED
  BY <1>8, <1>9, <1>10 DEF ContractInvariant

(* Part of it comes back, or nothing: the machine stops.                   *)
LEMMA NotAllRepaid ==
    ASSUME ContractBasic, BornFirst', Basic', RepayFails
    PROVE  ContractInvariant' /\ ContractStep
<1> USE DEF ContractBasic, OnceBasic
<1>0. PICK t \in Tx : t = on["validator"]
  BY OnSale, TaskNames, LabelNames DEF RepayFails
<1>1. /\ Completing /\ InHand(t) /\ ~accepting /\ active = t
      /\ inserted[t] \in Nat /\ paid[t] = 0 /\ vended[t] = 0
      /\ tx[t].accepted = inserted[t] /\ tx[t] \in TransactionRecords
  BY <1>0, HandPays DEF RepayFails, InHand
<1>2. /\ UNCHANGED <<blockers, active, cached, inserted, vended, queue, accepting, window>>
      /\ Go("validator", "dead") /\ Put(t, MarkAmbiguous(tx[t]))
  BY <1>0 DEF RepayFails
<1>3. PICK amount \in 0 .. inserted[t] : paid' = paid \/ PayBack(t, amount)
  <2>1. RefundNotPaid(t, inserted[t])
    BY <1>0, <1>1 DEF RepayFails
  <2>2. 0 .. (inserted[t] - 1) \subseteq 0 .. inserted[t] /\ 0 \in 0 .. inserted[t]
    BY <1>1
  <2>. QED
    BY <2>1, <2>2 DEF RefundNotPaid, Dispense, DispenseRaises
<1>4. /\ Becomes(tx[t], tx'[t], "ambiguous", "manual_review")
      /\ \A u \in Tx : u # t => tx'[u] = tx[u]
  BY <1>1, <1>2, MethodsSet DEF Put, Basic, TypeOK
<1>5. /\ \A u \in Tx : u # t => paid'[u] = paid[u]
      /\ paid'[t] \in Nat /\ paid'[t] <= inserted[t]
  BY <1>0, <1>1, <1>3 DEF PayBack, Basic, TypeOK
<1>6. Halted' /\ Locked' /\ LocksStay
  BY Halts DEF RepayFails, LocksStay, Locked
<1>7. OnlySale(t) /\ Flagged(tx'[t])
  BY <1>2, <1>4, <1>5 DEF OnlySale, Becomes, Flagged
<1>8. /\ RecordTells(t)' /\ PlaceKept(t)'
      /\ tx'[t].session = "completed" /\ tx'[t].accepted = tx[t].accepted /\ Born(t)'
  BY <1>1, <1>2, <1>4, HandTells DEF Delivered
<1>9. paid'[t] + Price * vended'[t] <= inserted'[t]
  <2>1. Price * vended'[t] = 0
    BY <1>1, <1>2, PriceAssumption
  <2>. QED
    BY <1>1, <1>2, <1>5, <2>1
<1>10. /\ NobodyCancels' /\ SalesTell' /\ CheckoutAt' /\ ClosersAt'
       /\ BillsAreOurs' /\ CashCounted' /\ AcceptingFor' /\ WindowFor'
       /\ pc'["validator"] = "dead"
  BY <1>0, <1>1, <1>2, <1>6, <1>7, <1>8, <1>9, CompletionFrame DEF SaleTells
<1>11. ValidatorAt'
  BY <1>10 DEF ValidatorAt, Completing
<1>12. ContractStep
  <2>1. CASE paid' = paid
    BY <1>2, <1>4, <1>7, <2>1, HoldsSale
  <2>2. CASE PayBack(t, amount) /\ amount = 0
    <3>1. paid' = paid
      BY <1>0, <1>1, <2>2 DEF PayBack, Basic, TypeOK
    <3>. QED
      BY <2>1, <3>1
  <2>3. CASE PayBack(t, amount) /\ amount > 0
    BY <1>1, <1>2, <1>4, <1>7, <2>3, GivesBack
  <2>. QED
    BY <1>3, <2>1, <2>2, <2>3
<1>. QED
  BY <1>10, <1>11, <1>12 DEF ContractInvariant

-----------------------------------------------------------------------------
(* The release of the product.                                             *)

LEMMA SaleAuthorized ==
    ASSUME ContractBasic, BornFirst', Basic', AuthorizeSale
    PROVE  ContractInvariant' /\ ContractStep
<1> USE DEF ContractBasic, OnceBasic
<1>0. PICK t \in Tx : t = on["validator"]
  BY OnSale, TaskNames, LabelNames DEF AuthorizeSale
<1>1. /\ Completing /\ InHand(t) /\ ~accepting /\ active = t
      /\ vended[t] = 0 /\ paid[t] = tx[t].due /\ ~Flagged(tx[t])
      /\ tx[t] \in TransactionRecords
  BY <1>0, HandPays DEF AuthorizeSale, InHand
<1>2. UNCHANGED <<blockers, active, cached, inserted, paid, vended, queue, accepting, window>>
  BY DEF AuthorizeSale
<1>3. PICK status \in {tx[t].status, "dispensing_product"} :
          /\ Becomes(tx[t], tx'[t], status, tx[t].recovery)
          /\ \A u \in Tx : u # t => tx'[u] = tx[u]
  <2>1. Becomes(tx[t], tx[t], tx[t].status, tx[t].recovery)
    BY DEF Becomes, SameMoney
  <2>2. tx' = tx \/ Put(t, AuthorizeVend(tx[t]))
    BY <1>0 DEF AuthorizeSale
  <2>. QED
    BY <1>1, <2>1, <2>2, MethodsSet DEF Put, Basic, TypeOK
<1>4. PICK label \in {"dead", "motor"} :
          /\ Go("validator", label)
          /\ label = "dead" => UNCHANGED <<fsm, shown>>
          /\ label = "motor" => /\ MayEnter(fsm, "DISPENSING_PRODUCT")
                                /\ Show("DISPENSING_PRODUCT")
  BY DEF AuthorizeSale
<1>5. LocksStay
  <2>1. label = "motor" => ~Halted
    BY <1>4, Waits DEF Basic
  <2>. QED
    BY <1>2, <1>4, <2>1 DEF LocksStay, Locked, Halted
<1>6. OnlySale(t)
  BY <1>2, <1>3 DEF OnlySale
<1>7. /\ status \notin {"unborn", "cancelled", "faulted", "ambiguous", "pickup_timed_out"}
      /\ status \notin Delivered
  BY <1>1, <1>3 DEF InHand, RecordTells, Born, UnbornTransaction, Delivered, Flagged
<1>8. ~Flagged(tx'[t])
  BY <1>1, <1>3, <1>7 DEF Becomes, Flagged
<1>9. /\ RecordTells(t)' /\ PlaceKept(t)'
      /\ tx'[t].session = "completed" /\ tx'[t].accepted = tx[t].accepted /\ Born(t)'
      /\ tx'[t].status = status /\ tx'[t].due = tx[t].due
  BY <1>1, <1>2, <1>3, <1>7, <1>8, HandTells
<1>10. paid'[t] + Price * vended'[t] <= inserted'[t]
  BY <1>1, <1>2 DEF InHand
<1>11. window' = "open" => Locked'
  BY <1>1, <1>2, <1>5 DEF ContractInvariant, WindowFor, LocksStay
<1>12. /\ NobodyCancels' /\ SalesTell' /\ CheckoutAt' /\ ClosersAt'
       /\ BillsAreOurs' /\ CashCounted' /\ AcceptingFor' /\ WindowFor'
       /\ pc'["validator"] = label /\ (label = "motor" => on'["validator"] = t)
  BY <1>0, <1>1, <1>2, <1>4, <1>5, <1>6, <1>9, <1>10, <1>11, CompletionFrame DEF SaleTells
<1>13. ValidatorAt'
  BY <1>1, <1>2, <1>4, <1>8, <1>9, <1>12 DEF ValidatorAt, Completing, Show
<1>14. ContractStep
  BY <1>1, <1>2, <1>3, <1>7, <1>8, <1>9, StillTaking DEF Delivered
<1>. QED
  BY <1>12, <1>13, <1>14 DEF ContractInvariant

(* One product leaves the machine, for exactly its price.                  *)
LEMMA Releases ==
    ASSUME ContractBasic, NEW t, InHand(t), vended[t] = 0, ~Flagged(tx[t]),
           inserted[t] \in Nat, paid[t] = inserted[t] - Price,
           UNCHANGED <<inserted, paid>>, vended' = [vended EXCEPT ![t] = @ + 1],
           tx'[t].session = "completed", Flagged(tx'[t]) \/ tx'[t].status # "completed",
           \A u \in Tx : u # t => tx'[u] = tx[u]
    PROVE  ContractStep
<1> USE DEF ContractBasic, OnceBasic
<1>1. t \in Tx /\ vended \in [Tx -> Nat] /\ vended' = [vended EXCEPT ![t] = 1]
  BY DEF InHand, Basic, TypeOK
<1>2. vended'[t] = 1 /\ \A u \in Tx : u # t => vended'[u] = vended[u]
  BY <1>1
<1>3. tx[t].session = "completed" /\ tx[t].status # "completed"
  BY DEF InHand, RecordTells, Delivered
<1>4. Phase(t) = "taking"
  BY <1>3, Phases DEF Phase
<1>5. Phase(t)' \in {"handing", "held"}
  BY <1>2, Phases DEF Phase
<1>6. \A u \in Tx : u # t => Phase(u)' = Phase(u)
  BY <1>2 DEF Phase
<1>7. LET phases == [v \in Tx |-> Phase(v)]
      IN  phases' = [phases EXCEPT ![t] = "handing"] \/ phases' = [phases EXCEPT ![t] = "held"]
  BY <1>1, <1>5, <1>6
<1>8. inserted[t] - paid[t] = Price
  BY PriceAssumption
<1>9. Contract!ReleaseProduct(t)
  BY <1>1, <1>4, <1>7, <1>8 DEF Contract!ReleaseProduct, Contract!Enters
<1>. QED
  BY <1>1, <1>9 DEF ContractStep, Contract!ContractNext

LEMMA MotorTurned ==
    ASSUME ContractBasic, BornFirst', Basic', MotorDone
    PROVE  ContractInvariant' /\ ContractStep
<1> USE DEF ContractBasic, OnceBasic
<1>0. PICK t \in Tx : t = on["validator"]
  BY OnSale, TaskNames, LabelNames DEF MotorDone
<1>1. /\ Completing /\ InHand(t) /\ ~accepting /\ active = t
      /\ inserted[t] \in Nat /\ vended[t] = 0 /\ ~Flagged(tx[t])
      /\ paid[t] = inserted[t] - Price
      /\ tx[t] \in TransactionRecords
  BY <1>0, HandPays DEF MotorDone, InHand
<1>2. /\ UNCHANGED <<blockers, active, cached, inserted, paid, queue, accepting, window>>
      /\ vended' = [vended EXCEPT ![t] = @ + 1]
  BY <1>0 DEF MotorDone
<1>3. PICK status \in {tx[t].status, "opening_delivery_window"} :
          /\ Becomes(tx[t], tx'[t], status, tx[t].recovery)
          /\ Put(t, MarkProductDispensed(tx[t])) => status = "opening_delivery_window"
          /\ \A u \in Tx : u # t => tx'[u] = tx[u]
  <2>1. tx' = tx \/ Put(t, MarkProductDispensed(tx[t]))
    BY <1>0 DEF MotorDone
  <2>2. CASE Put(t, MarkProductDispensed(tx[t]))
    BY <1>1, <2>2, MethodsSet DEF Put, Basic, TypeOK
  <2>3. CASE tx' = tx /\ ~Put(t, MarkProductDispensed(tx[t]))
    BY <2>3 DEF Becomes, SameMoney
  <2>. QED
    BY <2>1, <2>2, <2>3
<1>4. PICK label \in {"dead", "open"} :
          /\ Go("validator", label)
          /\ label = "dead" => UNCHANGED <<fsm, shown>>
          /\ label = "open" => /\ MayEnter(fsm, "OPENING_DELIVERY_WINDOW")
                               /\ Show("OPENING_DELIVERY_WINDOW")
                               /\ Put(t, MarkProductDispensed(tx[t]))
  BY <1>0 DEF MotorDone
<1>5. LocksStay
  <2>1. label = "open" => ~Halted
    BY <1>4, Waits DEF Basic
  <2>. QED
    BY <1>2, <1>4, <2>1 DEF LocksStay, Locked, Halted
<1>6. vended'[t] = 1 /\ \A u \in Tx : u # t => vended'[u] = vended[u]
  BY <1>0, <1>1, <1>2 DEF Basic, TypeOK
<1>7. OnlySale(t)
  BY <1>2, <1>3, <1>6 DEF OnlySale
<1>8. status \notin {"unborn", "cancelled", "faulted", "ambiguous", "pickup_timed_out",
                     "completed"}
  BY <1>1, <1>3 DEF InHand, RecordTells, Born, UnbornTransaction, Delivered, Flagged
<1>9. ~Flagged(tx'[t])
  BY <1>1, <1>3, <1>8 DEF Becomes, Flagged
<1>10. /\ RecordTells(t)' /\ PlaceKept(t)'
       /\ tx'[t].session = "completed" /\ tx'[t].accepted = tx[t].accepted /\ Born(t)'
       /\ tx'[t].status = status /\ tx'[t].due = tx[t].due
  <2>1. active' = t /\ vended'[t] > 0
    BY <1>1, <1>2, <1>6
  <2>. QED
    BY <1>1, <1>3, <1>8, <1>9, <2>1, HandTells
<1>11. paid'[t] + Price * vended'[t] <= inserted'[t]
  <2>1. Price * vended'[t] = Price
    BY <1>6, PriceAssumption
  <2>. QED
    BY <1>1, <1>2, <2>1, PriceAssumption
<1>12. window' = "open" => Locked'
  BY <1>1, <1>2, <1>5 DEF ContractInvariant, WindowFor, LocksStay
<1>13. /\ NobodyCancels' /\ SalesTell' /\ CheckoutAt' /\ ClosersAt'
       /\ BillsAreOurs' /\ CashCounted' /\ AcceptingFor' /\ WindowFor'
       /\ pc'["validator"] = label /\ (label = "open" => on'["validator"] = t)
  BY <1>0, <1>1, <1>2, <1>4, <1>5, <1>7, <1>10, <1>11, <1>12, CompletionFrame DEF SaleTells
<1>14. ValidatorAt'
  BY <1>1, <1>2, <1>3, <1>4, <1>9, <1>10, <1>13 DEF ValidatorAt, Completing, Show
<1>15. ContractStep
  BY <1>1, <1>2, <1>3, <1>8, <1>10, Releases
<1>. QED
  BY <1>13, <1>14, <1>15 DEF ContractInvariant

(* A failure while the product or the window moves stops the machine.      *)
LEMMA SaleFaulted ==
    ASSUME ContractBasic, NEW t \in Tx, t = on["validator"],
           pc["validator"] \in {"motor", "open"}, NEW step, FaultSale(t, step)
    PROVE  /\ Becomes(tx[t], tx'[t], "faulted", "pending")
           /\ \A u \in Tx : u # t => tx'[u] = tx[u]
           /\ Flagged(tx'[t]) /\ Go("validator", "dead") /\ ClearActive(t)
           /\ blockers' = blockers => Halted' /\ Locked' /\ LocksStay
<1> USE DEF ContractBasic, OnceBasic
<1>1. InHand(t) /\ (fsm \in {"DISPENSING_PRODUCT", "OPENING_DELIVERY_WINDOW"} \/ Halted)
  BY HandPays
<1>2. /\ Becomes(tx[t], tx'[t], "faulted", "pending")
      /\ \A u \in Tx : u # t => tx'[u] = tx[u]
  BY <1>1, MethodsSet DEF FaultSale, InHand, Put, Basic, TypeOK
<1>3. MayEnter(fsm, "FAULT")
  BY <1>1, Waits, Edges DEF Basic, TypeOK
<1>4. Show("FAULT")
  BY <1>3 DEF FaultSale
<1>5. Halted' /\ Locked' /\ LocksStay
  BY <1>4, Halts DEF LocksStay, Locked
<1>. QED
  BY <1>2, <1>5 DEF FaultSale, Becomes, Flagged

(* The motor reports a failure; the product may have dropped all the same. *)
LEMMA MotorStopped ==
    ASSUME ContractBasic, BornFirst', Basic', MotorFails
    PROVE  ContractInvariant' /\ ContractStep
<1> USE DEF ContractBasic, OnceBasic
<1>0. PICK t \in Tx : t = on["validator"]
  BY OnSale, TaskNames, LabelNames DEF MotorFails
<1>1. /\ Completing /\ InHand(t) /\ ~accepting /\ active = t
      /\ inserted[t] \in Nat /\ vended[t] = 0 /\ ~Flagged(tx[t])
      /\ paid[t] = inserted[t] - Price
  BY <1>0, HandPays DEF MotorFails, InHand
<1>2. /\ UNCHANGED <<blockers, cached, inserted, paid, queue, accepting, window>>
      /\ vended' = vended \/ vended' = [vended EXCEPT ![t] = @ + 1]
      /\ FaultSale(t, "motor")
  BY <1>0 DEF MotorFails
<1>3. /\ Becomes(tx[t], tx'[t], "faulted", "pending")
      /\ \A u \in Tx : u # t => tx'[u] = tx[u]
      /\ Flagged(tx'[t]) /\ Go("validator", "dead") /\ ClearActive(t)
      /\ Halted' /\ Locked' /\ LocksStay
  BY <1>0, <1>2, SaleFaulted DEF MotorFails
<1>4. vended'[t] \in {0, 1} /\ \A u \in Tx : u # t => vended'[u] = vended[u]
  <2>1. vended \in [Tx -> Nat]
    BY DEF Basic, TypeOK
  <2>. QED
    BY <1>0, <1>1, <1>2, <2>1
<1>5. OnlySale(t)
  BY <1>2, <1>3, <1>4 DEF OnlySale
<1>6. /\ RecordTells(t)' /\ PlaceKept(t)'
      /\ tx'[t].session = "completed" /\ tx'[t].accepted = tx[t].accepted /\ Born(t)'
  <2>1. "faulted" \notin Delivered
    BY DEF Delivered
  <2>2. InHand(t) /\ Becomes(tx[t], tx'[t], "faulted", "pending") /\ Locked'
    BY <1>1, <1>3
  <2>. QED
    BY <2>1, <2>2, HandTells
<1>7. paid'[t] + Price * vended'[t] <= inserted'[t]
  <2>1. Price * vended'[t] \in {0, Price}
    BY <1>4, PriceAssumption
  <2>. QED
    BY <1>1, <1>2, <2>1, PriceAssumption
<1>8. /\ NobodyCancels' /\ SalesTell' /\ CheckoutAt' /\ ClosersAt'
      /\ BillsAreOurs' /\ CashCounted' /\ AcceptingFor' /\ WindowFor'
      /\ pc'["validator"] = "dead"
  BY <1>0, <1>1, <1>2, <1>3, <1>5, <1>6, <1>7, CompletionFrame DEF SaleTells
<1>9. ValidatorAt'
  BY <1>8 DEF ValidatorAt, Completing
<1>10. ContractStep
  <2>1. CASE vended' = vended
    BY <1>2, <1>3, <2>1, HoldsSale
  <2>2. CASE vended' = [vended EXCEPT ![t] = @ + 1]
    BY <1>1, <1>2, <1>3, <1>6, <2>2, Releases
  <2>. QED
    BY <1>2, <2>1, <2>2
<1>. QED
  BY <1>8, <1>9, <1>10 DEF ContractInvariant

LEMMA WindowOpened ==
    ASSUME ContractBasic, BornFirst', Basic', WindowOpens
    PROVE  ContractInvariant' /\ ContractStep
<1> USE DEF ContractBasic, OnceBasic
<1>0. PICK t \in Tx : t = on["validator"]
  BY OnSale, TaskNames, LabelNames DEF WindowOpens
<1>1. /\ Completing /\ InHand(t) /\ ~accepting /\ active = t
      /\ vended[t] > 0 /\ ~Flagged(tx[t]) /\ tx[t].status = "opening_delivery_window"
      /\ tx[t].session = "completed" /\ tx[t] \in TransactionRecords
  BY <1>0, HandPays DEF WindowOpens, InHand
<1>2. /\ UNCHANGED <<blockers, active, cached, inserted, paid, vended, queue, accepting>>
      /\ Put(t, MarkWindowOpened(tx[t]))
  BY <1>0 DEF WindowOpens
<1>3. /\ Becomes(tx[t], tx'[t], "waiting_for_customer_pickup", tx[t].recovery)
      /\ \A u \in Tx : u # t => tx'[u] = tx[u]
  BY <1>1, <1>2, MethodsSet DEF Put, Basic, TypeOK
<1>4. PICK label \in {"dead", "rest"} :
          /\ Go("validator", label)
          /\ label = "dead" => UNCHANGED <<fsm, shown>>
          /\ label = "rest" => MayEnter(fsm, "WAITING_FOR_CUSTOMER_PICKUP")
  BY DEF WindowOpens
<1>5. LocksStay
  <2>1. label = "rest" => ~Halted
    BY <1>4, Waits DEF Basic
  <2>. QED
    BY <1>2, <1>4, <2>1 DEF LocksStay, Locked, Halted
<1>6. OnlySale(t) /\ ~Flagged(tx'[t])
  BY <1>1, <1>2, <1>3 DEF OnlySale, Becomes, Flagged
<1>7. /\ RecordTells(t)' /\ PlaceKept(t)'
      /\ tx'[t].session = "completed" /\ tx'[t].accepted = tx[t].accepted /\ Born(t)'
      /\ tx'[t].status = "waiting_for_customer_pickup"
  BY <1>1, <1>2, <1>3, <1>6, HandTells DEF Delivered
<1>8. paid'[t] + Price * vended'[t] <= inserted'[t]
  BY <1>1, <1>2 DEF InHand
<1>9. /\ NobodyCancels' /\ SalesTell' /\ CheckoutAt' /\ ClosersAt'
      /\ BillsAreOurs' /\ CashCounted' /\ AcceptingFor' /\ WindowFor'
      /\ pc'["validator"] = label
  BY <1>0, <1>1, <1>2, <1>4, <1>5, <1>6, <1>7, <1>8, CompletionFrame DEF SaleTells
<1>10. ValidatorAt'
  BY <1>9 DEF ValidatorAt, Completing
<1>11. ContractStep
  <2>1. PhaseOf(tx'[t], vended[t]) = PhaseOf(tx[t], vended[t])
    BY <1>1, <1>6, <1>7, Phases
  <2>. QED
    BY <1>2, <1>3, <2>1, Stutters
<1>. QED
  BY <1>9, <1>10, <1>11 DEF ContractInvariant

(* The window may be open, with the product behind it.                     *)
LEMMA WindowNotOpened ==
    ASSUME ContractBasic, BornFirst', Basic', WindowOpenFails
    PROVE  ContractInvariant' /\ ContractStep
<1> USE DEF ContractBasic, OnceBasic
<1>0. PICK t \in Tx : t = on["validator"]
  BY OnSale, TaskNames, LabelNames DEF WindowOpenFails
<1>1. Completing /\ InHand(t) /\ ~accepting /\ active = t
  BY <1>0, HandPays DEF WindowOpenFails, InHand
<1>2. /\ UNCHANGED <<blockers, cached, inserted, paid, vended, queue, accepting>>
      /\ FaultSale(t, "open")
  BY <1>0 DEF WindowOpenFails
<1>3. /\ Becomes(tx[t], tx'[t], "faulted", "pending")
      /\ \A u \in Tx : u # t => tx'[u] = tx[u]
      /\ Flagged(tx'[t]) /\ Go("validator", "dead") /\ ClearActive(t)
      /\ Halted' /\ Locked' /\ LocksStay
  BY <1>0, <1>2, SaleFaulted DEF WindowOpenFails
<1>4. OnlySale(t)
  BY <1>2, <1>3 DEF OnlySale
<1>5. /\ RecordTells(t)' /\ PlaceKept(t)'
      /\ tx'[t].session = "completed" /\ tx'[t].accepted = tx[t].accepted /\ Born(t)'
  <2>1. "faulted" \notin Delivered
    BY DEF Delivered
  <2>. QED
    BY <1>1, <1>3, <2>1, HandTells
<1>6. paid'[t] + Price * vended'[t] <= inserted'[t]
  BY <1>1, <1>2 DEF InHand
<1>7. /\ NobodyCancels' /\ SalesTell' /\ CheckoutAt' /\ ClosersAt'
      /\ BillsAreOurs' /\ CashCounted' /\ AcceptingFor' /\ WindowFor'
      /\ pc'["validator"] = "dead"
  BY <1>0, <1>1, <1>2, <1>3, <1>4, <1>5, <1>6, CompletionFrame DEF SaleTells
<1>8. ValidatorAt'
  BY <1>7 DEF ValidatorAt, Completing
<1>9. ContractStep
  BY <1>2, <1>3, HoldsSale
<1>. QED
  BY <1>7, <1>8, <1>9 DEF ContractInvariant

-----------------------------------------------------------------------------
(* A sale is created before it becomes active, and only start_cash_session *)
(* opens its session.                                                      *)

NoneUnborn == \A u \in Tx : Born(u) => Born(u)'

NoneStarts == \A u \in Tx : tx[u].session = "none" => tx'[u].session = "none"

LEMMA PutBorn ==
    ASSUME TypeOK, NEW t \in Tx, NEW r, Put(t, r), Advances(tx[t], r) \/ r.status # "unborn"
    PROVE  NoneUnborn /\ (Advances(tx[t], r) \/ r.session = "none" => NoneStarts)
BY DEF TypeOK, Put, NoneUnborn, NoneStarts, Born, Advances

LEMMA BornFrame ==
    ASSUME Basic, BornFirst, NoneUnborn,
           active' = active \/ active' = NoTx \/ (active' \in Tx /\ Born(active)'),
           ValidatorStays \/ pc'["validator"] # "event"
    PROVE  BornFirst'
BY StateAssumption DEF BornFirst, NoneUnborn, ValidatorStays

LEMMA CheckoutBorn ==
    ASSUME Basic, BornFirst, CheckoutTask
    PROVE  BornFirst' /\ (NoneStarts \/ StartPayment)
<1>0. PICK t \in Tx : t = on["checkout"]
  BY OnSale, TaskNames, LabelNames
  DEF CheckoutTask, SensorMismatch, RefusePurchase, CreatePurchase, StopFails, StartPayment,
      AcceptanceEnabled, AcceptanceNotEnabled
<1>1. tx[t] \in TransactionRecords
  BY DEF Basic, TypeOK
<1>2. ValidatorStays
  <2>1. \E label : Go("checkout", label)
    BY DEF CheckoutTask, SensorMismatch, RefusePurchase, CreatePurchase, StopFails,
           StartPayment, AcceptanceEnabled, AcceptanceNotEnabled
  <2>. QED
    BY <2>1, OthersStay, TaskNames DEF Basic, ValidatorStays
<1>3. CASE CreatePurchase
  <2>1. Put(t, NewTransaction) /\ active' = t
    BY <1>0, <1>3 DEF CreatePurchase
  <2>2. NoneUnborn /\ NoneStarts
    BY <2>1, PutBorn DEF Basic, NewTransaction, UnbornTransaction
  <2>3. Born(active)'
    BY <2>1 DEF Put, Born, NewTransaction, UnbornTransaction, Basic, TypeOK
  <2>. QED
    BY <1>2, <2>1, <2>2, <2>3, BornFrame
<1>4. CASE ~CreatePurchase
  <2>1. active' = active
    BY <1>4
    DEF CheckoutTask, SensorMismatch, RefusePurchase, StopFails, StartPayment,
        AcceptanceEnabled, AcceptanceNotEnabled
  <2>2. \/ tx' = tx \/ Put(t, MarkFaulted(tx[t]))
        \/ /\ StartPayment
           /\ \E reserved \in BOOLEAN : Put(t, StartCashSession(tx[t], reserved))
    BY <1>0, <1>4
    DEF CheckoutTask, SensorMismatch, RefusePurchase, StopFails, StartPayment,
        AcceptanceEnabled, AcceptanceNotEnabled
  <2>3. NoneUnborn /\ (NoneStarts \/ StartPayment)
    <3>1. CASE tx' = tx
      BY <3>1 DEF NoneUnborn, NoneStarts, Born
    <3>2. CASE Put(t, MarkFaulted(tx[t]))
      BY <1>1, <3>2, PutBorn, MethodsAdvance DEF Basic
    <3>3. ASSUME NEW reserved \in BOOLEAN, Put(t, StartCashSession(tx[t], reserved))
          PROVE  NoneUnborn
      BY <1>1, <3>3, PutBorn, SessionIsRecord DEF Basic
    <3>. QED
      BY <2>2, <3>1, <3>2, <3>3
  <2>. QED
    BY <1>2, <2>1, <2>3, BornFrame
<1>. QED
  BY <1>3, <1>4

LEMMA ValidatorBorn ==
    ASSUME Basic, BornFirst, ValidatorTask
    PROVE  BornFirst' /\ NoneStarts
<1>1. CASE TakeEvent
  <2>1. on'["validator"] = active /\ active' = active /\ tx' = tx
    BY <1>1, TaskNames DEF TakeEvent, Start, Basic, TypeOK
  <2>. QED
    BY <2>1 DEF BornFirst, NoneStarts, Born
<1>2. CASE ~TakeEvent
  <2>1. PICK label : Go("validator", label) /\ label # "event"
    BY <1>2
    DEF ValidatorTask, CreditBill, ValidatorFault, BillNotEnough, BeginCompletion,
        CompletionDisabled, CompletionDisableFails, RequestChange, ChangeDispensed,
        ChangeFails, Repaid, RepayFails, AuthorizeSale, MotorDone, MotorFails, FaultSale,
        WindowOpens, WindowOpenFails
  <2>2. pc'["validator"] # "event"
    BY <2>1, TaskNames DEF Go, Basic, TypeOK
  <2>3. active' = active \/ active' = NoTx
    BY <1>2
    DEF ValidatorTask, CreditBill, ValidatorFault, BillNotEnough, BeginCompletion,
        CompletionDisabled, CompletionDisableFails, RequestChange, ChangeDispensed,
        ChangeFails, Repaid, RepayFails, AuthorizeSale, MotorDone, MotorFails, FaultSale,
        WindowOpens, WindowOpenFails, ClearActive
  <2> DEFINE t == on["validator"]
  <2>4. t \in Tx \/ tx' = tx
    BY <1>2, OnSale, TaskNames, LabelNames
    DEF ValidatorTask, CreditBill, ValidatorFault, BillNotEnough, BeginCompletion,
        CompletionDisabled, CompletionDisableFails, RequestChange, ChangeDispensed,
        ChangeFails, Repaid, RepayFails, AuthorizeSale, MotorDone, MotorFails,
        WindowOpens, WindowOpenFails, Basic, TypeOK, SaleIds
  <2>5. tx' = tx \/ \E r : Put(t, r) /\ (t \in Tx => Advances(tx[t], r))
    <3>1. CASE CreditBill
      <4>1. Head(queue) \in ValidatorEvents
        BY <3>1, EventTyped DEF CreditBill, Basic, EventInQueue
      <4>. QED
        BY <3>1, <4>1, CashAdvances DEF CreditBill, ValidatorEvents, Basic, TypeOK
    <3>2. CASE BeginCompletion
      BY <3>2, ConfirmAdvances DEF BeginCompletion, Basic, TypeOK
    <3>3. CASE ~CreditBill /\ ~BeginCompletion
      BY <1>2, <3>3, MethodsAdvance
      DEF ValidatorTask, ValidatorFault, BillNotEnough, CompletionDisabled,
          CompletionDisableFails, DisableFails, RequestChange, ChangeDispensed, ChangeFails,
          Repaid, RepayFails, AuthorizeSale, MotorDone, MotorFails, FaultSale, WindowOpens,
          WindowOpenFails, Basic, TypeOK
    <3>. QED
      BY <3>1, <3>2, <3>3
  <2>6. NoneUnborn /\ NoneStarts
    <3>1. CASE tx' = tx
      BY <3>1 DEF NoneUnborn, NoneStarts, Born
    <3>2. CASE t \in Tx /\ \E r : Put(t, r) /\ Advances(tx[t], r)
      BY <3>2, PutBorn DEF Basic
    <3>. QED
      BY <2>4, <2>5, <3>1, <3>2
  <2>. QED
    BY <2>2, <2>3, <2>6, BornFrame
<1>. QED
  BY <1>1, <1>2

LEMMA ClosingBorn ==
    ASSUME Basic, BornFirst, ConfirmTask \/ TimeoutTask \/ (\E t \in Tx : TapPickup(t))
    PROVE  BornFirst' /\ NoneStarts
<1>1. ValidatorStays
  <2>1. \E k \in {"confirm", "timeout"} : \E t, label :
            Go(k, label) \/ Start(k, t, label) \/ UNCHANGED <<pc, on>>
    BY DEF ConfirmTask, TimeoutTask, PickupClosed, PickupCloseFails, TimeoutCloses,
           TimeoutClosed, TimeoutCloseFails, TapPickup, BeginConfirm
  <2>. QED
    BY <2>1, OthersStay, TaskNames DEF Basic, ValidatorStays
<1>2. active' = active \/ active' = NoTx
  BY DEF ConfirmTask, TimeoutTask, PickupClosed, PickupCloseFails, TimeoutCloses,
         TimeoutClosed, TimeoutCloseFails, TapPickup, BeginConfirm, ClearActive
<1>3. tx' = tx \/ \E t \in Tx : \E r : Put(t, r) /\ Advances(tx[t], r)
  <2>1. CASE ConfirmTask
    <3>1. on["confirm"] \in Tx
      BY <2>1, OnSale, TaskNames, LabelNames DEF ConfirmTask, PickupClosed, PickupCloseFails
    <3>. QED
      BY <2>1, <3>1, MethodsAdvance DEF ConfirmTask, PickupClosed, PickupCloseFails, Basic, TypeOK
  <2>2. CASE TimeoutTask
    <3>1. on["timeout"] \in Tx
      BY <2>2, OnSale, TaskNames, LabelNames
      DEF TimeoutTask, TimeoutCloses, TimeoutClosed, TimeoutCloseFails
    <3>. QED
      BY <2>2, <3>1, MethodsAdvance
      DEF TimeoutTask, TimeoutCloses, TimeoutClosed, TimeoutCloseFails, Basic, TypeOK
  <2>3. CASE \E t \in Tx : TapPickup(t)
    BY <2>3, MethodsAdvance DEF TapPickup, BeginConfirm, Basic, TypeOK
  <2>. QED
    BY <2>1, <2>2, <2>3
<1>4. NoneUnborn /\ NoneStarts
  <2>1. CASE tx' = tx
    BY <2>1 DEF NoneUnborn, NoneStarts, Born
  <2>. QED
    BY <1>3, <2>1, PutBorn DEF Basic
<1>. QED
  BY <1>1, <1>2, <1>4, BornFrame

(* The other steps leave the sales alone.                                  *)
LEMMA StillBorn ==
    ASSUME Basic, BornFirst, UNCHANGED <<active, tx>>,
           \/ UNCHANGED <<pc, on>>
           \/ \E k \in Tasks \ {"validator"} : \E t, label : Start(k, t, label)
    PROVE  BornFirst' /\ NoneStarts
<1>1. ValidatorStays
  BY OthersStay, TaskNames DEF Basic, ValidatorStays
<1>. QED
  BY <1>1, BornFrame DEF NoneUnborn, NoneStarts, Born

-----------------------------------------------------------------------------
(* Every step.                                                             *)

(* Nobody cancels, recovers or services while nobody of that kind is about.*)
LEMMA PossibleSteps ==
    ASSUME Undisturbed, NobodyCancels, [Next]_vars
    PROVE  \/ CheckoutTask \/ ValidatorTask \/ ConfirmTask \/ TimeoutTask
           \/ \E t \in Tx : PickupExpires(t) \/ TapBuy(t) \/ TapPickup(t)
           \/ \E b \in Bills : InsertBill(b)
           \/ Environment \/ TapScreen \/ UNCHANGED vars
<1>1. /\ ~\E k \in Cancellers : CancelTask(k)
      /\ ~LeaveCancel /\ ~LeaveIdle /\ ~EndRecovery
  BY DEF NobodyCancels, Cancellers, CancelTask, CancelDisabled, CancelDisableFails,
         RequestRefund, RefundDispensed, RefundFails, EndCancel, LeaveCancel, LeaveIdle,
         EndRecovery
<1>2. ~IdleFires /\ ~IdleRelaxes
  BY DEF Undisturbed, IdleFires, IdleRelaxes
<1>3. \A t \in Tx : ~TapCancel(t)
  BY DEF Undisturbed, TapCancel
<1>4. ~Operators
  BY DEF Undisturbed, Operators, OrderDone, OrderCancel, BeginRecovery, EnterServiceMode,
         ExitServiceMode, RefreshStatus, ClearDrift, ClearRestricted
<1>. QED
  BY <1>1, <1>2, <1>3, <1>4 DEF Next, Supervisors, Customer

LEMMA StepBorn ==
    ASSUME Undisturbed, ContractBasic, [Next]_vars
    PROVE  BornFirst' /\ (NoneStarts \/ StartPayment)
<1>0. Basic /\ BornFirst /\ NobodyCancels
  BY DEF ContractBasic, OnceBasic, ContractInvariant
<1>1. CASE CheckoutTask
  BY <1>0, <1>1, CheckoutBorn
<1>2. CASE ValidatorTask
  BY <1>0, <1>2, ValidatorBorn
<1>3. CASE ConfirmTask \/ TimeoutTask \/ (\E t \in Tx : TapPickup(t))
  BY <1>0, <1>3, ClosingBorn
<1>4. ASSUME NEW t \in Tx, PickupExpires(t) \/ TapBuy(t)
      PROVE  BornFirst' /\ NoneStarts
  <2>1. UNCHANGED <<active, tx>> /\ \E k \in Tasks \ {"validator"} : \E label : Start(k, t, label)
    BY <1>4, TaskNames DEF PickupExpires, TapBuy
  <2>. QED
    BY <1>0, <2>1, StillBorn
<1>5. ASSUME (\E b \in Bills : InsertBill(b)) \/ Environment \/ TapScreen \/ UNCHANGED vars
      PROVE  BornFirst' /\ NoneStarts
  <2>1. UNCHANGED <<active, tx, pc, on>>
    BY <1>5 DEF InsertBill, Environment, ValidatorBreaks, HealthBlocks, HealthUnblocks,
                TapScreen, vars
  <2>. QED
    BY <1>0, <2>1, StillBorn
<1>. QED
  BY <1>0, <1>1, <1>2, <1>3, <1>4, <1>5, PossibleSteps

LEMMA StepContract ==
    ASSUME Undisturbed, WholeChange, ContractBasic, Basic', [Next]_vars
    PROVE  ContractInvariant' /\ ContractStep
<1>0. BornFirst' /\ NobodyCancels
  BY StepBorn DEF ContractBasic, ContractInvariant
<1>1. CASE CheckoutTask
  BY <1>0, <1>1, CheckoutQuiet, SessionOpens, SessionHeld, PurchaseCreated DEF CheckoutTask
<1>2. CASE TakeEvent \/ CreditBill \/ ValidatorFault \/ BillNotEnough \/ BeginCompletion
  BY <1>0, <1>2, EventTaken, BillCredited, FaultTaken, BillLeft, PaymentCompletes
<1>3. CASE CompletionDisabled \/ CompletionDisableFails \/ RequestChange \/ ChangeDispensed
           \/ ChangeFails \/ Repaid \/ RepayFails
  BY <1>0, <1>3, AcceptanceCloses, AcceptanceNotClosed, ChangeAsked, ChangePaid,
     ChangeNotPaid, AllRepaid, NotAllRepaid
<1>4. CASE AuthorizeSale \/ MotorDone \/ MotorFails \/ WindowOpens \/ WindowOpenFails
  BY <1>0, <1>4, SaleAuthorized, MotorTurned, MotorStopped, WindowOpened, WindowNotOpened
<1>5. CASE ConfirmTask \/ TimeoutTask \/ (\E t \in Tx : PickupExpires(t) \/ TapPickup(t))
  BY <1>0, <1>5, PickupEnds, ClosingHeld, DeadlineKeeps, PickupTapped
  DEF ConfirmTask, TimeoutTask
<1>6. CASE (\E t \in Tx : TapBuy(t)) \/ (\E b \in Bills : InsertBill(b))
  BY <1>0, <1>6, TapBuyKeeps, BillInserted
<1>7. CASE Environment \/ TapScreen \/ UNCHANGED vars
  BY <1>0, <1>7, EnvironmentKeeps
<1>. QED
  BY <1>0, <1>1, <1>2, <1>3, <1>4, <1>5, <1>6, <1>7, PossibleSteps DEF ValidatorTask

LEMMA ContractStarts ==
    ASSUME Init
    PROVE  ContractInvariant /\ Contract!ContractInit
<1>0. /\ active = NoTx /\ tx = [t \in Tx |-> UnbornTransaction] /\ ~accepting
      /\ queue = << >> /\ cached = {} /\ window = "closed"
      /\ pc = [k \in Tasks |-> "rest"] /\ NoTx \notin Tx
      /\ inserted = [t \in SaleIds |-> 0] /\ Tx \subseteq SaleIds
      /\ paid = [t \in Tx |-> 0] /\ vended = [t \in Tx |-> 0]
  BY StateAssumption DEF Init, SaleIds
<1>1. ASSUME NEW t \in Tx
      PROVE  /\ tx[t] = UnbornTransaction /\ ~Flagged(tx[t]) /\ Phase(t) = "new"
             /\ inserted[t] = 0 /\ paid[t] = 0 /\ vended[t] = 0
  BY <1>0, Phases DEF Phase, Flagged, UnbornTransaction
<1>2. \A k \in {"checkout", "validator", "confirm", "timeout", "cancel", "idle", "recover"} :
          pc[k] = "rest"
  BY <1>0 DEF Tasks
<1>3. SalesTell
  <2> SUFFICES ASSUME NEW t \in Tx
               PROVE  RecordTells(t) /\ PlaceKept(t) /\ paid[t] + Price * vended[t] <= inserted[t]
    BY DEF SalesTell
  <2>1. RecordTells(t)
    BY <1>0, <1>1 DEF RecordTells, UnbornTransaction, Delivered, Flagged
  <2>2. PlaceKept(t)
    BY <1>1 DEF PlaceKept, Unfinished
  <2>3. paid[t] + Price * vended[t] <= inserted[t]
    BY <1>1, PriceAssumption
  <2>. QED
    BY <2>1, <2>2, <2>3
<1>4. CashCounted
  BY <1>0, <1>1 DEF CashCounted, BillWaits, UnbornTransaction
<1>5. /\ BornFirst /\ NobodyCancels /\ CheckoutAt /\ ValidatorAt /\ ClosersAt
      /\ BillsAreOurs /\ AcceptingFor /\ WindowFor
  BY <1>0, <1>2
  DEF BornFirst, NobodyCancels, CheckoutAt, ValidatorAt, Completing, ClosersAt, BillsAreOurs,
      BillWaits, AcceptingFor, WindowFor
<1>6. Contract!ContractInit
  BY <1>0, <1>1 DEF Contract!ContractInit
<1>. QED
  BY <1>3, <1>4, <1>5, <1>6 DEF ContractInvariant

LEMMA ContractHolds ==
    ASSUME Undisturbed, WholeChange
    PROVE  Spec => [](ContractBasic /\ Basic)
<1>1. Init => ContractInvariant
  BY ContractStarts
<1>2. OnceBasic /\ ContractInvariant /\ [Next]_vars /\ OnceBasic' => ContractInvariant'
  BY StepContract DEF ContractBasic, OnceBasic
<1>3. OnceBasic => Basic
  BY DEF OnceBasic
<1>4. Spec => []OnceBasic
  BY Regime, OnceHolds
<1>. QED
  BY <1>1, <1>2, <1>3, <1>4, PTL DEF Spec, ContractBasic

-----------------------------------------------------------------------------
(* The theorems.                                                           *)

(* While customers wait for their bills to be counted, nobody cancels or   *)
(* services the machine, and the dispenser pays the change whole or not at *)
(* all, every step of complete_payment, handle_vend_authorized,            *)
(* confirm_pickup, the pickup timeout and the validator's event loop,      *)
(* however they interleave and fail, is a step of the contract or none.    *)
THEOREM ContractKept ==
    ASSUME Undisturbed, WholeChange
    PROVE  Spec => MeetsContract
<1> DEFINE A == Contract!ContractNext
<1> DEFINE v == Contract!contractVars
<1>1. Init => Contract!ContractInit
  BY ContractStarts
<1>2. ContractBasic /\ Basic' /\ [Next]_vars => [A]_v
  BY StepContract DEF ContractStep
<1> HIDE DEF A, v
<1>3. Spec => [][A]_v
  BY ContractHolds, <1>2, PTL DEF Spec
<1>4. Spec => Contract!ContractInit /\ [][A]_v
  BY <1>1, <1>3 DEF Spec
<1>. QED
  BY <1>4 DEF A, v, MeetsContract, Contract!ContractSpec

(* Under the same hypotheses no sale ever costs the machine more than its  *)
(* customer put in: its product and its payouts, the refund after change   *)
(* that could not be given included, stay within the cash inserted         *)
(* (_attempt_change, _refund_after_failed_change).                         *)
THEOREM NeverMoreOutThanIn ==
    ASSUME Undisturbed, WholeChange
    PROVE  Spec => []NeverOverpays
<1>1. ContractBasic => NeverOverpays
  BY DEF ContractBasic, ContractInvariant, SalesTell, NeverOverpays
<1>. QED
  BY ContractHolds, <1>1, PTL

(* Under the same hypotheses the validator, once everything is at rest,    *)
(* takes bills only for a sale that collects cash or is flagged, although  *)
(* complete_payment may fail between confirm_payment and the answer to     *)
(* disable_acceptance.                                                     *)
THEOREM BillsOnlyForSales ==
    ASSUME Undisturbed, WholeChange
    PROVE  Spec => []AcceptsOnlyForSale
<1>1. ContractBasic => AcceptsOnlyForSale
  BY StateAssumption, TaskNames
  DEF ContractBasic, ContractInvariant, AcceptingFor, AcceptsOnlyForSale, AllAtRest, AtRest
<1>. QED
  BY ContractHolds, <1>1, PTL

(* Under the same hypotheses no sale starts to take cash while the window  *)
(* of an earlier one is open: until it has closed, that sale either is the *)
(* active one, over which create_transaction makes no other, or has left   *)
(* the machine in a state in which MachineStatus forbids sales.            *)
THEOREM NoSessionWithOpenWindow ==
    ASSUME Undisturbed, WholeChange
    PROVE  Spec => NoSaleWithOpenWindow
<1> DEFINE A == \A u \in Tx : SessionStarts(u) => window = "closed"
<1>1. ContractBasic /\ [Next]_vars => A
  <2> SUFFICES ASSUME ContractBasic, [Next]_vars, NEW u \in Tx, SessionStarts(u)
               PROVE  window = "closed"
    OBVIOUS
  <2>1. StartPayment /\ tx' # tx
    BY StepBorn DEF NoneStarts, SessionStarts
  <2>2. SalesAllowed /\ pc["checkout"] = "stop"
    BY <2>1 DEF StartPayment
  <2>3. PICK t \in Tx : t = on["checkout"]
    BY <2>2, OnSale, TaskNames, LabelNames DEF ContractBasic, OnceBasic
  <2>4. active = t /\ tx[t].session = "none"
    BY <2>2, <2>3 DEF ContractBasic, ContractInvariant, CheckoutAt
  <2>5. vended[t] = 0
    BY <2>4 DEF ContractBasic, ContractInvariant, SalesTell, RecordTells
  <2>6. ~Locked
    BY <2>2, NotAllowed
  <2>. QED
    BY <2>4, <2>5, <2>6
    DEF ContractBasic, ContractInvariant, WindowFor, OnceBasic, Basic, TypeOK
<1> HIDE DEF A
<1>2. Spec => [][A]_vars
  BY ContractHolds, <1>1, PTL DEF Spec
<1>. QED
  BY <1>2 DEF A, NoSaleWithOpenWindow

=============================================================================
