----------------------------- MODULE MachineFsm -----------------------------
(***************************************************************************)
(* The machine's finite state machine (app/fsm): the states, the table of  *)
(* allowed transitions, and what StateMachineEngine does with the table.   *)
(*                                                                         *)
(* transition(s) is a no-op when the machine is already in s, raises       *)
(* InvariantViolationError when the table has no such edge, and otherwise  *)
(* moves.  MayEnter is therefore "transition(to) does not raise", and      *)
(* CanTransition is the query can_transition, which is false for the       *)
(* current state.  force_state has no guard at all: a model of it simply   *)
(* assigns the state.                                                      *)
(***************************************************************************)

MachineStates ==
    { "BOOT", "SELF_TEST", "IDLE", "PRODUCT_SELECTED", "CHECKING_AVAILABILITY",
      "CHECKING_CHANGE", "WAITING_FOR_PAYMENT", "ACCEPTING_CASH",
      "PAYMENT_ACCEPTED", "DISPENSING_CHANGE", "DISPENSING_PRODUCT",
      "OPENING_DELIVERY_WINDOW", "WAITING_FOR_CUSTOMER_PICKUP",
      "CLOSING_DELIVERY_WINDOW", "COMPLETED", "CANCELLED", "OUT_OF_SERVICE",
      "FAULT", "SERVICE_MODE", "REFUND", "MANUAL_REVIEW", "RECOVERY_PENDING" }

AllowedTransitions ==
    [ BOOT                        |-> {"SELF_TEST", "FAULT"},
      SELF_TEST                   |-> {"IDLE", "RECOVERY_PENDING", "OUT_OF_SERVICE", "FAULT"},
      IDLE                        |-> {"PRODUCT_SELECTED", "SERVICE_MODE", "OUT_OF_SERVICE", "FAULT"},
      PRODUCT_SELECTED            |-> {"CHECKING_AVAILABILITY", "CANCELLED", "FAULT"},
      CHECKING_AVAILABILITY       |-> {"CHECKING_CHANGE", "CANCELLED", "OUT_OF_SERVICE", "FAULT"},
      CHECKING_CHANGE             |-> {"WAITING_FOR_PAYMENT", "CANCELLED", "OUT_OF_SERVICE"},
      WAITING_FOR_PAYMENT         |-> {"ACCEPTING_CASH", "CANCELLED", "FAULT", "OUT_OF_SERVICE"},
      ACCEPTING_CASH              |-> {"PAYMENT_ACCEPTED", "CANCELLED", "FAULT", "OUT_OF_SERVICE",
                                       "RECOVERY_PENDING", "REFUND"},
      PAYMENT_ACCEPTED            |-> {"DISPENSING_CHANGE", "DISPENSING_PRODUCT", "FAULT",
                                       "RECOVERY_PENDING"},
      DISPENSING_CHANGE           |-> {"DISPENSING_PRODUCT", "FAULT", "RECOVERY_PENDING"},
      DISPENSING_PRODUCT          |-> {"OPENING_DELIVERY_WINDOW", "FAULT", "RECOVERY_PENDING",
                                       "REFUND"},
      OPENING_DELIVERY_WINDOW     |-> {"WAITING_FOR_CUSTOMER_PICKUP", "FAULT", "RECOVERY_PENDING"},
      WAITING_FOR_CUSTOMER_PICKUP |-> {"CLOSING_DELIVERY_WINDOW", "FAULT", "RECOVERY_PENDING"},
      CLOSING_DELIVERY_WINDOW     |-> {"COMPLETED", "FAULT", "RECOVERY_PENDING"},
      COMPLETED                   |-> {"IDLE", "OUT_OF_SERVICE"},
      CANCELLED                   |-> {"IDLE", "OUT_OF_SERVICE", "REFUND"},
      OUT_OF_SERVICE              |-> {"SERVICE_MODE", "IDLE", "RECOVERY_PENDING"},
      FAULT                       |-> {"IDLE", "OUT_OF_SERVICE", "SERVICE_MODE", "RECOVERY_PENDING"},
      SERVICE_MODE                |-> {"OUT_OF_SERVICE", "IDLE", "FAULT", "RECOVERY_PENDING"},
      REFUND                      |-> {"CANCELLED", "MANUAL_REVIEW", "FAULT", "RECOVERY_PENDING"},
      MANUAL_REVIEW               |-> {"IDLE", "OUT_OF_SERVICE", "FAULT", "SERVICE_MODE",
                                       "RECOVERY_PENDING"},
      RECOVERY_PENDING            |-> {"IDLE", "OUT_OF_SERVICE", "FAULT", "SERVICE_MODE"} ]

CanTransition(from, to) == to \in AllowedTransitions[from]

\* Mutant of MayEnter: force_state where the code calls transition.
ForceEnter(from, to) == TRUE

MayEnter(from, to) == from = to \/ CanTransition(from, to)

\* The states in which MachineStatus.refresh_permissions forbids sales.
UnsafeMachineStates ==
    { "BOOT", "SELF_TEST", "OUT_OF_SERVICE", "FAULT", "SERVICE_MODE",
      "RECOVERY_PENDING", "REFUND", "MANUAL_REVIEW" }

=============================================================================
