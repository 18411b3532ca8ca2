--------------------------- MODULE SaleTransaction --------------------------
(***************************************************************************)
(* The Transaction entity (domain/entities/transaction.py) with its        *)
(* PaymentSession: one record, and one operator per mutating method.  The  *)
(* entity checks almost nothing itself: only record_stacked_cash,          *)
(* confirm_payment and authorize_vend can refuse, and their refusals are   *)
(* the predicates CanStack, CanConfirm and CanAuthorize.  Every other      *)
(* method overwrites the status whatever it was, which is what makes late  *)
(* or concurrent callers dangerous.                                        *)
(*                                                                         *)
(* Not kept: identifiers, timestamps, dispense_status and delivery_status, *)
(* which the modelled code writes and never reads.  A change reserve is    *)
(* only "attached or not" here; its contents belong to the change manager. *)
(***************************************************************************)
EXTENDS Integers

CONSTANT Price          \* price of the product, in minor units

ASSUME PriceAssumption == Price \in Nat       \* Amount refuses less

TransactionStatuses ==
    { "unborn",          \* not created yet: no such object in the code
      "created", "accepting_cash", "payment_accepted", "dispensing_change",
      "dispensing_product", "opening_delivery_window",
      "waiting_for_customer_pickup", "closing_delivery_window",
      "pickup_timed_out", "completed", "cancelled", "faulted", "ambiguous" }

TransactionRecords ==
    [ status    : TransactionStatuses,
      payment   : {"pending", "accepting", "confirmed", "cancelled"},
      payout    : {"not_required", "reserved", "pending", "dispensed", "partial"},
      recovery  : {"none", "pending", "manual_review"},
      session   : {"none", "accepting", "completed", "cancelled"},
      accepted  : Nat,
      due       : Nat,
      reserve   : BOOLEAN,
      cancelled : BOOLEAN ]

UnbornTransaction ==
    [ status |-> "unborn", payment |-> "pending", payout |-> "not_required",
      recovery |-> "none", session |-> "none", accepted |-> 0, due |-> 0,
      reserve |-> FALSE, cancelled |-> FALSE ]

NewTransaction == [UnbornTransaction EXCEPT !.status = "created"]

-----------------------------------------------------------------------------
(* Methods that can refuse.                                                *)

\* add_stacked_bill refuses a cancelled session, record_stacked_cash a
\* missing one; a completed session still takes bills.
CanStack(r) == ~r.cancelled /\ r.session \notin {"none", "cancelled"}

\* Mutant: the bill is credited in escrow and again when it is stacked.
RecordCashTwice(r, bill) == [r EXCEPT !.accepted = @ + 2 * bill]

RecordStackedCash(r, bill) == [r EXCEPT !.accepted = @ + bill]

\* Mutant: the threshold is forgotten.
AnyCashConfirms(r) == r.accepted > 0

CanConfirm(r) == r.accepted >= Price

\* Mutant: every payment is taken for an exact one.
ConfirmWithoutChange(r) ==
    [r EXCEPT !.payment = "confirmed", !.status = "payment_accepted",
              !.session = IF @ = "none" THEN @ ELSE "completed",
              !.due = 0, !.payout = "not_required"]

ConfirmPayment(r) ==
    LET overpaid == r.accepted - Price
    IN  [r EXCEPT !.payment = "confirmed",
                  !.status  = "payment_accepted",
                  !.session = IF @ = "none" THEN @ ELSE "completed",
                  !.due     = overpaid,
                  !.payout  = IF overpaid = 0 THEN "not_required" ELSE @]

CanAuthorize(r) ==
    /\ r.payment = "confirmed"
    /\ r.due > 0 => r.payout = "dispensed"

AuthorizeVend(r) == [r EXCEPT !.status = "dispensing_product"]

-----------------------------------------------------------------------------
(* Methods that always succeed.                                            *)

\* attach_change_reserve, when there is a plan, then attach_payment_session.
StartCashSession(r, reserved) ==
    [r EXCEPT !.session = "accepting",
              !.status  = "accepting_cash",
              !.payment = "accepting",
              !.reserve = reserved,
              !.payout  = IF reserved THEN "reserved" ELSE @]

\* attach_change_reserve of the final plan, then mark_change_pending.
MarkChangePending(r) ==
    [r EXCEPT !.reserve = TRUE, !.payout = "pending", !.status = "dispensing_change"]

MarkChangeDispensed(r) == [r EXCEPT !.payout = "dispensed"]

MarkChangePartial(r) ==
    [r EXCEPT !.payout = "partial", !.status = "ambiguous", !.recovery = "pending"]

ReleaseReserve(r) == [r EXCEPT !.reserve = FALSE]

MarkProductDispensed(r) == [r EXCEPT !.status = "opening_delivery_window"]
\* Mutant: the status that arms the pickup deadline is not set.
DeadlineNotArmed(r)     == r
MarkWindowOpened(r)     == [r EXCEPT !.status = "waiting_for_customer_pickup"]
ConfirmPickup(r)        == [r EXCEPT !.status = "closing_delivery_window"]
MarkWindowClosed(r)     == [r EXCEPT !.status = "completed"]

MarkPickupTimedOut(r) ==
    [r EXCEPT !.status = "pickup_timed_out", !.recovery = "manual_review"]

\* Mutant: a cancelled sale starts over with no cash.
CancelForgetsCash(r) ==
    [r EXCEPT !.cancelled = TRUE, !.status = "cancelled", !.payment = "cancelled",
              !.session = IF @ = "none" THEN @ ELSE "cancelled", !.accepted = 0]

\* cancel() leaves the recovery status alone.
Cancel(r) ==
    [r EXCEPT !.cancelled = TRUE,
              !.status    = "cancelled",
              !.payment   = "cancelled",
              !.session   = IF @ = "none" THEN @ ELSE "cancelled"]

MarkFaulted(r)   == [r EXCEPT !.status = "faulted",   !.recovery = "pending"]
\* Mutant: the ambiguous outcome leaves no mark.
AmbiguityLost(r) == r
MarkAmbiguous(r) == [r EXCEPT !.status = "ambiguous", !.recovery = "manual_review"]

=============================================================================
