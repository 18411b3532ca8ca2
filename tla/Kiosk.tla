-------------------------------- MODULE Kiosk --------------------------------
(***************************************************************************)
(* KioskPresenter, its session and its navigation (ui/): the coroutines    *)
(* that taps and the inactivity timer start, each suspended while the core *)
(* works for it, against the domain events that reach handle_domain_event  *)
(* meanwhile, and the rendering that shows a screen other than the         *)
(* navigation's when sales are blocked.  The core's sale is seen through   *)
(* its stage.                                                              *)
(***************************************************************************)
EXTENDS Naturals, Sequences, FiniteSets, SequencesExt

CONSTANTS
    Orders,        \* sales
    NoOrder,
    Taps,          \* presenter coroutines that may be suspended at once
    MaxTaps,       \* bound: taps
    MaxTroubles    \* bound: faults, blocks, recoveries

ASSUME KioskAssumption ==
    NoOrder \notin Orders /\ MaxTaps \in Nat /\ MaxTroubles \in Nat

VARIABLES
    stage,     \* each sale, in the core
    holds,     \* sale_blockers: a subset of {"fault", "recovery"}
    nav,       \* NavigationState: the current screen and the history
    shown,     \* the screen last rendered
    order,     \* KioskSessionState.active_transaction_id
    tap,       \* each coroutine: what it awaits, and for which sale
    taps, troubles

kioskVars == <<stage, holds, nav, shown, order, tap, taps, troubles>>

Rest == [does |-> "rest", for |-> NoOrder]
Customers == {"HOME", "CATALOG", "PAYMENT", "DISPENSING", "PICKUP", "REFUND", "NO_CHANGE",
              "SALES_BLOCKED"}
\* Screens that blocked sales do not replace; ADMIN stands for all five tabs.
Unblockable == {"SERVICE", "DIAGNOSTICS", "ERROR", "RESTRICTED", "MANUAL_REVIEW", "PIN",
                "THANK_YOU", "ADMIN"}
Screens == Customers \cup Unblockable
HistoryKept == 2   \* bound: only the last screens of the history are kept

Home == [at |-> "HOME", history |-> << >>]

Open == {"collecting", "paid", "window", "stuck"}
Busy == {t \in Orders : stage[t] \in Open}

KioskTypeOK ==
    /\ stage \in [Orders -> {"unborn", "closed"} \cup Open]
    /\ holds \subseteq {"fault", "recovery"} /\ shown \in Screens
    /\ nav.at \in Screens /\ nav.history \in Seq(Screens) /\ Len(nav.history) <= HistoryKept
    /\ order \in Orders \cup {NoOrder}
    /\ tap \in [Taps -> [does : {"rest", "checkout", "cancel", "home"},
                         for : Orders \cup {NoOrder}]]
    /\ taps \in 0 .. MaxTaps /\ troubles \in 0 .. MaxTroubles

KioskInit ==
    /\ stage = [t \in Orders |-> "unborn"] /\ holds = {}
    /\ nav = Home /\ shown = "HOME"
    /\ order = NoOrder /\ tap = [p \in Taps |-> Rest]
    /\ taps = 0 /\ troubles = 0

-----------------------------------------------------------------------------
(* Navigation and rendering.                                               *)

\* go_to
Visited(n, s) ==
    LET all == Append(n.history, n.at)
    IN  IF s = n.at THEN n
        ELSE [at |-> s, history |-> IF Len(all) > HistoryKept THEN Tail(all) ELSE all]

WentBack(n) == IF n.history = << >> THEN n
               ELSE [at |-> Last(n.history), history |-> Front(n.history)]

NothingToPay == \A t \in Orders : stage'[t] \notin Open

\* _build_current_render of the navigation n.  A payment page with no sale
\* open falls back to the catalogue, and takes the navigation with it.
Render(n) ==
    IF "recovery" \in holds' /\ n.at \notin Unblockable THEN nav' = n /\ shown' = "RESTRICTED"
    ELSE IF holds' # {} /\ n.at \notin Unblockable THEN nav' = n /\ shown' = "SALES_BLOCKED"
    ELSE IF n.at = "PAYMENT" /\ NothingToPay
         THEN nav' = Visited(n, "CATALOG") /\ shown' = "CATALOG"
    ELSE nav' = n /\ shown' = n.at

Show(s) == Render(Visited(nav, s))
ShowHome == Render(Home)

Tapped == taps < MaxTaps /\ taps' = taps + 1
Asleep(p) == tap[p].does = "rest"
Suspend(p, what, t) == tap' = [tap EXCEPT ![p] = [does |-> what, for |-> t]]
Wake(p) == tap' = [tap EXCEPT ![p] = Rest]

-----------------------------------------------------------------------------
(* Checkout.                                                               *)

\* The pay button: the core starts the sale, or refuses it.
PayTap(p) ==
    /\ Tapped /\ Asleep(p)
    /\ \/ \E t \in Orders :
            /\ stage[t] = "unborn" /\ Busy = {} /\ holds = {}
            /\ stage' = [stage EXCEPT ![t] = "collecting"]
            /\ Suspend(p, "checkout", t)
            /\ UNCHANGED <<nav, shown, holds>>
       \/ /\ UNCHANGED <<stage, holds, tap>>
          /\ Show("ERROR") \/ Show("NO_CHANGE")
    /\ UNCHANGED <<order, troubles>>

\* start_cash_checkout returned: only now does the session know the sale.
CheckoutReturns(p) ==
    /\ tap[p].does = "checkout"
    /\ order' = tap[p].for /\ Wake(p)
    /\ UNCHANGED <<stage, holds, taps, troubles>>
    /\ Show("PAYMENT")

\* The sale was begun, then no safe change could be found for it or the validator
\* did not start: it stays the core's active sale and the session never knows it.
CheckoutFails(p) ==
    /\ tap[p].does = "checkout" /\ stage[tap[p].for] = "collecting"
    /\ troubles < MaxTroubles /\ troubles' = troubles + 1
    /\ stage' = [stage EXCEPT ![tap[p].for] = "stuck"]
    /\ Wake(p) /\ UNCHANGED <<order, taps>>
    /\ \/ UNCHANGED holds /\ Show("NO_CHANGE")
       \/ holds' = holds \cup {"fault"} /\ Show("ERROR")

-----------------------------------------------------------------------------
(* Leaving a purchase.                                                     *)

\* The cancel button ("cancel"), or home: the button, the success page's button
\* and the inactivity timer ("home").
LeaveTap(p, what) ==
    /\ Tapped /\ Asleep(p)
    /\ UNCHANGED <<stage, holds, troubles>>
    /\ IF order # NoOrder
       THEN Suspend(p, what, order) /\ UNCHANGED <<nav, shown, order>>
       ELSE /\ IF what = "home" THEN ShowHome ELSE Show("CATALOG")
            /\ UNCHANGED <<tap, order>>

\* The core cancelled the sale; its transaction_cancelled has already emptied
\* the session and reset the navigation.  show_home runs again, and cancels the
\* sale the session has got meanwhile, if any.
CancelSucceeds(p) ==
    LET t == tap[p].for
    IN  /\ tap[p].does \in {"cancel", "home"} /\ stage[t] \in {"collecting", "paid", "closed"}
        /\ stage' = [stage EXCEPT ![t] = "closed"]
        /\ UNCHANGED <<holds, taps, troubles>>
        /\ order' = NoOrder /\ ShowHome /\ Wake(p)

\* Mutant: whatever the cancellation raises, the purchase is forgotten.
ForgetsAnyway(p, reported) == order' = NoOrder /\ ShowHome

\* A FlowerVendingError is shown and the sale is kept; any other exception, a
\* device adapter's, leaves the cancel button's task, and show_home swallows it.
AfterRefusal(p, reported) ==
    IF reported THEN Show("ERROR") /\ UNCHANGED order
    ELSE IF tap[p].does = "home" THEN order' = NoOrder /\ ShowHome
    ELSE UNCHANGED <<order, nav, shown>>

CancelFails(p, reported) ==
    /\ tap[p].does \in {"cancel", "home"} /\ troubles < MaxTroubles
    /\ troubles' = troubles + 1
    /\ UNCHANGED <<stage, holds, taps>>
    /\ AfterRefusal(p, reported) /\ Wake(p)

\* The delivery page's button.
PickupTap(p) ==
    /\ Tapped /\ Asleep(p) /\ order # NoOrder /\ stage[order] = "window"
    /\ stage' = [stage EXCEPT ![order] = "closed"]
    /\ UNCHANGED <<holds, tap, troubles>>
    /\ order' = NoOrder /\ ShowHome

\* clear_simulator_recovery_state: with simulated devices the faults are taken
\* away, and every unfinished sale is marked cancelled, whatever it holds; in
\* production nothing happens.
SimulatorRecovers ==
    /\ holds' \in {holds \ {"recovery"}, {}}
    /\ stage' = [t \in Orders |-> IF stage[t] \in Open THEN "closed" ELSE stage[t]]

\* The "reset" button of the error, the restricted and the service screens.
ClearRestrictedTap ==
    /\ Tapped /\ shown \in {"ERROR", "RESTRICTED", "SALES_BLOCKED", "SERVICE"}
    /\ SimulatorRecovers \/ UNCHANGED <<stage, holds>>
    /\ UNCHANGED <<tap, troubles>>
    /\ order' = NoOrder /\ ShowHome

\* The catalogue, the PIN page, service, diagnostics and the admin tabs.
OpenTap(s) ==
    /\ Tapped /\ s \in {"CATALOG", "PIN", "SERVICE", "DIAGNOSTICS", "ADMIN"} /\ nav.at # s
    /\ UNCHANGED <<stage, holds, order, tap, troubles>>
    /\ Show(s)

BackTap ==
    /\ Tapped /\ nav.history # << >>
    /\ UNCHANGED <<stage, holds, order, tap, troubles>>
    /\ Render(WentBack(nav))

-----------------------------------------------------------------------------
(* Domain events.                                                          *)

Event == UNCHANGED <<tap, taps>>
Quiet == UNCHANGED <<holds, order, troubles>>
Goes(t, from, to) == stage[t] = from /\ stage' = [stage EXCEPT ![t] = to]

CashUpdated(t) ==
    /\ stage[t] = "collecting" /\ UNCHANGED stage /\ Quiet /\ Event /\ Show("PAYMENT")

Confirmed(t) == Goes(t, "collecting", "paid") /\ Quiet /\ Event /\ Show("DISPENSING")

WindowOpened(t) == Goes(t, "paid", "window") /\ Quiet /\ Event /\ Show("PICKUP")

\* The thank-you page is rendered, then the session is emptied.
Completed(t) ==
    /\ Goes(t, "window", "closed") /\ UNCHANGED <<holds, troubles>> /\ Event
    /\ Show("THANK_YOU") /\ order' = NoOrder

\* The idle coordinator or an operator cancelled the sale: nothing is rendered.
CancelledElsewhere(t) ==
    /\ Goes(t, "collecting", "closed") /\ nav' = Home /\ order' = NoOrder
    /\ UNCHANGED <<shown, holds, troubles>> /\ Event

Trouble == troubles < MaxTroubles /\ troubles' = troubles + 1

\* manual_review_required, refund_failed.
Stuck(t) ==
    /\ Trouble /\ stage[t] \in {"collecting", "paid", "window"}
    /\ stage' = [stage EXCEPT ![t] = "stuck"] /\ holds' = holds \cup {"recovery"}
    /\ UNCHANGED order /\ Event
    /\ Show("RESTRICTED") \/ Show("MANUAL_REVIEW")

\* refund_requested, refund_dispensed: the sale goes on to its cancellation.
Refunding(t) ==
    /\ stage[t] = "collecting" /\ nav.at # "REFUND" /\ UNCHANGED stage
    /\ Quiet /\ Event /\ Show("REFUND")

\* recover_transaction of a sale that may be cancelled, or a technician's review.
Recovered(t) ==
    /\ Goes(t, "stuck", "closed") /\ holds' = holds \ {"recovery"}
    /\ UNCHANGED <<order, troubles>> /\ Event
    /\ Show("RESTRICTED")

\* The health monitor's events: a device fault forgets the purchase, a door or
\* a temperature does not.
MachineFaulted ==
    /\ Trouble /\ holds' = holds \cup {"fault"} /\ order' = NoOrder
    /\ UNCHANGED stage /\ Event /\ Show("ERROR")

SalesStop ==
    /\ Trouble /\ holds' = holds \cup {"fault"}
    /\ UNCHANGED <<stage, order>> /\ Event /\ Show("SALES_BLOCKED")

SalesResume ==
    /\ "fault" \in holds /\ holds' = holds \ {"fault"}
    /\ UNCHANGED <<stage, order, nav, shown, troubles>> /\ Event

KioskNext ==
    \/ \E p \in Taps :
         \/ PayTap(p) \/ CheckoutReturns(p) \/ CheckoutFails(p)
         \/ LeaveTap(p, "cancel") \/ LeaveTap(p, "home")
         \/ CancelSucceeds(p) \/ PickupTap(p)
         \/ \E reported \in BOOLEAN : CancelFails(p, reported)
    \/ ClearRestrictedTap \/ BackTap
    \/ \E s \in Screens : OpenTap(s)
    \/ \E t \in Orders :
         \/ CashUpdated(t) \/ Confirmed(t) \/ WindowOpened(t) \/ Completed(t)
         \/ CancelledElsewhere(t) \/ Stuck(t) \/ Refunding(t) \/ Recovered(t)
    \/ MachineFaulted \/ SalesStop \/ SalesResume

KioskSpec == KioskInit /\ [][KioskNext]_kioskVars

-----------------------------------------------------------------------------
(* Properties.                                                             *)

\* The kiosk forgets a purchase, so that no button of it reaches the sale again,
\* only when the sale no longer takes money, or in one of four ways: a device
\* fault is reported, the reset button is pressed, the device raises while home
\* cancels it, or a coroutine begun for an earlier sale, over since, returns late
\* (no handler compares the sale it was begun for with the session's).  A refused
\* cancellation of this sale never makes the kiosk forget it.
PurchaseKeptWhileCollecting ==
    [][\A t \in Orders :
         order = t /\ order' # t /\ stage'[t] = "collecting" =>
            \/ MachineFaulted \/ ClearRestrictedTap
            \/ \E p \in Taps : tap[p].for \notin {t, NoOrder} /\ tap[p].does # "rest" /\ Wake(p)
            \/ \E p \in Taps : tap[p].does = "home" /\ CancelFails(p, FALSE)
      ]_kioskVars

=============================================================================
