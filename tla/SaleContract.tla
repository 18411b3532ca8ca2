---------------------------- MODULE SaleContract ----------------------------
(***************************************************************************)
(* What the machine promises its customers and its owner, without a word   *)
(* about state machines, tasks, devices or journals.  A purchase takes     *)
(* cash while no other one is unfinished; it gives back what is too much   *)
(* and releases one product for exactly its price; it ends when the window *)
(* has closed behind the product.  Whatever else happens, it is held, with *)
(* all later purchases, for an operator to look at.                        *)
(***************************************************************************)
EXTENDS Naturals

CONSTANTS Purchase, Cost

VARIABLES
    phase,   \* "new", "taking" cash, "handing" the product over, "over", or "held"
    cash,    \* what its customer put in
    back,    \* what came back out
    goods    \* products released

contractVars == <<phase, cash, back, goods>>

ContractInit ==
    /\ phase = [p \in Purchase |-> "new"] /\ cash = [p \in Purchase |-> 0]
    /\ back = [p \in Purchase |-> 0] /\ goods = [p \in Purchase |-> 0]

Enters(p, next) == phase' = [phase EXCEPT ![p] = next]
Grows(amount, p) ==
    amount' = [amount EXCEPT ![p] = amount'[p]] /\ amount'[p] > amount[p]

BeginPurchase(p) ==
    /\ phase[p] = "new" /\ \A q \in Purchase \ {p} : phase[q] \in {"new", "over"}
    /\ Enters(p, "taking") /\ UNCHANGED <<cash, back, goods>>

TakeCash(p) ==
    /\ phase[p] \in {"taking", "held"} /\ Grows(cash, p) /\ UNCHANGED <<phase, back, goods>>

\* A payout that goes wrong holds the purchase at once.
GiveBack(p) ==
    /\ phase[p] \in {"taking", "held"} /\ Grows(back, p)
    /\ back'[p] + Cost * goods[p] <= cash[p]
    /\ UNCHANGED phase \/ Enters(p, "held")
    /\ UNCHANGED <<cash, goods>>

\* Also a motor that reports a failure may have released the product.
ReleaseProduct(p) ==
    /\ phase[p] = "taking" /\ goods[p] = 0 /\ cash[p] - back[p] = Cost
    /\ goods' = [goods EXCEPT ![p] = 1]
    /\ Enters(p, "handing") \/ Enters(p, "held")
    /\ UNCHANGED <<cash, back>>

FinishPurchase(p) ==
    phase[p] = "handing" /\ Enters(p, "over") /\ UNCHANGED <<cash, back, goods>>

\* A fault of the validator that was late may even hold a purchase that is over.
HoldPurchase(p) == Enters(p, "held") /\ UNCHANGED <<cash, back, goods>>

ContractNext ==
    \E p \in Purchase :
        \/ BeginPurchase(p) \/ TakeCash(p) \/ GiveBack(p) \/ ReleaseProduct(p)
        \/ FinishPurchase(p) \/ HoldPurchase(p)

ContractSpec == ContractInit /\ [][ContractNext]_contractVars

=============================================================================
