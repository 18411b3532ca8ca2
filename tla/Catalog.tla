---- MODULE Catalog ----
(* What the machine sells: InventoryService's products and slots, the cart   *)
(* of the catalogue screen, the checkout that charges for it, the motor's    *)
(* decrement, and the admin catalogue that edits it at any time. The tables   *)
(* are written only when the catalogue is seeded. Of the admin catalogue's    *)
(* buttons the switch and the removal work; editing a product renames it and  *)
(* raises at the price, adding one raises, so prices never change and a cart  *)
(* shows the price that will be charged for each of its lines.                *)
EXTENDS Integers, Sequences, FiniteSets, SequencesExt

CONSTANTS
  Items,       \* products, each with the slot of its own the catalogue gives it
  NoItem,
  Capacity,    \* of a slot
  SlotNamed,   \* products whose slot has the product's identifier
  MaxEdits,    \* bound: edits by the operator
  MaxSold      \* bound: sales begun

ASSUME CatalogAssumption ==
  {Capacity, MaxEdits, MaxSold} \subseteq Nat /\ SlotNamed \subseteq Items /\ NoItem \notin Items

VARIABLES
  known,     \* products (and slots) registered
  enabled,   \* Product.enabled
  stock,     \* Slot.quantity
  inside,    \* bouquets really in each slot
  rows,      \* the products and slots tables, as seeded
  offered,   \* the cards of the catalogue screen, as they were last rendered
  cart,      \* _CartManager.items
  sale,      \* the transaction's product and price, and how far it got
  edits, sold,
  touched,   \* items edited since the sale began
  miscounted \* items whose stock is not what the slot holds for a named reason

shelves == <<known, enabled, stock>>
catalogVars == <<known, enabled, stock, inside, rows, offered, cart, sale,
                 edits, sold, touched, miscounted>>

NoPurchase == [stage |-> "none", item |-> NoItem]
Stages == {"none", "paying", "authorized", "dispensed", "stranded", "faulted"}

CatalogTypeOK ==
  /\ known \subseteq Items /\ enabled \in [Items -> BOOLEAN]
  /\ stock \in [Items -> 0..Capacity] /\ inside \in [Items -> 0..Capacity]
  /\ rows \in [Items -> [quantity : 0..Capacity, enabled : BOOLEAN]]
  /\ DOMAIN offered \subseteq Items
  /\ \A n \in DOMAIN cart : cart[n].item \in Items /\ cart[n].qty \in 0..Capacity
  /\ sale.stage \in Stages /\ sale.item \in Items \cup {NoItem}
  /\ edits \in 0..MaxEdits /\ sold \in 0..MaxSold
  /\ touched \subseteq Items /\ miscounted \subseteq Items

(***************************************************************************)
(* The customer                                                            *)
(***************************************************************************)
\* Slot.is_enabled is never changed: it is what the seeded row says.
Sellable(i) == i \in known /\ rows[i].enabled /\ stock[i] > 0
WithoutStock(i) == i \in known /\ enabled[i]
EnsureSelection(i) == Sellable(i) /\ enabled[i]

CatalogEntry(i) == [quantity |-> stock[i], available |-> enabled[i] /\ Sellable(i)]
CatalogEntries == [i \in known |-> CatalogEntry(i)]

CatalogInit ==
  /\ known = Items /\ enabled \in [Items -> BOOLEAN]
  /\ stock \in [Items -> 0..Capacity] /\ inside = stock
  /\ rows = [i \in Items |-> [quantity |-> stock[i], enabled |-> enabled[i]]]
  /\ offered = CatalogEntries /\ cart = <<>> /\ sale = NoPurchase /\ edits = 0 /\ sold = 0
  /\ touched = {} /\ miscounted = {}

\* The catalogue is rendered again when its screen is shown; what changes in
\* between is not seen on it.
ShowCatalog ==
  /\ offered' = CatalogEntries
  /\ UNCHANGED <<shelves, inside, rows, cart, sale, edits, sold, touched, miscounted>>

InCart(i) == {n \in DOMAIN cart : cart[n].item = i}

AddButton(i) == i \in DOMAIN offered /\ offered[i].available

\* A line keeps the quantity of the card it was made from.
WithItem(i) ==
  IF InCart(i) = {}
    THEN Append(cart, [item |-> i, qty |-> 1, available |-> offered[i].quantity])
    ELSE [n \in DOMAIN cart |->
           IF n \in InCart(i) /\ cart[n].qty < cart[n].available
             THEN [cart[n] EXCEPT !.qty = @ + 1] ELSE cart[n]]

AddToCart(i) ==
  /\ AddButton(i) /\ cart' = WithItem(i)
  /\ UNCHANGED <<shelves, inside, rows, offered, sale, edits, sold, touched, miscounted>>

\* update_qty: what is available is the most of it.
Updated(line, delta) ==
  LET sum == line.qty + delta IN IF sum > line.available THEN line.available ELSE sum

\* The plus and minus buttons of a line; the plus is dead at what is available, and
\* a line of none is removed.
ChangeLine(i, delta) ==
  /\ \E n \in InCart(i) :
        LET qty == Updated(cart[n], delta)
        IN  /\ delta = -1 \/ cart[n].qty < cart[n].available
            /\ cart' = IF qty = 0 THEN RemoveAt(cart, n) ELSE [cart EXCEPT ![n].qty = qty]
  /\ UNCHANGED <<shelves, inside, rows, offered, sale, edits, sold, touched, miscounted>>

\* Whatever the cart holds, and whatever total it shows, one unit of its first line
\* is bought. A line no longer sold raises before the sale.
Pay ==
  /\ cart # <<>> /\ sale.stage = "none" /\ sold < MaxSold
  /\ EnsureSelection(cart[1].item)
  /\ sale' = [stage |-> "paying", item |-> cart[1].item]
  /\ sold' = sold + 1 /\ touched' = {}
  /\ UNCHANGED <<shelves, inside, rows, offered, cart, edits, miscounted>>

ClearCart ==
  /\ cart' = <<>>
  /\ UNCHANGED <<shelves, inside, rows, offered, sale, edits, sold, touched, miscounted>>

(***************************************************************************)
(* The sale                                                                *)
(***************************************************************************)
PaymentConfirmed ==
  /\ sale.stage = "paying" /\ sale' = [sale EXCEPT !.stage = "authorized"]
  /\ UNCHANGED <<shelves, inside, rows, offered, cart, edits, sold, touched, miscounted>>

CancelPayment ==
  /\ sale.stage = "paying" /\ sale' = NoPurchase
  /\ UNCHANGED <<shelves, inside, rows, offered, cart, edits, sold, touched, miscounted>>

\* mark_vended follows the motor: Slot.decrement checks again that the slot may
\* be sold from, and when it may not, the exception leaves the sale authorised,
\* its bouquet out of the slot behind a shut window.
MotorVends ==
  /\ sale.stage = "authorized"
  /\ inside' = [inside EXCEPT ![sale.item] = IF @ > 0 THEN @ - 1 ELSE 0]
  /\ \/ /\ Sellable(sale.item)
        /\ stock' = [stock EXCEPT ![sale.item] = @ - 1]
        /\ sale' = [sale EXCEPT !.stage = "dispensed"]
        /\ UNCHANGED miscounted
     \/ /\ ~Sellable(sale.item)
        /\ sale' = [sale EXCEPT !.stage = "stranded"]
        /\ miscounted' = miscounted \cup {sale.item}
        /\ UNCHANGED stock
  /\ UNCHANGED <<known, enabled, rows, offered, cart, edits, sold, touched>>

MotorFaults ==
  /\ sale.stage = "authorized" /\ sale' = [sale EXCEPT !.stage = "faulted"]
  /\ inside' \in {inside, [inside EXCEPT ![sale.item] = IF @ > 0 THEN @ - 1 ELSE 0]}
  /\ miscounted' = miscounted \cup {sale.item}
  /\ UNCHANGED <<shelves, rows, offered, cart, edits, sold, touched>>

SaleOver ==
  /\ sale.stage \in {"dispensed", "stranded", "faulted"} /\ sale' = NoPurchase
  /\ UNCHANGED <<shelves, inside, rows, offered, cart, edits, sold, touched, miscounted>>

(***************************************************************************)
(* The operator                                                            *)
(***************************************************************************)
Edit(i) == edits < MaxEdits /\ edits' = edits + 1 /\ touched' = touched \cup {i}

ToggleProduct(i) ==
  /\ i \in known /\ Edit(i) /\ enabled' = [enabled EXCEPT ![i] = ~@]
  /\ UNCHANGED <<known, stock, inside, rows, offered, cart, sale, sold, miscounted>>

\* The stock field passes the product's identifier for the slot's, and raises for a
\* slot of another name. The operator enters what the slot holds or something else.
SetProductStock(i, quantity) ==
  /\ i \in known \cap SlotNamed /\ Edit(i) /\ stock' = [stock EXCEPT ![i] = quantity]
  /\ miscounted' = IF quantity = inside[i] THEN miscounted \ {i}
                                           ELSE miscounted \cup {i}
  /\ UNCHANGED <<known, enabled, inside, rows, offered, cart, sale, sold>>

\* The product goes with its slot; a sale of it goes on.
RemoveProduct(i) ==
  /\ i \in known /\ Edit(i) /\ known' = known \ {i}
  /\ UNCHANGED <<enabled, stock, inside, rows, offered, cart, sale, sold, miscounted>>

\* The tables of the seeded catalogue come back: every sale and edit since is gone.
RestartCatalog ==
  /\ edits < MaxEdits /\ edits' = edits + 1
  /\ known' = Items /\ enabled' = [i \in Items |-> rows[i].enabled]
  /\ stock' = [i \in Items |-> rows[i].quantity]
  /\ miscounted' = {i \in Items : rows[i].quantity # inside[i]}
  /\ cart' = <<>> /\ sale' = NoPurchase /\ touched' = Items
  /\ UNCHANGED <<inside, rows, sold>> /\ offered' = CatalogEntries'

CatalogNext ==
  \/ ShowCatalog \/ Pay \/ ClearCart \/ PaymentConfirmed \/ CancelPayment
  \/ MotorVends \/ MotorFaults \/ SaleOver \/ RestartCatalog
  \/ \E i \in Items : \/ AddToCart(i) \/ ChangeLine(i, 1) \/ ChangeLine(i, -1)
                      \/ ToggleProduct(i)
                      \/ RemoveProduct(i)
                      \/ \E q \in 0..Capacity : SetProductStock(i, q)

CatalogSpec == CatalogInit /\ [][CatalogNext]_catalogVars

(***************************************************************************)
(* What the catalogue promises                                             *)
(***************************************************************************)

\* A sale that was begun has a bouquet: its motor never turns an empty slot, and
\* what it pushes out is booked, so that the window opens. The check is made when
\* the sale begins and used after the payment; only an operator's edit of that
\* product in between, a miscount or a restart breaks it.
BouquetIsThere ==
  /\ sale.stage = "stranded" => sale.item \in touched
  /\ sale.stage = "authorized" /\ sale.item \notin touched \cup miscounted
       => inside[sale.item] > 0
====
