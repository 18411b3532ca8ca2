--------------------------- MODULE Records_proofs ---------------------------
(***************************************************************************)
(* What the machine has written down: the blocks of the database are       *)
(* atomic and its journal survives, for any coroutines, rows and number of *)
(* power failures; a bouquet that is paid for is in its slot, for any      *)
(* items; what 1C and the telemetry were to be told is not forgotten; and  *)
(* a start brings back the money, the sales and the catalog of the tables. *)
(***************************************************************************)
EXTENDS Store, Catalog, Accounts, Ledger, ChangeManager_proofs, SequenceTheorems, FiniteSetTheorems,
        TLAPS

(***************************************************************************)
(* The store.  Both properties follow from one invariant: which of the two  *)
(* tables holds the rows at each stage of the migration, that only one      *)
(* with-block at a time has the connection's transaction, and that what it  *)
(* has written is in it and nowhere on disk.                                *)
(***************************************************************************)

Outer(w) == scope[w].kind = "outer"

\* The journal is in one table: the old one while it is being replaced.
InOneTable ==
    /\ hasOld => disk = {}
    /\ ~hasOld => old = {}
    /\ boot \in {"copied", "serves"} \/ version2 => ~hasOld
    /\ boot \in {"renamed", "created"} => hasOld

\* Until the schema is ready nobody has a transaction.
QuietBoot ==
    boot # "serves" =>
        wal = {} /\ running = NoWriter /\ \A w \in Writers : ~Outer(w)

OneOuter ==
    /\ \A w \in Writers : Outer(w) => manual /\ scope[w].rows \subseteq wal
    /\ \A w, x \in Writers : Outer(w) /\ Outer(x) => w = x

\* Rows that are not committed are on no table, and those of a block that is
\* over are where it left them.
RowsAreWhereTheyBelong ==
    /\ wal \cap (disk \cup old) = {}
    /\ \A e \in ended :
           /\ e.how = "done" => e.rows \subseteq disk \cup old
           /\ e.how # "done" /\ e.rows \cap shared = {} =>
                  e.rows \cap (disk \cup old \cup wal) = {}
    /\ v1 \subseteq disk \cup old

ScopesTyped ==
    /\ scope \in [Writers -> [kind : ScopeKinds, rows : SUBSET Rows]]
    /\ \A w \in Writers : scope[w].kind = "none" => scope[w].rows = {}

StoreInv ==
    /\ ScopesTyped /\ NoWriter \notin Writers
    /\ InOneTable /\ QuietBoot /\ OneOuter /\ RowsAreWhereTheyBelong

LEMMA StoreStarts == StoreInit => StoreInv
<1> SUFFICES ASSUME StoreInit PROVE StoreInv
    OBVIOUS
<1> USE StoreAssumption DEF StoreInit
<1>1. ScopesTyped /\ \A w \in Writers : ~Outer(w)
    BY DEF ScopesTyped, NoScope, ScopeKinds, Outer
<1> QED BY <1>1
        DEF StoreInv, InOneTable, QuietBoot, OneOuter, RowsAreWhereTheyBelong

\* The migration moves the rows from table to table and touches nothing else.
LEMMA BootKeeps ==
    ASSUME StoreInv,
           StartUp \/ RenameJournal \/ CreateJournal \/ CopyAndDropOld \/ SchemaReady
    PROVE  StoreInv'
<1>1. /\ UNCHANGED <<wal, manual, running, scope, ended, shared, v1>> /\ boot # "serves"
      /\ disk' \cup old' = disk \cup old
      /\ InOneTable'
    <2>1. CASE StartUp \/ CreateJournal \/ SchemaReady
        BY <2>1 DEF StartUp, CreateJournal, SchemaReady, Booting, connection, StoreInv, InOneTable
    <2>2. CASE RenameJournal
        BY <2>2 DEF RenameJournal, Booting, connection, StoreInv, InOneTable
    <2>3. CASE CopyAndDropOld
        BY <2>3 DEF CopyAndDropOld, Copied, Booting, connection, StoreInv, InOneTable
    <2> QED BY <2>1, <2>2, <2>3
<1>2. ScopesTyped' /\ \A w \in Writers : Outer(w)' <=> Outer(w)
    BY <1>1 DEF StoreInv, ScopesTyped, Outer
<1>3. QuietBoot' /\ OneOuter'
    BY <1>1, <1>2 DEF StoreInv, QuietBoot, OneOuter
<1>4. RowsAreWhereTheyBelong'
    BY <1>1 DEF StoreInv, RowsAreWhereTheyBelong, QuietBoot
<1> QED BY <1>1, <1>2, <1>3, <1>4 DEF StoreInv

LEMMA OpenKeeps ==
    ASSUME StoreInv, NEW w \in Writers, OpenScope(w)
    PROVE  StoreInv'
<1>1. UNCHANGED <<boot, version2, hasOld, old, v1, disk, ended, shared>> /\ boot = "serves"
    BY DEF OpenScope, MayRun, tables
<1>2. CASE manual
    <2>1. /\ scope' = [scope EXCEPT ![w].kind = "inner"] /\ running' = w
          /\ UNCHANGED <<wal, manual>> /\ scope[w].kind = "none"
        BY <1>2 DEF OpenScope, connection
    <2>2. ScopesTyped' /\ \A x \in Writers : Outer(x)' => Outer(x) /\ scope'[x] = scope[x]
        BY <2>1 DEF StoreInv, ScopesTyped, ScopeKinds, Outer
    <2> QED BY <1>1, <2>1, <2>2
            DEF StoreInv, InOneTable, QuietBoot, OneOuter, RowsAreWhereTheyBelong
<1>3. CASE ~manual /\ begun
    <2>1. wal' = {} /\ UNCHANGED <<manual, scope, running>>
        BY <1>3 DEF OpenScope
    <2>2. ScopesTyped' /\ \A x \in Writers : ~Outer(x) /\ ~Outer(x)'
        BY <1>3, <2>1 DEF StoreInv, ScopesTyped, OneOuter, Outer
    <2> QED BY <1>1, <2>1, <2>2
            DEF StoreInv, InOneTable, QuietBoot, OneOuter, RowsAreWhereTheyBelong
<1>4. CASE ~manual /\ ~begun
    <2>1. /\ scope[w].kind = "none"
          /\ scope' = [scope EXCEPT ![w].kind = "outer"]
          /\ running' = w /\ manual' /\ UNCHANGED wal
        BY <1>4 DEF OpenScope
    <2>2. /\ ScopesTyped' /\ scope'[w].rows = {}
          /\ \A x \in Writers : ~Outer(x) /\ (Outer(x)' => x = w)
        BY <1>4, <2>1 DEF StoreInv, ScopesTyped, ScopeKinds, OneOuter, Outer
    <2>3. OneOuter'
        BY <2>1, <2>2 DEF OneOuter
    <2> QED BY <1>1, <2>1, <2>2, <2>3
            DEF StoreInv, InOneTable, QuietBoot, RowsAreWhereTheyBelong
<1> QED BY <1>2, <1>3, <1>4

\* A new row joins the open transaction, or commits with what a cancelled
\* coroutine left in the connection; it was nowhere before.
LEMMA WriteKeeps ==
    ASSUME StoreInv, NEW w \in Writers, NEW r \in Rows, WriteRow(w, r)
    PROVE  StoreInv'
<1>1. /\ UNCHANGED <<boot, version2, hasOld, old, v1, manual, running>> /\ boot = "serves"
      /\ r \in Rows /\ r \notin disk \cup old \cup wal \cup shared
      /\ \A e \in ended : r \notin e.rows
    BY DEF WriteRow, MayRun, tables, Unused
<1>2. /\ shared \subseteq shared'
      /\ \/ ~manual /\ disk' = disk \cup wal \cup {r} /\ wal' = {}
         \/ manual /\ disk' = disk /\ wal' = wal \cup {r}
    BY DEF WriteRow, CommitsAtOnce
<1>3. \/ ended' = ended
      \/ ~manual /\ ended' = ended \cup {[how |-> "done", rows |-> {r}]}
    BY DEF WriteRow
<1>4. \/ scope' = scope
      \/ scope[w].kind # "none" /\ scope' = [scope EXCEPT ![w].rows = @ \cup {r}]
    BY DEF WriteRow
<1>5. /\ ScopesTyped'
      /\ \A x \in Writers : /\ scope'[x].kind = scope[x].kind
                            /\ scope'[x].rows \subseteq scope[x].rows \cup {r}
    BY <1>1, <1>4 DEF StoreInv, ScopesTyped
<1>6. OneOuter'
    BY <1>1, <1>2, <1>5 DEF StoreInv, OneOuter, Outer
<1>7. RowsAreWhereTheyBelong'
    <2>1. v1' \subseteq (disk \cup old)' /\ wal' \cap (disk \cup old)' = {}
        BY <1>1, <1>2 DEF StoreInv, RowsAreWhereTheyBelong
    <2>2. ASSUME NEW e \in ended
          PROVE  /\ e.how = "done" => e.rows \subseteq (disk \cup old)'
                 /\ e.how # "done" /\ e.rows \cap shared' = {} =>
                        e.rows \cap (disk \cup old \cup wal)' = {}
        BY <1>1, <1>2 DEF StoreInv, RowsAreWhereTheyBelong
    <2>3. ~manual => {r} \subseteq (disk \cup old)'
        BY <1>2
    <2> QED BY <1>3, <2>1, <2>2, <2>3 DEF RowsAreWhereTheyBelong
<1> QED BY <1>1, <1>5, <1>6, <1>7 DEF StoreInv, InOneTable, QuietBoot

LEMMA AwaitKeeps ==
    ASSUME StoreInv, NEW w \in Writers, AwaitInScope(w) \/ ResumeScope(w)
    PROVE  StoreInv'
<1>1. UNCHANGED <<tables, disk, wal, manual, scope, ended, shared>>
    BY DEF AwaitInScope, ResumeScope, connection
<1>2. boot = "serves" \/ running' = NoWriter
    BY DEF AwaitInScope, ResumeScope, MayRun
<1> QED BY <1>1, <1>2
        DEF tables, StoreInv, ScopesTyped, InOneTable, QuietBoot, OneOuter, Outer,
            RowsAreWhereTheyBelong

\* After a block ends, its coroutine is in none.
LEMMA EndedScope ==
    ASSUME StoreInv, NEW w \in Writers, EndsScope(w)
    PROVE  /\ ScopesTyped'
           /\ \A x \in Writers : ~(x = w /\ Outer(x)')
           /\ \A x \in Writers : x # w => scope'[x] = scope[x]
BY DEF EndsScope, NoScope, ScopeKinds, StoreInv, ScopesTyped, Outer

LEMMA EndKeeps ==
    ASSUME StoreInv, NEW w \in Writers, CloseScope(w) \/ ScopeRaises(w)
    PROVE  StoreInv'
<1>1. /\ running = w /\ EndsScope(w) /\ UNCHANGED <<tables, shared>>
      /\ boot = "serves"
    BY DEF CloseScope, ScopeRaises, StoreInv, QuietBoot
<1>2. CASE ~Outer(w)
    <2>1. UNCHANGED <<disk, wal, manual, ended>>
        BY <1>2 DEF CloseScope, ScopeRaises, Ended, Outer, connection
    <2>2. OneOuter'
        BY <1>1, <2>1, EndedScope DEF StoreInv, OneOuter, Outer
    <2> QED BY <1>1, <2>1, <2>2, EndedScope
            DEF tables, StoreInv, InOneTable, QuietBoot, RowsAreWhereTheyBelong
<1>3. CASE Outer(w)
    <2>1. wal' = {} /\ manual' = FALSE
        BY <1>3 DEF CloseScope, ScopeRaises, Outer
    <2>2. \A x \in Writers : ~Outer(x)'
        BY <1>1, <1>3, EndedScope DEF StoreInv, OneOuter, Outer
    <2>3. scope[w].rows \subseteq wal /\ wal \cap (disk \cup old) = {}
        BY <1>3 DEF StoreInv, OneOuter, RowsAreWhereTheyBelong
    <2>4. RowsAreWhereTheyBelong'
        <3>1. CASE CloseScope(w)
            <4>1. /\ disk' = disk \cup wal
                  /\ ended' \subseteq ended \cup {[how |-> "done", rows |-> scope[w].rows]}
                BY <1>3, <3>1 DEF CloseScope, Ended, Outer
            <4> QED BY <1>1, <2>1, <2>3, <4>1 DEF tables, StoreInv, RowsAreWhereTheyBelong
        <3>2. CASE ScopeRaises(w)
            <4>1. /\ disk' = disk
                  /\ ended' \subseteq ended \cup {[how |-> "raised", rows |-> scope[w].rows]}
                BY <1>3, <3>2 DEF ScopeRaises, Ended, Outer
            <4> QED BY <1>1, <2>1, <2>3, <4>1 DEF tables, StoreInv, RowsAreWhereTheyBelong
        <3> QED BY <3>1, <3>2
    <2> QED BY <1>1, <2>1, <2>2, <2>4, EndedScope
            DEF tables, StoreInv, InOneTable, QuietBoot, OneOuter
<1> QED BY <1>2, <1>3

\* A cancelled coroutine leaves its rows in the connection, and they count as
\* shared from then on.
LEMMA CancelledKeeps ==
    ASSUME StoreInv, NEW w \in Writers, ScopeCancelled(w)
    PROVE  StoreInv'
<1>1. /\ EndsScope(w) /\ UNCHANGED <<tables, disk, wal, ended>> /\ shared \subseteq shared'
      /\ boot = "serves" /\ manual' = IF Outer(w) THEN FALSE ELSE manual
    BY DEF ScopeCancelled, Outer
<1>2. OneOuter'
    BY <1>1, EndedScope DEF StoreInv, OneOuter, Outer
<1>3. RowsAreWhereTheyBelong'
    BY <1>1 DEF tables, StoreInv, RowsAreWhereTheyBelong
<1> QED BY <1>1, <1>2, <1>3, EndedScope DEF tables, StoreInv, InOneTable, QuietBoot

LEMMA CutKeeps ==
    ASSUME StoreInv, PowerCut
    PROVE  StoreInv'
<1>1. /\ boot' = "down" /\ wal' = {} /\ running' = NoWriter
      /\ scope' = [x \in Writers |-> NoScope]
      /\ UNCHANGED <<version2, disk, hasOld, old, shared, v1>>
    BY DEF PowerCut
<1>2. ScopesTyped' /\ \A x \in Writers : ~Outer(x)'
    BY <1>1 DEF ScopesTyped, Outer, NoScope, ScopeKinds
<1>3. RowsAreWhereTheyBelong'
    <2>1. ASSUME NEW e \in ended', e \notin ended
          PROVE  e.how = "cut" /\ e.rows \subseteq wal
        <3>1. PICK x \in Writers : Outer(x) /\ e = [how |-> "cut", rows |-> scope[x].rows]
            BY <2>1 DEF PowerCut, Outer
        <3> QED BY <3>1 DEF StoreInv, OneOuter
    <2> QED BY <1>1, <2>1 DEF StoreInv, RowsAreWhereTheyBelong
<1> QED BY <1>1, <1>2, <1>3 DEF StoreInv, InOneTable, QuietBoot, OneOuter

LEMMA StoreKept == StoreInv /\ [StoreNext]_storeVars => StoreInv'
<1> SUFFICES ASSUME StoreInv, [StoreNext]_storeVars PROVE StoreInv'
    OBVIOUS
<1>1. CASE StartUp \/ RenameJournal \/ CreateJournal \/ CopyAndDropOld \/ SchemaReady
    BY <1>1, BootKeeps
<1>2. CASE PowerCut
    BY <1>2, CutKeeps
<1>3. ASSUME NEW w \in Writers,
             \/ OpenScope(w) \/ AwaitInScope(w) \/ ResumeScope(w)
             \/ CloseScope(w) \/ ScopeRaises(w) \/ ScopeCancelled(w)
             \/ \E r \in Rows : WriteRow(w, r)
      PROVE  StoreInv'
    BY <1>3, OpenKeeps, AwaitKeeps, EndKeeps, CancelledKeeps, WriteKeeps
<1>4. CASE UNCHANGED storeVars
    BY <1>4 DEF storeVars, StoreInv, ScopesTyped, InOneTable, QuietBoot, OneOuter, Outer,
                RowsAreWhereTheyBelong
<1> QED BY <1>1, <1>2, <1>3, <1>4 DEF StoreNext

LEMMA StoreAlways == StoreSpec => []StoreInv
BY StoreStarts, StoreKept, PTL DEF StoreSpec

\* A block with the transaction to itself is on disk whole once it ended, and not
\* at all when it raised or the power failed, whatever other coroutines open,
\* join, abandon and write on the same connection.
THEOREM AtomicBlocks == StoreSpec => []BlocksAreAtomic
<1>1. StoreInv => BlocksAreAtomic
    BY DEF StoreInv, RowsAreWhereTheyBelong, BlocksAreAtomic
<1> QED BY <1>1, StoreAlways, PTL

\* The migration of the journal loses no row, wherever and however often the
\* power fails.
THEOREM JournalSurvives == StoreSpec => []JournalRowsKept
<1>1. StoreInv => JournalRowsKept
    BY DEF StoreInv, RowsAreWhereTheyBelong, JournalRowsKept
<1> QED BY <1>1, StoreAlways, PTL

(***************************************************************************)
(* The stock.  What is not miscounted is what the slot holds, and what is   *)
(* being paid for may still be sold if nobody has edited it.                *)
(***************************************************************************)

CatalogTyped ==
    /\ known \subseteq Items
    /\ stock \in [Items -> Nat] /\ inside \in [Items -> Nat]
    /\ rows \in [Items -> [quantity : Nat, enabled : BOOLEAN]]
    /\ sale \in [stage : Stages, item : Items \cup {NoItem}]

\* What is not miscounted is what the slot holds; and what is being paid for may
\* still be sold, if nobody has edited it.
ShelvesInvariant ==
    /\ CatalogTyped
    /\ \A i \in Items \ miscounted : stock[i] = inside[i]
    /\ sale.stage \in {"paying", "authorized"} => sale.item \in Items
    /\ sale.stage \in {"paying", "authorized"} /\ sale.item \notin touched => Sellable(sale.item)
    /\ sale.stage = "stranded" => sale.item \in touched

LEMMA ShelvesStart == CatalogInit => ShelvesInvariant
BY CatalogAssumption DEF CatalogInit, ShelvesInvariant, CatalogTyped, NoPurchase, Stages

LEMMA ShelvesKept == ShelvesInvariant /\ [CatalogNext]_catalogVars => ShelvesInvariant'
<1> SUFFICES ASSUME ShelvesInvariant, [CatalogNext]_catalogVars PROVE ShelvesInvariant'
    OBVIOUS
<1> USE DEF ShelvesInvariant, CatalogTyped, Sellable, Stages
<1>1. CASE ShowCatalog \/ ClearCart \/ UNCHANGED catalogVars
           \/ \E i \in Items : AddToCart(i) \/ ChangeLine(i, 1) \/ ChangeLine(i, -1)
    BY <1>1 DEF ShowCatalog, ClearCart, AddToCart, ChangeLine, catalogVars, shelves
<1>2. CASE Pay
    BY <1>2 DEF Pay, EnsureSelection, shelves
<1>3. CASE PaymentConfirmed \/ CancelPayment \/ SaleOver
    BY <1>3 DEF PaymentConfirmed, CancelPayment, SaleOver, NoPurchase, shelves
<1>4. CASE MotorVends
    <2>1. UNCHANGED <<known, rows, touched>> /\ sale.stage = "authorized" /\ sale.item \in Items
        BY <1>4 DEF MotorVends
    <2>2. inside' = [inside EXCEPT ![sale.item] = IF @ > 0 THEN @ - 1 ELSE 0]
        BY <1>4 DEF MotorVends
    <2>3. inside' \in [Items -> Nat]
        BY <2>1, <2>2
    <2>4. CASE Sellable(sale.item)
        <3>0. sale' = [sale EXCEPT !.stage = "dispensed"]
            BY <1>4, <2>4 DEF MotorVends
        <3>1. /\ stock' = [stock EXCEPT ![sale.item] = @ - 1] /\ sale'.stage = "dispensed"
              /\ miscounted' = miscounted
            BY <1>4, <2>4, <3>0 DEF MotorVends
        <3>2. stock' \in [Items -> Nat]
            BY <2>1, <2>4, <3>1
        <3>3. \A i \in Items \ miscounted' : stock'[i] = inside'[i]
            BY <2>1, <2>2, <2>4, <3>1
        <3> QED BY <2>1, <2>3, <3>0, <3>1, <3>2, <3>3
    <2>5. CASE ~Sellable(sale.item)
        <3>0. sale' = [sale EXCEPT !.stage = "stranded"]
            BY <1>4, <2>5 DEF MotorVends
        <3>1. /\ stock' = stock /\ sale'.stage = "stranded" /\ sale'.item = sale.item
              /\ miscounted' = miscounted \cup {sale.item}
            BY <1>4, <2>5, <3>0 DEF MotorVends
        <3>2. \A i \in Items \ miscounted' : stock'[i] = inside'[i]
            BY <2>1, <2>2, <3>1
        <3>3. sale.item \in touched
            BY <2>1, <2>5
        <3> QED BY <2>1, <2>3, <3>0, <3>1, <3>2, <3>3
    <2> QED BY <2>4, <2>5
<1>5. CASE MotorFaults
    <2>1. /\ sale.item \in Items /\ sale' = [sale EXCEPT !.stage = "faulted"]
          /\ miscounted' = miscounted \cup {sale.item} /\ UNCHANGED <<known, stock, rows, touched>>
        BY <1>5 DEF MotorFaults, shelves
    <2>2. inside' \in [Items -> Nat] /\ \A i \in Items \ {sale.item} : inside'[i] = inside[i]
        BY <1>5, <2>1 DEF MotorFaults
    <2> QED BY <2>1, <2>2
<1>6. CASE RestartCatalog
    BY <1>6 DEF RestartCatalog, NoPurchase
<1>7. ASSUME NEW i \in Items, ToggleProduct(i) \/ RemoveProduct(i) PROVE ShelvesInvariant'
    BY <1>7 DEF ToggleProduct, RemoveProduct, Edit
<1>8. ASSUME NEW i \in Items, NEW q \in 0..Capacity, SetProductStock(i, q) PROVE ShelvesInvariant'
    BY <1>8, CatalogAssumption DEF SetProductStock, Edit
<1> QED BY <1>1, <1>2, <1>3, <1>4, <1>5, <1>6, <1>7, <1>8 DEF CatalogNext

\* A sale that was begun has a bouquet for its motor, although its stock was checked
\* before the payment, until an operator edits the product, a bouquet is miscounted
\* or the machine restarts.
THEOREM ABouquetIsThere == CatalogSpec => []BouquetIsThere
<1>1. CatalogSpec => []ShelvesInvariant
    BY ShelvesStart, ShelvesKept, PTL DEF CatalogSpec
<1>2. ShelvesInvariant => BouquetIsThere
    BY DEF ShelvesInvariant, CatalogTyped, Sellable, BouquetIsThere
<1> QED BY <1>1, <1>2, PTL

(***************************************************************************)
(* 1C and the telemetry.  A finished sale is in the books of 1C, in the    *)
(* current list of pending sales, or with the flush that runs over that    *)
(* list; and the batch being sent is what the buffer begins with.          *)
(***************************************************************************)

CurrentList == Last(pending)

OneCTyped ==
    /\ export \in [Finished -> [at : {"unsold", "declined", "posting", "exported", "kept"}, tries : Nat]]
    /\ pending \in Seq(Seq(Finished)) /\ pending # << >>
    /\ flush \in [Flushers -> [list : Nat, place : Nat, began : Nat, keeps : Seq(Finished)]]
    /\ books \subseteq Finished

\* A flush runs over the current list; what it has passed is in the books, or it
\* keeps it.
FlushesCurrentList ==
    \A f \in Flushers : flush[f].list > 0 =>
        /\ flush[f].list = Len(pending) /\ flush[f].place \in 1 .. Len(CurrentList)
        /\ \A i \in 1 .. flush[f].place - 1 :
               CurrentList[i] \in books \cup ToSet(flush[f].keeps)

NoSaleForgotten ==
    \A s \in Finished : export[s].at \in {"exported", "kept"} =>
          \/ s \in books
          \/ s \in ToSet(CurrentList)
          \/ \E f \in Flushers : flush[f].list > 0 /\ s \in ToSet(flush[f].keeps)

OneCInvariant == OneCTyped /\ FlushesCurrentList /\ NoSaleForgotten

\* The batch is what the buffer begins with, as long as it never filled up.
TelemetryInvariant ==
    /\ emitted \in Nat /\ buffer \in Seq(Nat) /\ batch \in Seq(Nat) /\ filled \in BOOLEAN
    /\ ~filled =>
           /\ Len(buffer) < BufferSize /\ Len(batch) <= Len(buffer)
           /\ \A i \in 1 .. Len(batch) : batch[i] = buffer[i]
           /\ 1 .. emitted \subseteq delivered \cup ToSet(buffer)

LEMMA ElementsOf ==
    ASSUME NEW S, NEW q \in Seq(S)
    PROVE  /\ \A x : x \in ToSet(q) <=> \E i \in 1 .. Len(q) : x = q[i]
           /\ ToSet(q) \subseteq S
<1>1. DOMAIN q = 1 .. Len(q) /\ \A i \in 1 .. Len(q) : q[i] \in S
  OBVIOUS
<1>. QED
  BY <1>1 DEF ToSet

LEMMA ElementsGrow ==
    ASSUME NEW S, NEW q \in Seq(S), NEW x \in S
    PROVE  /\ Append(q, x) \in Seq(S) /\ Append(q, x) # << >>
           /\ Len(Append(q, x)) = Len(q) + 1 /\ Append(q, x)[Len(q) + 1] = x
           /\ \A i \in 1 .. Len(q) : Append(q, x)[i] = q[i]
           /\ ToSet(Append(q, x)) = ToSet(q) \cup {x}
<1>1. DOMAIN q = 1 .. Len(q) /\ \A i \in 1 .. Len(q) : q[i] \in S
  OBVIOUS
<1>2. /\ Len(Append(q, x)) = Len(q) + 1 /\ DOMAIN Append(q, x) = 1 .. Len(q) + 1
      /\ Append(q, x)[Len(q) + 1] = x
      /\ \A i \in 1 .. Len(q) : Append(q, x)[i] = q[i]
  BY <1>1
<1>3. ToSet(Append(q, x)) = ToSet(q) \cup {x}
  BY <1>1, <1>2 DEF ToSet
<1>4. Append(q, x) \in Seq(S) /\ Append(q, x) # << >>
  BY <1>1
<1>. QED
  BY <1>2, <1>3, <1>4

LEMMA AccountsStart == AccountsInit => OneCInvariant /\ TelemetryInvariant
<1>1. ToSet(<< >>) = {} /\ << >> \in Seq(Finished) /\ << >> \in Seq(Nat)
  BY DEF ToSet
<1>2. << << >> >> \in Seq(Seq(Finished)) /\ << << >> >> # << >> /\ Len(<< << >> >>) = 1
  OBVIOUS
<1>3. AccountsInit => OneCInvariant
  BY <1>1, <1>2 DEF AccountsInit, OneCInvariant, OneCTyped, FlushesCurrentList, NoSaleForgotten,
     NoFlush
<1>4. AccountsInit => TelemetryInvariant
  <2>1. BufferSize \in Nat /\ BufferSize > 0 /\ 1 .. 0 = {} /\ Len(<< >>) = 0
    BY AccountsAssumption
  <2> SUFFICES ASSUME emitted = 0, buffer = << >>, batch = << >>, filled = FALSE
               PROVE  TelemetryInvariant
    BY DEF AccountsInit
  <2>2. Len(buffer) = 0 /\ Len(batch) = 0 /\ buffer \in Seq(Nat) /\ batch \in Seq(Nat)
    OBVIOUS
  <2>3. /\ Len(buffer) < BufferSize /\ Len(batch) <= Len(buffer) /\ emitted \in Nat
        /\ \A i \in 1 .. Len(batch) : batch[i] = buffer[i]
    BY <2>1, <2>2
  <2>4. 1 .. emitted \subseteq delivered \cup ToSet(buffer)
    BY <2>1
  <2>. QED
    BY <2>2, <2>3, <2>4, Zenon DEF TelemetryInvariant
<1>. QED
  BY <1>3, <1>4

LEMMA PostKeeps ==
    ASSUME NEW s \in Finished, NEW confirmed \in BOOLEAN, Post(s, confirmed), OneCTyped
    PROVE  /\ books \subseteq books' /\ books' \subseteq Finished
           /\ confirmed => s \in books'
BY DEF Post, OneCTyped

LEMMA ExportKeeps ==
    ASSUME OneCInvariant, NEW s \in Finished, DeclineExport(s) \/ StartExport(s) \/ ExportSale(s)
    PROVE  OneCInvariant'
<1> USE DEF OneCInvariant, OneCTyped, FlushesCurrentList, NoSaleForgotten, CurrentList
<1>1. CASE DeclineExport(s) \/ StartExport(s)
  <2> DEFINE States == [at : {"unsold", "declined", "posting", "exported", "kept"}, tries : Nat]
             next == [at |-> IF DeclineExport(s) THEN "declined" ELSE "posting",
                      tries |-> IF DeclineExport(s) THEN 0 ELSE 1]
  <2>0. /\ export' = [export EXCEPT ![s] = next] /\ UNCHANGED <<pending, flush, books>>
        /\ next \in States /\ next.at \notin {"exported", "kept"}
    <3>1. CASE DeclineExport(s)
      BY <3>1 DEF DeclineExport
    <3>2. CASE ~DeclineExport(s) /\ StartExport(s)
      BY <3>2 DEF StartExport
    <3>. QED
      BY <1>1, <3>1, <3>2
  <2> HIDE DEF next
  <2>1. export' \in [Finished -> States] /\ UNCHANGED <<pending, flush, books>>
    BY <2>0
  <2>2. \A x \in Finished : export'[x].at \in {"exported", "kept"} => export'[x] = export[x]
    BY <2>0
  <2>3. OneCTyped' /\ FlushesCurrentList'
    BY <2>1
  <2>4. NoSaleForgotten'
    BY <2>1, <2>2
  <2>. QED
    BY <2>3, <2>4
<1>2. CASE ExportSale(s)
  <2>1. PICK confirmed \in BOOLEAN : Post(s, confirmed)
    BY <1>2 DEF ExportSale
  <2>2. books \subseteq books' /\ books' \subseteq Finished /\ UNCHANGED flush
    BY <1>2, <2>1, PostKeeps DEF ExportSale
  <2>3. CASE Post(s, TRUE) /\ export' = [export EXCEPT ![s].at = "exported"] /\ UNCHANGED pending
    <3>1. s \in books'
      BY <2>3, PostKeeps
    <3>. QED
      BY <2>2, <2>3, <3>1
  <2>4. CASE export' = [export EXCEPT ![s].tries = @ + 1] /\ UNCHANGED pending
    <3>1. \A x \in Finished : export'[x].at = export[x].at
      BY <2>4
    <3>2. OneCTyped'
      <4>1. [export[s] EXCEPT !.tries = @ + 1]
               \in [at : {"unsold", "declined", "posting", "exported", "kept"}, tries : Nat]
        <5>1. export[s] \in [at : {"unsold", "declined", "posting", "exported", "kept"}, tries : Nat]
          OBVIOUS
        <5>2. export[s].tries + 1 \in Nat
          BY <5>1
        <5>. QED
          BY <5>1, <5>2
      <4>. QED
        BY <2>2, <2>4, <4>1
    <3>3. FlushesCurrentList'
      BY <2>2, <2>4
    <3>4. NoSaleForgotten'
      BY <2>2, <2>4, <3>1
    <3>. QED
      BY <3>2, <3>3, <3>4
  <2>5. CASE /\ export' = [export EXCEPT ![s].at = "kept"]
             /\ pending' = [pending EXCEPT ![Len(pending)] = Append(@, s)]
    <3>1. /\ Len(pending) \in Nat \ {0} /\ Len(pending') = Len(pending)
          /\ CurrentList \in Seq(Finished)
      BY <2>5 DEF Last
    <3>2. CurrentList' = Append(CurrentList, s)
      BY <2>5, <3>1 DEF Last
    <3>3. pending' \in Seq(Seq(Finished)) /\ pending' # << >>
      BY <2>5, <3>1
    <3>4. /\ ToSet(CurrentList') = ToSet(CurrentList) \cup {s}
          /\ Len(CurrentList') = Len(CurrentList) + 1
          /\ \A i \in 1 .. Len(CurrentList) : CurrentList'[i] = CurrentList[i]
      BY <3>1, <3>2, ElementsGrow
    <3>6. OneCTyped'
      BY <2>2, <2>5, <3>3
    <3>7. FlushesCurrentList'
      <4> HIDE DEF CurrentList
      <4> SUFFICES ASSUME NEW f \in Flushers, flush[f].list > 0
                   PROVE  /\ flush[f].list = Len(pending') /\ flush[f].place \in 1 .. Len(CurrentList')
                          /\ \A i \in 1 .. flush[f].place - 1 :
                                 CurrentList'[i] \in books' \cup ToSet(flush[f].keeps)
        BY <2>2
      <4>1. /\ flush[f].list = Len(pending) /\ flush[f].place \in 1 .. Len(CurrentList)
            /\ \A i \in 1 .. flush[f].place - 1 :
                   CurrentList[i] \in books \cup ToSet(flush[f].keeps)
        OBVIOUS
      <4>2. Len(CurrentList) \in Nat /\ flush[f].place \in 1 .. Len(CurrentList')
        BY <3>1, <3>4, <4>1
      <4>3. \A i \in 1 .. flush[f].place - 1 : i \in 1 .. Len(CurrentList)
        BY <4>1, <4>2
      <4>. QED
        BY <2>2, <3>1, <3>4, <4>1, <4>2, <4>3
    <3>8. NoSaleForgotten'
      <4> HIDE DEF CurrentList
      <4>. QED
        BY <2>2, <2>5, <3>4
    <3>. QED
      BY <3>6, <3>7, <3>8
  <2>. QED
    BY <1>2, <2>3, <2>4, <2>5 DEF ExportSale
<1>. QED
  BY <1>1, <1>2

LEMMA StartFlushKeeps ==
    ASSUME OneFlusher, OneCInvariant, NEW f \in Flushers, StartFlush(f)
    PROVE  OneCInvariant'
<1> USE DEF OneCInvariant, OneCTyped
<1>1. /\ Len(pending) \in Nat \ {0} /\ CurrentList \in Seq(Finished) /\ CurrentList # << >>
      /\ Len(CurrentList) \in Nat \ {0} /\ << >> \in Seq(Finished)
  BY DEF StartFlush, Last, CurrentList
<1>2. /\ flush' = [flush EXCEPT ![f] = [list |-> Len(pending), place |-> 1,
                                        began |-> Len(CurrentList), keeps |-> << >>]]
      /\ UNCHANGED <<export, pending, books, CurrentList>> /\ flush[f] = NoFlush
  BY DEF StartFlush, CurrentList
<1>3. OneCTyped'
  BY <1>1, <1>2
<1>4. FlushesCurrentList'
  BY <1>1, <1>2 DEF FlushesCurrentList, OneFlusher
<1>5. NoSaleForgotten'
  BY <1>1, <1>2 DEF NoSaleForgotten, OneFlusher, NoFlush
<1>. QED
  BY <1>3, <1>4, <1>5

LEMMA FlushKeeps ==
    ASSUME OneFlusher, OneCInvariant, NEW f \in Flushers, FlushPendingSales(f)
    PROVE  OneCInvariant'
<1> USE DEF OneCInvariant, OneCTyped
<1> DEFINE job  == flush[f]
           posted == CurrentList[job.place]
           Keeps(confirmed) == IF confirmed THEN job.keeps ELSE Append(job.keeps, posted)
<1>1. /\ job \in [list : Nat, place : Nat, began : Nat, keeps : Seq(Finished)]
      /\ job.list = Len(pending) /\ Len(pending) \in Nat \ {0}
      /\ pending[job.list] = CurrentList /\ CurrentList \in Seq(Finished)
      /\ job.place \in 1 .. Len(CurrentList) /\ posted \in Finished
      /\ \A i \in 1 .. job.place - 1 : CurrentList[i] \in books \cup ToSet(job.keeps)
  BY DEF FlushPendingSales, FlushesCurrentList, CurrentList, Last
<1>2. PICK confirmed \in BOOLEAN :
         /\ Post(posted, confirmed)
         /\ \/ /\ job.place < Len(CurrentList) /\ UNCHANGED pending
               /\ flush' = [flush EXCEPT ![f].place = @ + 1, ![f].keeps = Keeps(confirmed)]
            \/ /\ job.place = Len(CurrentList)
               /\ flush' = [flush EXCEPT ![f] = NoFlush]
               /\ pending' = Append(pending, Keeps(confirmed))
  <2>1. \E confirmed \in BOOLEAN :
           /\ Post(pending[job.list][job.place], confirmed)
           /\ IF job.place < Len(pending[job.list])
                 THEN /\ flush' = [flush EXCEPT ![f].place = @ + 1,
                                              ![f].keeps = IF confirmed THEN job.keeps
                                   ELSE Append(job.keeps, pending[job.list][job.place])]
                      /\ UNCHANGED pending
                 ELSE /\ flush' = [flush EXCEPT ![f] = NoFlush]
                      /\ pending' = Append(pending, IF confirmed THEN job.keeps
                                       ELSE Append(job.keeps, pending[job.list][job.place]))
    BY DEF FlushPendingSales, EndOfList
  <2>2. job.place <= Len(CurrentList) /\ job.place \in Nat /\ Len(CurrentList) \in Nat
    BY <1>1
  <2>3. ~(job.place < Len(CurrentList)) => job.place = Len(CurrentList)
    BY <2>2
  <2>. QED
    BY <1>1, <2>1, <2>3, Zenon
<1>3. UNCHANGED export
  BY DEF FlushPendingSales
<1>4. books \subseteq books' /\ books' \subseteq Finished /\ (confirmed => posted \in books')
  BY <1>1, <1>2, PostKeeps
<1>5. /\ Keeps(confirmed) \in Seq(Finished)
      /\ ToSet(job.keeps) \subseteq ToSet(Keeps(confirmed))
      /\ posted \in books' \cup ToSet(Keeps(confirmed))
  BY <1>1, <1>4, ElementsGrow
<1> HIDE DEF posted, Keeps
<1>6. CASE /\ job.place < Len(CurrentList) /\ UNCHANGED pending
           /\ flush' = [flush EXCEPT ![f].place = @ + 1, ![f].keeps = Keeps(confirmed)]
  <2>1. /\ flush'[f].list = job.list /\ flush'[f].place = job.place + 1
        /\ flush'[f].keeps = Keeps(confirmed) /\ CurrentList' = CurrentList
    BY <1>6 DEF CurrentList
  <2>2. OneCTyped'
    <3>1. flush'[f] = [flush[f] EXCEPT !.place = @ + 1, !.keeps = Keeps(confirmed)]
      BY <1>6
    <3>2. flush'[f] \in [list : Nat, place : Nat, began : Nat, keeps : Seq(Finished)]
      <4>1. job.place + 1 \in Nat
        BY <1>1
      <4>. QED
        BY <1>1, <1>5, <3>1, <4>1
    <3>3. \A g \in Flushers : g # f => flush'[g] = flush[g]
      BY <1>6
    <3>4. flush' \in [Flushers -> [list : Nat, place : Nat, began : Nat, keeps : Seq(Finished)]]
      BY <1>6, <3>2
    <3>. QED
      BY <1>3, <1>4, <1>6, <3>4
  <2>3. FlushesCurrentList'
    <3>1. \A i \in 1 .. flush'[f].place - 1 :
             CurrentList[i] \in books' \cup ToSet(flush'[f].keeps)
      <4> SUFFICES ASSUME NEW i \in 1 .. job.place
                   PROVE  CurrentList[i] \in books' \cup ToSet(Keeps(confirmed))
        BY <1>1, <2>1
      <4>1. CASE i = job.place
        BY <4>1, <1>5 DEF posted
      <4>2. CASE i \in 1 .. job.place - 1
        BY <4>2, <1>1, <1>4, <1>5
      <4>. QED
        BY <1>1, <4>1, <4>2
    <3>. QED
      BY <1>1, <1>6, <2>1, <3>1 DEF FlushesCurrentList, OneFlusher
  <2>4. NoSaleForgotten'
    BY <1>1, <1>3, <1>4, <1>5, <2>1 DEF NoSaleForgotten, OneFlusher
  <2>. QED
    BY <2>2, <2>3, <2>4
<1>7. CASE /\ job.place = Len(CurrentList)
           /\ flush' = [flush EXCEPT ![f] = NoFlush]
           /\ pending' = Append(pending, Keeps(confirmed))
  <2>1. /\ pending' \in Seq(Seq(Finished)) /\ pending' # << >>
        /\ CurrentList' = Keeps(confirmed)
    <3>1. \A x \in Seq(Finished) : /\ Append(pending, x) \in Seq(Seq(Finished))
                                   /\ Append(pending, x) # << >>
                                   /\ Last(Append(pending, x)) = x
      BY <1>1, ElementsGrow DEF Last
    <3>. QED
      BY <1>5, <1>7, <3>1 DEF CurrentList
  <2>2. NoFlush \in [list : Nat, place : Nat, began : Nat, keeps : Seq(Finished)]
    BY DEF NoFlush
  <2>3. OneCTyped'
    BY <1>3, <1>4, <1>7, <2>1, <2>2
  <2>4. \A g \in Flushers : flush'[g].list = 0
    BY <1>7 DEF OneFlusher, NoFlush
  <2>5. FlushesCurrentList'
    BY <2>4 DEF FlushesCurrentList
  <2>6. ToSet(CurrentList) \subseteq books' \cup ToSet(Keeps(confirmed))
    <3>1. \A x \in ToSet(CurrentList) : \E i \in 1 .. Len(CurrentList) : x = CurrentList[i]
      BY <1>1, ElementsOf
    <3>2. ASSUME NEW i \in 1 .. Len(CurrentList)
          PROVE  CurrentList[i] \in books' \cup ToSet(Keeps(confirmed))
      <4>1. CASE i = job.place
        BY <4>1, <1>5 DEF posted
      <4>2. CASE i \in 1 .. job.place - 1
        BY <4>2, <1>1, <1>4, <1>5
      <4>. QED
        BY <1>1, <1>7, <4>1, <4>2
    <3>3. \A x \in ToSet(CurrentList) : x \in books' \cup ToSet(Keeps(confirmed))
      BY <3>1, <3>2
    <3>. QED
      BY <3>3
  <2>7. NoSaleForgotten'
    BY <1>1, <1>3, <1>4, <1>5, <2>1, <2>6 DEF NoSaleForgotten, OneFlusher
  <2>. QED
    BY <2>3, <2>5, <2>7
<1>. QED
  BY <1>2, <1>6, <1>7

LEMMA OneCKept ==
    ASSUME OneFlusher, OneCInvariant, [AccountsNext]_accountsVars
    PROVE  OneCInvariant'
<1>1. CASE HealthCheck \/ TelemetryNext \/ UNCHANGED accountsVars
  <2>1. UNCHANGED <<export, pending, flush, books>>
    BY <1>1 DEF HealthCheck, TelemetryNext, HandleEvent, StartTelemetryFlush,
       FinishTelemetryFlush, accountsVars, onecVars
  <2>. QED
    BY <2>1 DEF OneCInvariant, OneCTyped, FlushesCurrentList, NoSaleForgotten, CurrentList
<1>. QED
  BY <1>1, ExportKeeps, StartFlushKeeps, FlushKeeps DEF AccountsNext, OneCNext

LEMMA TelemetryKept ==
    ASSUME TelemetryInvariant, [AccountsNext]_accountsVars
    PROVE  TelemetryInvariant'
<1> USE DEF TelemetryInvariant
<1>1. CASE HandleEvent
  <2> DEFINE longer == Append(buffer, emitted')
  <2>1. /\ emitted' = emitted + 1 /\ UNCHANGED <<batch, delivered>>
        /\ buffer' = IF Len(longer) > BufferSize THEN Tail(longer) ELSE longer
        /\ filled' = (filled \/ Len(longer) >= BufferSize)
    BY <1>1 DEF HandleEvent
  <2>2. /\ longer \in Seq(Nat) /\ Len(longer) = Len(buffer) + 1 /\ longer # << >>
        /\ \A i \in 1 .. Len(buffer) : longer[i] = buffer[i]
        /\ ToSet(longer) = ToSet(buffer) \cup {emitted'}
    <3>1. emitted' \in Nat
      BY <2>1
    <3>. QED
      BY <3>1, ElementsGrow
  <2>3. Tail(longer) \in Seq(Nat)
    BY <2>2
  <2> HIDE DEF longer
  <2>4. CASE filled'
    BY <2>1, <2>2, <2>3, <2>4
  <2>5. CASE ~filled'
    <3>1. ~filled /\ buffer' = longer /\ Len(longer) < BufferSize
      <4>1. BufferSize \in Nat /\ Len(longer) \in Nat
        BY <2>2, AccountsAssumption
      <4>2. ~filled /\ ~(Len(longer) >= BufferSize)
        BY <2>1, <2>5
      <4>3. Len(longer) < BufferSize /\ ~(Len(longer) > BufferSize)
        BY <4>1, <4>2
      <4>. QED
        BY <2>1, <4>2, <4>3
    <3>2. 1 .. emitted' = (1 .. emitted) \cup {emitted'}
      BY <2>1
    <3>3. 1 .. emitted' \subseteq delivered' \cup ToSet(buffer')
      BY <2>1, <2>2, <3>1, <3>2
    <3>4. /\ Len(buffer') < BufferSize /\ Len(batch') <= Len(buffer')
          /\ \A i \in 1 .. Len(batch') : batch'[i] = buffer'[i]
      BY <2>1, <2>2, <3>1
    <3>5. emitted' \in Nat /\ buffer' \in Seq(Nat) /\ batch' \in Seq(Nat) /\ filled' \in BOOLEAN
      BY <2>1, <2>2, <2>5, <3>1
    <3>. QED
      BY <3>3, <3>4, <3>5
  <2>. QED
    BY <2>4, <2>5
<1>2. CASE StartTelemetryFlush
  BY <1>2 DEF StartTelemetryFlush
<1>3. CASE FinishTelemetryFlush
  <2>1. /\ batch' = << >> /\ UNCHANGED <<emitted, filled>> /\ delivered \subseteq delivered'
        /\ \/ UNCHANGED buffer
           \/ /\ buffer' = SubSeq(buffer, Len(batch) + 1, Len(buffer))
              /\ ToSet(batch) \subseteq delivered' \/ Len(buffer) >= BufferSize
    BY <1>3 DEF FinishTelemetryFlush, RemoveOldest
  <2>2. << >> \in Seq(Nat) /\ Len(<< >>) = 0
    OBVIOUS
  <2>3. CASE UNCHANGED buffer
    BY <2>1, <2>2, <2>3
  <2>4. CASE /\ buffer' = SubSeq(buffer, Len(batch) + 1, Len(buffer))
             /\ ToSet(batch) \subseteq delivered' \/ Len(buffer) >= BufferSize
    <3>1. buffer' \in Seq(Nat)
      BY <2>4
    <3>2. CASE filled
      BY <2>1, <2>2, <3>1, <3>2
    <3>3. CASE ~filled
      <4>1. /\ Len(buffer') = Len(buffer) - Len(batch)
            /\ \A i \in 1 .. Len(buffer) - Len(batch) : buffer'[i] = buffer[Len(batch) + i]
        BY <2>4, <3>3
      <4>2. /\ \A x : x \in ToSet(buffer) <=> \E i \in 1 .. Len(buffer) : x = buffer[i]
            /\ \A i \in 1 .. Len(batch) : batch[i] \in ToSet(batch)
            /\ \A i \in 1 .. Len(buffer') : buffer'[i] \in ToSet(buffer')
        BY <3>1, ElementsOf
      <4>3. Len(buffer) < BufferSize /\ Len(buffer) \in Nat /\ BufferSize \in Nat
        BY <3>3, AccountsAssumption
      <4>4. ToSet(batch) \subseteq delivered'
        BY <2>4, <4>3
      <4>5. ASSUME NEW i \in 1 .. Len(buffer)
            PROVE  buffer[i] \in delivered' \cup ToSet(buffer')
        <5>1. CASE i <= Len(batch)
          BY <3>3, <4>2, <4>4, <5>1
        <5>2. CASE i > Len(batch)
          <6>1. Len(batch) \in Nat /\ Len(buffer) \in Nat
            OBVIOUS
          <6>2. /\ i - Len(batch) \in 1 .. Len(buffer) - Len(batch)
                /\ Len(batch) + (i - Len(batch)) = i
            BY <5>2, <6>1
          <6>3. i - Len(batch) \in 1 .. Len(buffer') /\ buffer'[i - Len(batch)] = buffer[i]
            BY <4>1, <6>2
          <6>. QED
            BY <4>2, <6>3
        <5>. QED
          BY <5>1, <5>2
      <4>6. ToSet(buffer) \subseteq delivered' \cup ToSet(buffer')
        BY <4>2, <4>5
      <4>7. 1 .. emitted' \subseteq delivered' \cup ToSet(buffer')
        BY <2>1, <3>3, <4>6
      <4>. QED
        BY <2>1, <2>2, <3>1, <3>3, <4>1, <4>3, <4>7
    <3>. QED
      BY <3>2, <3>3
  <2>. QED
    BY <2>1, <2>3, <2>4
<1>4. CASE OneCNext \/ UNCHANGED accountsVars
  <2>1. UNCHANGED telemetryVars
    BY <1>4 DEF OneCNext, DeclineExport, StartExport, ExportSale, StartFlush, FlushPendingSales, HealthCheck,
       accountsVars
  <2>. QED
    BY <2>1 DEF telemetryVars
<1>. QED
  BY <1>1, <1>2, <1>3, <1>4 DEF AccountsNext, TelemetryNext

\* A finished sale is in 1C's books, in the list or in the hands of the flusher, for
\* any sales and failures of the posts; and an event that left a telemetry buffer
\* which never was full has reached the server, for any size of the buffer.
THEOREM NothingIsForgotten ==
    ASSUME OneFlusher
    PROVE  AccountsSpec => []NothingForgotten
<1>1. OneCInvariant /\ TelemetryInvariant => NothingForgotten
  BY DEF OneCInvariant, TelemetryInvariant, NoSaleForgotten, NothingForgotten, CurrentList
<1>2. OneCInvariant /\ TelemetryInvariant /\ [AccountsNext]_accountsVars
         => (OneCInvariant /\ TelemetryInvariant)'
  BY OneCKept, TelemetryKept
<1>. QED
  BY AccountsStart, <1>1, <1>2, PTL DEF AccountsSpec

(***************************************************************************)
(* The tables.  What they hold is what was saved last, converted; what      *)
(* memory holds can be converted; no two sales were changed at one time;    *)
(* and the catalog is at the stage that its seeding has come to.            *)
(***************************************************************************)

\* Rows with different times are listed by them, each once.
LEMMA OrderExists ==
    ASSUME NEW S, IsFiniteSet(S), NEW age \in [S -> Nat], \A s, t \in S : s # t => age[s] # age[t]
    PROVE  \E order \in [1 .. Cardinality(S) -> S] :
              \A i, j \in DOMAIN order : i < j => age[order[i]] < age[order[j]]
<1> DEFINE Listed(T) == \E order \in [1 .. Cardinality(T) -> T] :
              \A i, j \in DOMAIN order : i < j => age[order[i]] < age[order[j]]
           G == {T \in SUBSET S : Listed(T)}
<1>1. ASSUME NEW T \in SUBSET S, \A x \in T : T \ {x} \in G PROVE T \in G
  <2>0. IsFiniteSet(T) /\ Cardinality(T) \in Nat
    BY FS_Subset, FS_CardinalityType
  <2>1. CASE T = {}
    <3>1. Cardinality(T) = 0
      BY <2>1, FS_EmptySet
    <3>2. << >> \in [1 .. 0 -> T] /\ DOMAIN << >> = {}
      OBVIOUS
    <3>3. Listed(T)
      BY <3>1, <3>2, Zenon
    <3>. QED
      BY <3>3
  <2>2. CASE T # {}
    <3> DEFINE ages == {age[x] : x \in T}
    <3>1. IsFiniteSet(ages) /\ ages \subseteq Nat /\ ages # {}
      BY <2>0, <2>2, FiniteImage
    <3>2. PICK last \in T : \A x \in T : age[x] <= age[last]
      <4>1. Max(ages) \in ages /\ \A a \in ages : a <= Max(ages)
        <5>1. ages \in SUBSET Int
          BY <3>1
        <5> HIDE DEF ages
        <5>. QED
          BY <3>1, <5>1, MaxIsOne
      <4>. QED
        BY <4>1
    <3> DEFINE n == Cardinality(T)
               rest == T \ {last}
    <3>3. n \in Nat \ {0} /\ Cardinality(rest) = n - 1
      BY <2>0, <2>2, FS_RemoveElement, FS_EmptySet
    <3>4. PICK order \in [1 .. n - 1 -> rest] :
             \A i, j \in DOMAIN order : i < j => age[order[i]] < age[order[j]]
      BY <1>1, <3>3
    <3>5. \A x \in rest : age[x] < age[last]
      BY <3>2
    <3> DEFINE longer == [i \in 1 .. n |-> IF i = n THEN last ELSE order[i]]
    <3> HIDE DEF n
    <3>6. longer \in [1 .. n -> T]
      BY <3>3, <3>4
    <3>7. ASSUME NEW i \in 1 .. n, NEW j \in 1 .. n, i < j PROVE age[longer[i]] < age[longer[j]]
      <4>1. i \in 1 .. n - 1 /\ longer[i] = order[i] /\ order[i] \in rest
        BY <3>3, <3>4, <3>7
      <4>2. CASE j = n
        BY <3>5, <4>1, <4>2
      <4>3. CASE j # n
        BY <3>3, <3>4, <3>7, <4>1, <4>3
      <4>. QED
        BY <4>2, <4>3
    <3>8. DOMAIN longer = 1 .. n
      OBVIOUS
    <3> HIDE DEF longer
    <3>9. Listed(T)
      BY <3>6, <3>7, <3>8 DEF n
    <3>. QED
      BY <3>9
  <2>. QED
    BY <2>1, <2>2
<1> HIDE DEF G
<1>2. S \in G
  BY <1>1, AllSubsets
<1>. QED
  BY <1>2 DEF G

LEMMA OrderIs ==
    ASSUME NEW S, IsFiniteSet(S), NEW table, \A s \in S : table[s].touched \in Nat,
           \A s, t \in S : s # t => table[s].touched # table[t].touched
    PROVE  /\ ByAge(S, table) \in [1 .. Cardinality(S) -> S] /\ Cardinality(S) \in Nat
           /\ ToSet(ByAge(S, table)) = S
           /\ \A i, j \in 1 .. Cardinality(S) : i < j =>
                 table[ByAge(S, table)[i]].touched < table[ByAge(S, table)[j]].touched
<1> DEFINE n == Cardinality(S)
           age == [s \in S |-> table[s].touched]
           order == ByAge(S, table)
<1>0. n \in Nat
  BY FS_CardinalityType
<1>1. \E q \in [1 .. n -> S] : \A i, j \in DOMAIN q : i < j => age[q[i]] < age[q[j]]
  <2>1. age \in [S -> Nat] /\ \A s, t \in S : s # t => age[s] # age[t]
    OBVIOUS
  <2> HIDE DEF age
  <2>. QED
    BY <2>1, OrderExists
<1>2. \E q \in [1 .. n -> S] : \A i, j \in DOMAIN q : i < j => table[q[i]].touched < table[q[j]].touched
  BY <1>1
<1>3. /\ order \in [1 .. n -> S]
      /\ \A i, j \in 1 .. n : i < j => table[order[i]].touched < table[order[j]].touched
  BY <1>2 DEF ByAge
<1> HIDE DEF order
<1>4. \A i, j \in 1 .. n : order[i] = order[j] => i = j
  <2> SUFFICES ASSUME NEW i \in 1 .. n, NEW j \in 1 .. n, order[i] = order[j], i # j PROVE FALSE
    OBVIOUS
  <2>1. i < j \/ j < i
    BY <1>0
  <2>2. table[order[i]].touched \in Nat /\ table[order[j]].touched \in Nat
    BY <1>3
  <2>. QED
    BY <1>3, <2>1, <2>2
<1>5. order \in Injection(1 .. n, S)
  BY <1>3, <1>4 DEF Injection, IsInjective
<1>6. Cardinality(1 .. n) = Cardinality(S)
  BY <1>0, FS_Interval
<1>7. order \in Surjection(1 .. n, S)
  BY <1>5, <1>6, FS_Injection
<1>8. ToSet(order) = S
  BY <1>3, <1>7 DEF ToSet, Surjection
<1>. QED
  BY <1>0, <1>3, <1>8 DEF order

\* What a row brings back.
LEMMA CountsComeBack ==
    ASSUME NEW D, NEW V, NEW amounts \in [D -> V]
    PROVE  IntKeyMap(Dumped(amounts)) = amounts
<1> DEFINE raw == Dumped(amounts)
<1>1. DOMAIN raw = {<<d>> : d \in D} /\ \A d \in D : <<d>>[1] = d
  BY DEF Dumped, Text
<1>2. \A d \in D : raw[<<d>>] = amounts[d]
  BY DEF Dumped, Text
<1> HIDE DEF raw
<1>3. {t[1] : t \in DOMAIN raw} = D
  BY <1>1
<1>4. IntKeyMap(raw) = [d \in D |-> raw[<<d>>]]
  BY <1>3 DEF IntKeyMap, Text
<1>. QED
  BY <1>2, <1>4 DEF raw

LEMMA MoneyComesBack ==
    ASSUME NEW m \in Monies
    PROVE  MoneyFromRow(MoneyToRecord(m)) = m
<1>1. /\ m.counts \in [Nominals -> Nat] /\ m.reserved \in [Nominals -> Nat] /\ m.drift \in BOOLEAN
      /\ m = [counts |-> m.counts, reserved |-> m.reserved, drift |-> m.drift]
  BY DEF Monies
<1>2. IntKeyMap(Dumped(m.counts)) = m.counts /\ IntKeyMap(Dumped(m.reserved)) = m.reserved
  BY <1>1, CountsComeBack
<1>3. ((IF m.drift THEN 1 ELSE 0) = 1) = m.drift
  BY <1>1
<1>4. MoneyFromRow(MoneyToRecord(m)) =
         [counts |-> IntKeyMap(Dumped(m.counts)), reserved |-> IntKeyMap(Dumped(m.reserved)),
          drift |-> (IF m.drift THEN 1 ELSE 0) = 1]
  BY DEF MoneyFromRow, MoneyToRecord
<1>. QED
  BY <1>1, <1>2, <1>3, <1>4, Zenon

LEMMA SaleComesBack ==
    ASSUME NEW r \in Entities
    PROVE  TransactionFromRow(TransactionToRecord(r)) = AsSaved(r)
<1>1. /\ r = [status |-> r.status, recovery |-> r.recovery, bills |-> r.bills, reserve |-> r.reserve,
              cancelled |-> r.cancelled, touched |-> r.touched]
      /\ r.reserve \in [Nominals -> {1}] \cup {Unreserved}
  BY DEF Entities
<1> DEFINE row == TransactionToRecord(r)
<1>2. (IF row.session = {} THEN NoSession ELSE CHOOSE bills \in row.session : TRUE) = r.bills
  <2>1. CASE r.bills = NoSession
    BY <2>1 DEF TransactionToRecord
  <2>2. CASE r.bills # NoSession
    <3>1. row.session = {r.bills}
      BY <2>2 DEF TransactionToRecord
    <3>2. (CHOOSE bills \in {r.bills} : TRUE) = r.bills
      OBVIOUS
    <3>. QED
      BY <3>1, <3>2
  <2>. QED
    BY <2>1, <2>2
<1>3. (IF row.reserve = {} THEN Unreserved
       ELSE IntKeyMap(CHOOSE reserve \in row.reserve : TRUE)) = r.reserve
  <2>1. CASE r.reserve = Unreserved
    BY <2>1 DEF TransactionToRecord
  <2>2. CASE r.reserve # Unreserved
    <3>1. row.reserve = {Dumped(r.reserve)}
      BY <2>2 DEF TransactionToRecord
    <3>2. (CHOOSE reserve \in {Dumped(r.reserve)} : TRUE) = Dumped(r.reserve)
      OBVIOUS
    <3>3. IntKeyMap(Dumped(r.reserve)) = r.reserve
      BY <1>1, <2>2, CountsComeBack
    <3>. QED
      BY <3>1, <3>2, <3>3
  <2>. QED
    BY <2>1, <2>2
<1>4. row.status = r.status /\ row.recovery = r.recovery /\ row.touched = r.touched
  BY DEF TransactionToRecord
<1> HIDE DEF row
<1>5. TransactionFromRow(row) =
         [status |-> r.status, recovery |-> r.recovery, touched |-> r.touched, bills |-> r.bills,
          reserve |-> r.reserve, cancelled |-> r.status = "cancelled"]
  BY <1>2, <1>3, <1>4, Zenon DEF TransactionFromRow
<1>6. AsSaved(r) =
         [status |-> r.status, recovery |-> r.recovery, touched |-> r.touched, bills |-> r.bills,
          reserve |-> r.reserve, cancelled |-> r.status = "cancelled"]
  BY <1>1 DEF AsSaved
<1>. QED
  BY <1>5, <1>6 DEF row

\* Events are noted one after the other, each in one of the tables.
Ascends(q, n) ==
    /\ q \in Seq(Nat)
    /\ \A i \in 1 .. Len(q) : q[i] \in 1 .. n /\ \A j \in i .. Len(q) : q[j] - q[i] >= j - i

LEMMA NoteAdded ==
    ASSUME NEW n \in Nat, NEW q, Ascends(q, n)
    PROVE  /\ Ascends(q, n + 1) /\ Ascends(Append(q, n + 1), n + 1)
           /\ Len(Append(q, n + 1)) = Len(q) + 1
           /\ ToSet(Append(q, n + 1)) = ToSet(q) \cup {n + 1}
<1>1. q \in Seq(Nat) /\ Len(q) \in Nat
  BY DEF Ascends
<1> DEFINE p == Append(q, n + 1)
           l == Len(q)
<1>2. /\ p \in Seq(Nat) /\ Len(p) = l + 1 /\ p[l + 1] = n + 1
      /\ \A i \in 1 .. l : p[i] = q[i] /\ q[i] \in Nat
  BY <1>1
<1> HIDE DEF p
<1>3. \A i \in 1 .. l : q[i] <= n - (l - i)
  <2> TAKE i \in 1 .. l
  <2>1. l \in i .. l /\ l \in 1 .. l /\ q[l] \in 1 .. n /\ q[i] \in 1 .. n /\ q[l] - q[i] >= l - i
    BY <1>1 DEF Ascends
  <2>. QED
    BY <1>1, <2>1
<1>4. ASSUME NEW i \in 1 .. l + 1, NEW j \in i .. l + 1 PROVE p[i] \in 1 .. n + 1 /\ p[j] - p[i] >= j - i
  <2>1. CASE j = l + 1 /\ i # j
    <3>1. p[i] = q[i] /\ q[i] \in 1 .. n /\ q[i] <= n - (l - i)
      BY <1>1, <1>2, <1>3, <2>1 DEF Ascends
    <3>. QED
      BY <1>1, <1>2, <2>1, <3>1
  <2>2. CASE j = l + 1 /\ i = j
    BY <1>1, <1>2, <2>2
  <2>3. CASE j # l + 1
    <3>1. i \in 1 .. l /\ j \in i .. l /\ j \in 1 .. l
      BY <1>1, <2>3
    <3>2. p[i] = q[i] /\ p[j] = q[j] /\ q[i] \in 1 .. n /\ q[j] - q[i] >= j - i
      BY <1>2, <3>1 DEF Ascends
    <3>. QED
      BY <3>2
  <2>. QED
    BY <2>1, <2>2, <2>3
<1>5. Ascends(p, n + 1)
  <2>1. \A i \in 1 .. l + 1 : i \in i .. l + 1
    BY <1>1
  <2>. QED
    BY <1>2, <1>4, <2>1 DEF Ascends
<1>6. Ascends(q, n + 1)
  BY DEF Ascends
<1>7. ToSet(p) = ToSet(q) \cup {n + 1}
  <2>1. DOMAIN p = 1 .. l + 1 /\ DOMAIN q = 1 .. l
    BY <1>1, <1>2
  <2>2. 1 .. l + 1 = (1 .. l) \cup {l + 1}
    BY <1>1
  <2>. QED
    BY <1>2, <2>1, <2>2 DEF ToSet
<1>. QED
  BY <1>2, <1>5, <1>6, <1>7 DEF p

\* The last of a table are the latest of it.
LEMMA LastAreThere ==
    ASSUME NEW n \in Nat, NEW q, Ascends(q, n)
    PROVE  /\ ToSet(LastOf(q)) \subseteq ToSet(q) /\ ToSet(q) \subseteq 1 .. n
           /\ \A t \in ToSet(q) : t > n - ListLimit => t \in ToSet(LastOf(q))
<1> DEFINE l == Len(q)
           from == l - ListLimit + 1
<1>1. q \in Seq(Nat) /\ l \in Nat /\ DOMAIN q = 1 .. l /\ ListLimit \in Nat \ {0}
  BY LedgerAssumption DEF Ascends
<1>2. ToSet(q) \subseteq 1 .. n
  BY <1>1 DEF Ascends, ToSet
<1>3. CASE l <= ListLimit
  BY <1>2, <1>3 DEF LastOf
<1>4. CASE l > ListLimit
  <2> DEFINE p == SubSeq(q, from, l)
  <2>1. LastOf(q) = p /\ from \in 1 .. l
    BY <1>1, <1>4 DEF LastOf
  <2>2. p \in Seq(Nat) /\ Len(p) = ListLimit /\ \A i \in 1 .. ListLimit : p[i] = q[from + i - 1]
    <3>1. from \in Int /\ l \in Int /\ l - from + 1 = ListLimit /\ from <= l
      BY <1>1, <2>1
    <3>2. \A i \in from .. l : q[i] \in Nat
      BY <1>1, <2>1
    <3> HIDE DEF from, l
    <3>. QED
      BY <3>1, <3>2, SubSeqProperties
  <2> HIDE DEF p
  <2>3. DOMAIN p = 1 .. ListLimit
    BY <2>2
  <2>4. ASSUME NEW i \in 1 .. l, i >= from PROVE q[i] \in ToSet(p)
    <3>1. i - from + 1 \in 1 .. ListLimit /\ from + (i - from + 1) - 1 = i
      BY <1>1, <2>1, <2>4
    <3>2. p[i - from + 1] = q[i]
      BY <2>2, <3>1
    <3>. QED
      BY <2>3, <3>1, <3>2 DEF ToSet
  <2>5. ToSet(p) \subseteq ToSet(q)
    <3>1. \A i \in 1 .. ListLimit : from + i - 1 \in 1 .. l
      BY <1>1, <1>4
    <3>. QED
      BY <1>1, <2>2, <2>3, <3>1 DEF ToSet
  <2>6. ASSUME NEW t \in ToSet(q), t > n - ListLimit PROVE t \in ToSet(p)
    <3>1. PICK i \in 1 .. l : t = q[i]
      BY <1>1 DEF ToSet
    <3>2. l \in i .. l /\ l \in 1 .. l /\ q[l] \in 1 .. n /\ q[i] \in 1 .. n /\ q[l] - q[i] >= l - i
      BY <1>1, <3>1 DEF Ascends
    <3>3. i >= from
      BY <1>1, <2>6, <3>1, <3>2
    <3>. QED
      BY <2>4, <3>1, <3>3
  <2>. QED
    BY <1>2, <2>1, <2>5, <2>6
<1>. QED
  BY <1>1, <1>3, <1>4

\* What is shown of some events has the latest of all that are among them, and
\* only these when it has all of them.
LEMMA LatestAre ==
    ASSUME NEW n \in Nat, NEW times \in SUBSET (1 .. n)
    PROVE  /\ \A t \in times : t > n - ListLimit => t \in Latest(times)
           /\ {t \in 1 .. n : t > n - ListLimit} \subseteq times =>
                 Latest(times) = {t \in 1 .. n : t > n - ListLimit}
<1> DEFINE window == {t \in 1 .. n : t > n - ListLimit}
           Later(t) == {u \in times : u > t}
<1>0. ListLimit \in Nat \ {0}
  BY LedgerAssumption
<1>1. ASSUME NEW t \in times, t > n - ListLimit PROVE t \in Latest(times)
  <2>0. t \in 1 .. n
    BY <1>1
  <2>1. Later(t) \in SUBSET (t + 1 .. n)
    <3>1. ASSUME NEW u \in times, u > t PROVE u \in t + 1 .. n
      <4>1. u \in 1 .. n
        OBVIOUS
      <4>. QED
        BY <2>0, <3>1, <4>1
    <3>. QED
      BY <3>1
  <2>2. IsFiniteSet(t + 1 .. n) /\ Cardinality(t + 1 .. n) <= n - t
    <3> DEFINE next == t + 1
    <3>1. next \in Int /\ n \in Int /\ next <= n + 1
      BY <2>0
    <3>2. IsFiniteSet(next .. n) /\ Cardinality(next .. n) = IF next > n THEN 0 ELSE n - next + 1
      <4> HIDE DEF next
      <4>. QED
        BY <3>1, FS_Interval
    <3>. QED
      BY <2>0, <3>2
  <2>3. Cardinality(Later(t)) <= Cardinality(t + 1 .. n) /\ IsFiniteSet(Later(t))
    <3> HIDE DEF Later
    <3>. QED
      BY <2>1, <2>2, FS_Subset
  <2>4. Cardinality(Later(t)) \in Nat /\ Cardinality(t + 1 .. n) \in Nat
    BY <2>2, <2>3, FS_CardinalityType
  <2>5. Cardinality(Later(t)) < ListLimit
    <3> HIDE DEF Later
    <3>. QED
      BY <1>0, <1>1, <2>2, <2>3, <2>4
  <2>. QED
    BY <2>5 DEF Latest
<1>2. ASSUME window \subseteq times, NEW t \in Latest(times), t <= n - ListLimit PROVE FALSE
  <2>1. t \in times /\ Cardinality(Later(t)) < ListLimit /\ t \in 1 .. n
    BY DEF Latest
  <2>2. n - ListLimit + 1 .. n \in SUBSET Later(t)
    BY <1>0, <1>2, <2>1
  <2>3. Cardinality(n - ListLimit + 1 .. n) = ListLimit
    <3> DEFINE first == n - ListLimit + 1
    <3>1. first \in Int /\ n \in Int /\ first <= n
      BY <1>0
    <3>2. Cardinality(first .. n) = IF first > n THEN 0 ELSE n - first + 1
      <4> HIDE DEF first
      <4>. QED
        BY <3>1, FS_Interval
    <3>. QED
      BY <1>0, <3>1, <3>2
  <2>4. IsFiniteSet(Later(t))
    <3>1. Later(t) \in SUBSET (1 .. n)
      OBVIOUS
    <3>2. IsFiniteSet(1 .. n)
      BY FS_Interval
    <3> HIDE DEF Later
    <3>. QED
      BY <3>1, <3>2, FS_Subset
  <2>5. Cardinality(n - ListLimit + 1 .. n) <= Cardinality(Later(t)) /\ Cardinality(Later(t)) \in Nat
    <3> HIDE DEF Later
    <3>. QED
      BY <2>2, <2>4, FS_Subset, FS_CardinalityType
  <2> HIDE DEF Later
  <2>. QED
    BY <1>0, <2>1, <2>3, <2>5
<1>3. Latest(times) \subseteq times
  BY DEF Latest
<1>4. ASSUME window \subseteq times PROVE Latest(times) = window
  <2>1. ASSUME NEW t \in Latest(times) PROVE t \in window
    <3>1. t \in 1 .. n /\ ~(t <= n - ListLimit)
      BY <1>2, <1>3, <1>4
    <3>. QED
      BY <1>0, <3>1
  <2>2. \A t \in window : t \in Latest(times)
    BY <1>1, <1>4
  <2>. QED
    BY <2>1, <2>2
<1>. QED
  BY <1>1, <1>4

TablesShaped ==
    /\ DOMAIN db = DOMAIN EmptyTables /\ DOMAIN saved = {"money", "sales"} /\ DOMAIN process = DOMAIN Blank
    /\ clock \in Nat

MoneyKept ==
    /\ db.money # << >> => saved.money \in Monies /\ db.money = MoneyToRecord(saved.money)
    /\ startup = "running" => process.money \in Monies

WellKept(sales) ==
    /\ DOMAIN sales \subseteq Recorded /\ IsFiniteSet(DOMAIN sales)
    /\ \A s \in DOMAIN sales : sales[s] \in Entities /\ sales[s].touched <= clock

SalesKept ==
    /\ WellKept(process.sales) /\ WellKept(saved.sales)
    /\ DOMAIN db.sales = DOMAIN saved.sales
    /\ \A s \in DOMAIN db.sales : db.sales[s] = TransactionToRecord(saved.sales[s])

\* When a sale was changed, for what memory and the tables have of it.
Times(s) ==
    {process.sales[t].touched : t \in {s} \cap DOMAIN process.sales}
        \cup {saved.sales[t].touched : t \in {s} \cap DOMAIN saved.sales}

TimesDiffer == \A s, t \in Recorded : s # t => Times(s) \cap Times(t) = {}

Upto(k) == {Shelf[i] : i \in 1 .. k}

SeedingSo ==
    /\ startup = "seeding" =>
          /\ seeding \in Nat /\ seeding <= 2 * Len(Shelf) + 2
          /\ seeding < 2 => db.products = {Legacy} /\ db.slots \subseteq db.products
          /\ seeding = 1 => db.slots = {}
          /\ seeding > 1 => db.products = Upto((seeding - 1) \div 2) /\ db.slots = Upto((seeding - 2) \div 2)
    /\ startup # "seeding" =>
          /\ db.slots \subseteq db.products
          /\ Legacy \in db.products => db.products = {Legacy}
          /\ \/ torn \/ db.products \in {{}, {Legacy}}
             \/ db.products = ToSet(Shelf) /\ db.slots = ToSet(Shelf)
          /\ startup \in {"loading", "running"} /\ ~torn =>
                db.products = ToSet(Shelf) /\ db.slots = ToSet(Shelf)
    /\ startup = "running" /\ ~torn => process.catalog = ToSet(Shelf)

ConfiguredSo ==
    /\ outages \in Nat /\ db.configs \in Seq({"config"} \X Nat)
    /\ startup # "closed" => db.configs # << >> /\ Last(db.configs) = <<"config", outages>>
    /\ startup \notin {"closed", "opening"} => db.settings = <<"config", outages>>

NotedSo ==
    /\ Ascends(db.events, Notes) /\ Ascends(db.service, Notes) /\ Ascends(db.temperature, Notes)
    /\ 1 .. Notes \subseteq ToSet(db.events) \cup ToSet(db.service) \cup ToSet(db.temperature)

LedgerInv ==
    /\ TablesShaped /\ MoneyKept /\ SalesKept /\ TimesDiffer
    /\ SeedingSo /\ ConfiguredSo /\ NotedSo /\ back

LEMMA LedgerStarts == LedgerInit => LedgerInv
<1> SUFFICES ASSUME LedgerInit PROVE LedgerInv
  OBVIOUS
<1>1. /\ startup = "closed" /\ seeding = 0 /\ process = Blank /\ owed = NoEvent /\ clock = 0
      /\ saved = [money |-> << >>, sales |-> << >>] /\ back = TRUE /\ torn = FALSE /\ outages = 0
      /\ DOMAIN db = DOMAIN EmptyTables
      /\ db.money = << >> /\ db.sales = << >> /\ db.events = << >> /\ db.service = << >>
      /\ db.temperature = << >> /\ db.configs = << >>
      /\ \/ db.products = {} /\ db.slots = {}
         \/ db.products = {Legacy} /\ db.slots = {Legacy}
  <2>1. CASE db = EmptyTables
    BY <2>1 DEF LedgerInit, EmptyTables
  <2>2. CASE db = [EmptyTables EXCEPT !.products = {Legacy}, !.slots = {Legacy}]
    BY <2>2 DEF LedgerInit, EmptyTables
  <2>. QED
    BY <2>1, <2>2 DEF LedgerInit
<1>2. TablesShaped
  BY <1>1 DEF TablesShaped
<1>3. MoneyKept
  BY <1>1 DEF MoneyKept
<1>4. DOMAIN << >> = {} /\ IsFiniteSet({})
  BY FS_EmptySet
<1>5. SalesKept /\ TimesDiffer
  BY <1>1, <1>4 DEF SalesKept, WellKept, TimesDiffer, Times, Blank
<1>6. SeedingSo
  BY <1>1 DEF SeedingSo
<1>7. ConfiguredSo
  <2>1. << >> \in Seq({"config"} \X Nat)
    BY EmptySeq
  <2>. QED
    BY <1>1, <2>1 DEF ConfiguredSo
<1>8. NotedSo
  <2>1. << >> \in Seq(Nat) /\ Len(<< >>) = 0
    BY EmptySeq
  <2>2. Notes = 0
    BY <1>1, <2>1 DEF Notes
  <2>3. Ascends(<< >>, 0)
    BY <2>1 DEF Ascends
  <2>. QED
    BY <1>1, <2>2, <2>3 DEF NotedSo
<1>. QED
  BY <1>1, <1>2, <1>3, <1>5, <1>6, <1>7, <1>8 DEF LedgerInv

LEMMA UptoIs ==
    /\ Len(Shelf) \in Nat /\ Upto(0) = {} /\ Upto(Len(Shelf)) = ToSet(Shelf)
    /\ \A k \in Nat : Upto(k + 1) = Upto(k) \cup {Shelf[k + 1]}
    /\ \A k \in Nat, l \in Nat : k <= l => Upto(k) \subseteq Upto(l)
    /\ \A k \in Nat : k <= Len(Shelf) => Legacy \notin Upto(k)
<1>1. Shelf \in Seq(ToSet(Shelf)) /\ Legacy \notin ToSet(Shelf)
  BY LedgerAssumption
<1>2. Len(Shelf) \in Nat /\ DOMAIN Shelf = 1 .. Len(Shelf)
  BY <1>1
<1>3. Upto(0) = {}
  BY DEF Upto
<1>4. Upto(Len(Shelf)) = ToSet(Shelf)
  BY <1>2 DEF Upto, ToSet
<1>5. ASSUME NEW k \in Nat PROVE Upto(k + 1) = Upto(k) \cup {Shelf[k + 1]}
  <2>1. 1 .. k + 1 = (1 .. k) \cup {k + 1}
    OBVIOUS
  <2>. QED
    BY <2>1 DEF Upto
<1>6. ASSUME NEW k \in Nat, NEW l \in Nat, k <= l PROVE Upto(k) \subseteq Upto(l)
  <2>1. 1 .. k \subseteq 1 .. l
    BY <1>6
  <2>. QED
    BY <2>1 DEF Upto
<1>7. ASSUME NEW k \in Nat, k <= Len(Shelf) PROVE Legacy \notin Upto(k)
  BY <1>1, <1>2, <1>4, <1>6, <1>7
<1>. QED
  BY <1>2, <1>3, <1>4, <1>5, <1>6, <1>7

\* What other steps leave of the seeding.
LEMMA SeedingStands ==
    ASSUME SeedingSo, UNCHANGED <<startup, seeding, torn>>,
           db'.products = db.products, db'.slots = db.slots, process'.catalog = process.catalog
    PROVE  SeedingSo'
BY DEF SeedingSo

LEMMA SeedingKept == LedgerInv /\ [LedgerNext]_ledgerVars => SeedingSo'
<1> SUFFICES ASSUME LedgerInv, [LedgerNext]_ledgerVars PROVE SeedingSo'
  OBVIOUS
<1>1. /\ DOMAIN db = {"products", "slots", "money", "sales", "events", "service", "temperature", "status",
                      "configs", "settings"}
      /\ DOMAIN process = {"catalog", "money", "sales", "active", "status"} /\ SeedingSo
  BY DEF LedgerInv, TablesShaped, EmptyTables, Blank
<1>2. CASE ApplyConfig
  <2>1. /\ startup = "closed" /\ startup' = "opening" /\ torn' = torn
        /\ db'.products = db.products /\ db'.slots = db.slots
    BY <1>1, <1>2 DEF ApplyConfig
  <2>. QED
    BY <1>1, <2>1 DEF SeedingSo
<1>3. CASE ApplySettings
  <2>1. /\ startup = "opening" /\ startup' = "opened" /\ torn' = torn
        /\ db'.products = db.products /\ db'.slots = db.slots
    BY <1>1, <1>3 DEF ApplySettings
  <2>. QED
    BY <1>1, <2>1 DEF SeedingSo
<1>4. CASE OpenStore
  <2>1. startup = "opened" /\ db' = db /\ torn' = torn /\ process' = process
    BY <1>4 DEF OpenStore
  <2>2. CASE db.products = {}
    <3>1. startup' = "seeding" /\ seeding' = 2 /\ (2 - 1) \div 2 = 0 /\ (2 - 2) \div 2 = 0
      BY <1>4, <2>2 DEF OpenStore
    <3>2. db.slots = {}
      BY <1>1, <2>1, <2>2 DEF SeedingSo
    <3>. QED
      BY <2>1, <2>2, <3>1, <3>2, UptoIs DEF SeedingSo
  <2>3. CASE db.products # {} /\ Legacy \in db.products
    <3>1. startup' = "seeding" /\ seeding' = 0
      BY <1>4, <2>3 DEF OpenStore
    <3>. QED
      BY <1>1, <2>1, <2>3, <3>1, UptoIs DEF SeedingSo
  <2>4. CASE db.products # {} /\ Legacy \notin db.products
    <3>1. startup' = "loading"
      BY <1>4, <2>4 DEF OpenStore
    <3>. QED
      BY <1>1, <2>1, <2>4, <3>1 DEF SeedingSo
  <2>. QED
    BY <2>2, <2>3, <2>4
<1>5. CASE SeedCatalog
  <2> DEFINE item == Shelf[(seeding - 2) \div 2 + 1]
  <2>1. /\ startup = "seeding" /\ startup' = "seeding" /\ seeding \in Nat /\ seeding < 2 * Len(Shelf) + 2
        /\ seeding' = seeding + 1
    BY <1>1, <1>5 DEF SeedCatalog, SeedingSo
  <2>2. CASE seeding = 0
    <3>1. db' = [db EXCEPT !.slots = {}]
      BY <1>5, <2>2 DEF SeedCatalog
    <3>. QED
      BY <1>1, <2>1, <2>2, <3>1, UptoIs DEF SeedingSo
  <2>3. CASE seeding = 1
    <3>1. db' = [db EXCEPT !.products = {}]
      BY <1>5, <2>3 DEF SeedCatalog
    <3>2. (2 - 1) \div 2 = 0 /\ (2 - 2) \div 2 = 0 /\ seeding' = 2
      BY <2>1, <2>3
    <3>3. db'.products = {} /\ db'.slots = {}
      BY <1>1, <2>1, <2>3, <3>1 DEF SeedingSo
    <3>. QED
      BY <2>1, <3>2, <3>3, UptoIs DEF SeedingSo
  <2>4. CASE seeding > 1 /\ seeding % 2 = 0
    <3>1. db' = [db EXCEPT !.products = @ \cup {item}]
      BY <1>5, <2>4 DEF SeedCatalog
    <3> DEFINE m == (seeding - 2) \div 2
    <3>2. /\ m \in Nat /\ (seeding - 1) \div 2 = m /\ (seeding' - 1) \div 2 = m + 1
          /\ (seeding' - 2) \div 2 = m
      BY <2>1, <2>4
    <3> HIDE DEF m
    <3>3. db.products = Upto(m) /\ db.slots = Upto(m) /\ item = Shelf[m + 1]
      BY <1>1, <2>1, <2>4, <3>2 DEF SeedingSo, m
    <3>4. db'.products = Upto(m + 1) /\ db'.slots = Upto(m)
      BY <1>1, <3>1, <3>2, <3>3, UptoIs
    <3>. QED
      BY <2>1, <2>4, <3>2, <3>4, UptoIs DEF SeedingSo
  <2>5. CASE seeding > 1 /\ seeding % 2 # 0
    <3>1. db' = [db EXCEPT !.slots = @ \cup {item}]
      BY <1>5, <2>5 DEF SeedCatalog
    <3> DEFINE m == (seeding - 2) \div 2
    <3>2. /\ m \in Nat /\ (seeding - 1) \div 2 = m + 1 /\ (seeding' - 1) \div 2 = m + 1
          /\ (seeding' - 2) \div 2 = m + 1
      BY <2>1, <2>5
    <3> HIDE DEF m
    <3>3. db.products = Upto(m + 1) /\ db.slots = Upto(m) /\ item = Shelf[m + 1]
      BY <1>1, <2>1, <2>5, <3>2 DEF SeedingSo, m
    <3>4. db'.products = Upto(m + 1) /\ db'.slots = Upto(m + 1)
      BY <1>1, <3>1, <3>2, <3>3, UptoIs
    <3>. QED
      BY <2>1, <2>5, <3>2, <3>4, UptoIs DEF SeedingSo
  <2>. QED
    BY <2>1, <2>2, <2>3, <2>4, <2>5
<1>6. CASE Seeded
  <2>1. /\ startup = "seeding" /\ seeding = 2 * Len(Shelf) + 2 /\ startup' = "loading"
        /\ db' = db /\ torn' = torn
    BY <1>6 DEF Seeded
  <2> DEFINE l == Len(Shelf)
  <2>2. l \in Nat /\ (seeding - 1) \div 2 = l /\ (seeding - 2) \div 2 = l /\ seeding > 1
    BY <2>1, UptoIs
  <2>3. db.products = ToSet(Shelf) /\ db.slots = ToSet(Shelf) /\ Legacy \notin ToSet(Shelf)
    BY <1>1, <2>1, <2>2, UptoIs, LedgerAssumption DEF SeedingSo
  <2>. QED
    BY <2>1, <2>3 DEF SeedingSo
<1>7. CASE Load
  <2>1. /\ startup = "loading" /\ startup' = "running" /\ torn' = torn
        /\ db'.products = db.products /\ db'.slots = db.slots
        /\ process'.catalog = {i \in db.slots : i \in db.products}
    BY <1>1, <1>7 DEF Load
  <2>. QED
    BY <1>1, <2>1 DEF SeedingSo
<1>8. CASE Change
  <2>1. process'.catalog = process.catalog
    <3>1. CASE \E s \in Recorded : NewSale(s)
      BY <1>1, <3>1 DEF NewSale
    <3>2. CASE \E s \in DOMAIN process.sales : SaleMoves(s)
      BY <1>1, <3>2 DEF SaleMoves
    <3>3. CASE \E m \in MoneyChange(process.money) : process' = [process EXCEPT !.money = m]
      BY <1>1, <3>3
    <3>. QED
      BY <1>8, <3>1, <3>2, <3>3 DEF Change
  <2>2. UNCHANGED <<startup, seeding, torn, db>>
    BY <1>8 DEF Change
  <2>. QED
    BY <1>1, <2>1, <2>2, SeedingStands
<1>9. CASE RecordEvent
  <2>1. UNCHANGED <<startup, seeding, torn, process>> /\ db'.products = db.products /\ db'.slots = db.slots
    BY <1>1, <1>9 DEF RecordEvent
  <2>. QED
    BY <1>1, <2>1, SeedingStands
<1>10. CASE Outage
  <2>1. /\ startup' = "closed" /\ db' = db
        /\ torn' = (torn \/ (startup = "seeding" /\ db.products # {} /\ Legacy \notin db.products))
    BY <1>10 DEF Outage
  <2>2. CASE startup = "seeding"
    <3>1. CASE seeding < 2
      BY <1>1, <2>1, <2>2, <3>1 DEF SeedingSo
    <3>2. CASE seeding > 1
      <4>1. /\ (seeding - 1) \div 2 \in Nat /\ (seeding - 2) \div 2 \in Nat
            /\ (seeding - 2) \div 2 <= (seeding - 1) \div 2 /\ (seeding - 1) \div 2 <= Len(Shelf)
        BY <1>1, <2>2, <3>2, UptoIs DEF SeedingSo
      <4>2. db.slots \subseteq db.products /\ Legacy \notin db.products
        BY <1>1, <2>2, <3>2, <4>1, UptoIs DEF SeedingSo
      <4>. QED
        BY <2>1, <2>2, <4>2 DEF SeedingSo
    <3>. QED
      BY <1>1, <2>2, <3>1, <3>2 DEF SeedingSo
  <2>3. CASE startup # "seeding"
    BY <1>1, <2>1, <2>3 DEF SeedingSo
  <2>. QED
    BY <2>2, <2>3
<1>11. ASSUME NEW primary, NEW event, Project(primary, event) PROVE SeedingSo'
  <2>1. /\ UNCHANGED <<startup, seeding, torn>> /\ db'.products = db.products /\ db'.slots = db.slots
        /\ process'.catalog = process.catalog
    BY <1>1, <1>11 DEF Project
  <2>. QED
    BY <1>1, <2>1, SeedingStands
<1>12. CASE UNCHANGED ledgerVars
  BY <1>1, <1>12, SeedingStands DEF ledgerVars
<1>. QED
  BY <1>2, <1>3, <1>4, <1>5, <1>6, <1>7, <1>8, <1>9, <1>10, <1>11, <1>12 DEF LedgerNext

\* The fields of the tables and of memory that each step leaves alone.
LEMMA FieldsAre ==
    ASSUME TablesShaped
    PROVE  /\ DOMAIN db = {"products", "slots", "money", "sales", "events", "service", "temperature", "status",
                           "configs", "settings"}
           /\ DOMAIN process = {"catalog", "money", "sales", "active", "status"}
           /\ DOMAIN saved = {"money", "sales"} /\ clock \in Nat
BY DEF TablesShaped, EmptyTables, Blank

LEMMA ShapedKept == TablesShaped /\ [LedgerNext]_ledgerVars => TablesShaped'
<1> SUFFICES ASSUME TablesShaped, [LedgerNext]_ledgerVars PROVE TablesShaped'
  OBVIOUS
<1> USE DEF TablesShaped
<1>1. CASE ApplyConfig
  BY <1>1 DEF ApplyConfig
<1>2. CASE ApplySettings
  BY <1>2 DEF ApplySettings
<1>3. CASE OpenStore \/ Seeded
  BY <1>3 DEF OpenStore, Seeded
<1>4. CASE SeedCatalog
  BY <1>4 DEF SeedCatalog
<1>5. CASE Load
  BY <1>5 DEF Load, Blank
<1>6. CASE Change
  <2>1. DOMAIN process' = DOMAIN process
    <3>1. CASE \E s \in Recorded : NewSale(s)
      BY <3>1 DEF NewSale
    <3>2. CASE \E s \in DOMAIN process.sales : SaleMoves(s)
      BY <3>2 DEF SaleMoves
    <3>3. CASE \E m \in MoneyChange(process.money) : process' = [process EXCEPT !.money = m]
      BY <3>3
    <3>. QED
      BY <1>6, <3>1, <3>2, <3>3 DEF Change
  <2>. QED
    BY <1>6, <2>1 DEF Change
<1>7. CASE RecordEvent
  BY <1>7 DEF RecordEvent
<1>8. CASE Outage
  BY <1>8 DEF Outage
<1>9. ASSUME NEW primary, NEW event, Project(primary, event) PROVE TablesShaped'
  BY <1>9 DEF Project
<1>10. CASE UNCHANGED ledgerVars
  BY <1>10 DEF ledgerVars
<1>. QED
  BY <1>1, <1>2, <1>3, <1>4, <1>5, <1>6, <1>7, <1>8, <1>9, <1>10 DEF LedgerNext

LEMMA ConfiguredKept == LedgerInv /\ [LedgerNext]_ledgerVars => ConfiguredSo'
<1> SUFFICES ASSUME LedgerInv, [LedgerNext]_ledgerVars PROVE ConfiguredSo'
  OBVIOUS
<1>1. /\ DOMAIN db = {"products", "slots", "money", "sales", "events", "service", "temperature", "status",
                      "configs", "settings"}
      /\ ConfiguredSo
  BY FieldsAre DEF LedgerInv
<1>2. CASE ApplyConfig
  <2>1. /\ db'.configs = Append(db.configs, <<"config", outages>>)
        /\ startup' = "opening" /\ outages' = outages
    BY <1>1, <1>2 DEF ApplyConfig
  <2>2. <<"config", outages>> \in {"config"} \X Nat
    BY <1>1 DEF ConfiguredSo
  <2>3. /\ db'.configs \in Seq({"config"} \X Nat) /\ Len(db'.configs) = Len(db.configs) + 1
        /\ Len(db.configs) \in Nat /\ db'.configs[Len(db.configs) + 1] = <<"config", outages>>
    BY <1>1, <2>1, <2>2, AppendProperties DEF ConfiguredSo
  <2>4. db'.configs # << >> /\ Last(db'.configs) = <<"config", outages>>
    BY <2>3 DEF Last
  <2>. QED
    BY <1>1, <2>1, <2>3, <2>4 DEF ConfiguredSo
<1>3. CASE ApplySettings
  <2>1. /\ db'.configs = db.configs /\ db'.settings = <<"config", outages>>
        /\ startup = "opening" /\ outages' = outages
    BY <1>1, <1>3 DEF ApplySettings
  <2>. QED
    BY <1>1, <2>1 DEF ConfiguredSo
<1>4. CASE Outage
  <2>1. outages' = outages + 1 /\ startup' = "closed" /\ db' = db
    BY <1>4 DEF Outage
  <2>. QED
    BY <1>1, <2>1 DEF ConfiguredSo
<1>5. ASSUME OpenStore \/ SeedCatalog \/ Seeded \/ Load \/ Change \/ RecordEvent
             \/ (\E primary, event : Project(primary, event)) \/ UNCHANGED ledgerVars
      PROVE  ConfiguredSo'
  <2>1. /\ db'.configs = db.configs /\ db'.settings = db.settings /\ outages' = outages
        /\ startup \in {"closed", "opening"} => startup' = startup
    <3>1. CASE OpenStore \/ Seeded
      BY <3>1 DEF OpenStore, Seeded
    <3>2. CASE SeedCatalog
      BY <1>1, <3>2 DEF SeedCatalog
    <3>3. CASE Load
      BY <1>1, <3>3 DEF Load
    <3>4. CASE Change
      BY <3>4 DEF Change
    <3>5. CASE RecordEvent
      BY <1>1, <3>5 DEF RecordEvent
    <3>6. ASSUME NEW primary, NEW event, Project(primary, event)
          PROVE  /\ db'.configs = db.configs /\ db'.settings = db.settings /\ outages' = outages
                 /\ startup' = startup
      BY <1>1, <3>6 DEF Project
    <3>7. CASE UNCHANGED ledgerVars
      BY <3>7 DEF ledgerVars
    <3>. QED
      BY <1>5, <3>1, <3>2, <3>3, <3>4, <3>5, <3>6, <3>7
  <2>3. startup = "closed" => startup' = "closed"
    BY <2>1
  <2>. QED
    BY <1>1, <2>1, <2>3 DEF ConfiguredSo
<1>. QED
  BY <1>2, <1>3, <1>4, <1>5 DEF LedgerNext

\* The tables of events, when none is written.
LEMMA NotesStand ==
    ASSUME NotedSo, db'.events = db.events, db'.service = db.service, db'.temperature = db.temperature
    PROVE  NotedSo'
BY DEF NotedSo, Notes

LEMMA NotedKept == LedgerInv /\ [LedgerNext]_ledgerVars => NotedSo'
<1> SUFFICES ASSUME LedgerInv, [LedgerNext]_ledgerVars PROVE NotedSo'
  OBVIOUS
<1>1. /\ DOMAIN db = {"products", "slots", "money", "sales", "events", "service", "temperature", "status",
                      "configs", "settings"}
      /\ NotedSo
  BY FieldsAre DEF LedgerInv
<1>2. /\ Len(db.events) \in Nat /\ Len(db.service) \in Nat /\ Len(db.temperature) \in Nat
  BY <1>1 DEF NotedSo, Ascends
<1>0. PICK n \in Nat : n = Notes /\ n = Len(db.events) + Len(db.service) + Len(db.temperature)
  <2>1. Notes = Len(db.events) + Len(db.service) + Len(db.temperature)
    BY DEF Notes
  <2>2. \A a, b, c \in Nat : a + b + c \in Nat
    OBVIOUS
  <2>3. Notes \in Nat
    BY <1>2, <2>1, <2>2, Zenon
  <2>. QED
    BY <2>1, <2>3
<1>3. \A q : Ascends(q, n) => /\ Ascends(q, n + 1) /\ Ascends(Append(q, n + 1), n + 1)
                              /\ Len(Append(q, n + 1)) = Len(q) + 1
                              /\ ToSet(Append(q, n + 1)) = ToSet(q) \cup {n + 1}
  BY NoteAdded
<1>4. 1 .. n + 1 = (1 .. n) \cup {n + 1}
  OBVIOUS
<1>5. /\ Ascends(db.events, n) /\ Ascends(db.service, n) /\ Ascends(db.temperature, n)
      /\ 1 .. n \subseteq ToSet(db.events) \cup ToSet(db.service) \cup ToSet(db.temperature)
  BY <1>0, <1>1 DEF NotedSo
<1>6. ASSUME NEW primary, NEW event, Project(primary, event) PROVE NotedSo'
  <2>1. /\ db'.events = Append(db.events, n + 1) /\ db'.service = db.service
        /\ db'.temperature = db.temperature
    BY <1>0, <1>1, <1>6 DEF Project
  <2>2. Notes' = n + 1
    <3>1. Notes' = Len(db'.events) + Len(db'.service) + Len(db'.temperature)
      BY DEF Notes
    <3>2. \A q : Ascends(q, n) => Len(Append(q, n + 1)) = Len(q) + 1
      BY <1>3
    <3>3. \A a, b, c \in Nat : /\ (a + 1) + b + c = (a + b + c) + 1 /\ a + (b + 1) + c = (a + b + c) + 1
                              /\ a + b + (c + 1) = (a + b + c) + 1
      OBVIOUS
    <3>4. Notes' = (Len(db.events) + 1) + Len(db.service) + Len(db.temperature)
      BY <1>5, <2>1, <3>1, <3>2, Zenon
    <3>5. Notes' = (Len(db.events) + Len(db.service) + Len(db.temperature)) + 1
      BY <1>2, <3>3, <3>4, Zenon
    <3>. QED
      BY <1>0, <3>5, Zenon
  <2>. QED
    BY <1>3, <1>4, <1>5, <2>1, <2>2 DEF NotedSo
<1>7. CASE RecordEvent
  <2>1. \/ /\ db'.service = Append(db.service, n + 1) /\ db'.events = db.events
           /\ db'.temperature = db.temperature
        \/ /\ db'.temperature = Append(db.temperature, n + 1) /\ db'.events = db.events
           /\ db'.service = db.service
    BY <1>0, <1>1, <1>7 DEF RecordEvent
  <2>2. Notes' = n + 1
    <3>1. Notes' = Len(db'.events) + Len(db'.service) + Len(db'.temperature)
      BY DEF Notes
    <3>2. \A q : Ascends(q, n) => Len(Append(q, n + 1)) = Len(q) + 1
      BY <1>3
    <3>3. \A a, b, c \in Nat : /\ (a + 1) + b + c = (a + b + c) + 1 /\ a + (b + 1) + c = (a + b + c) + 1
                              /\ a + b + (c + 1) = (a + b + c) + 1
      OBVIOUS
    <3>4. \/ Notes' = Len(db.events) + (Len(db.service) + 1) + Len(db.temperature)
          \/ Notes' = Len(db.events) + Len(db.service) + (Len(db.temperature) + 1)
      BY <1>5, <2>1, <3>1, <3>2, Zenon
    <3>5. Notes' = (Len(db.events) + Len(db.service) + Len(db.temperature)) + 1
      BY <1>2, <3>3, <3>4, Zenon
    <3>. QED
      BY <1>0, <3>5, Zenon
  <2>. QED
    BY <1>3, <1>4, <1>5, <2>1, <2>2 DEF NotedSo
<1>8. ASSUME ApplyConfig \/ ApplySettings \/ OpenStore \/ SeedCatalog \/ Seeded \/ Load \/ Change \/ Outage
             \/ UNCHANGED ledgerVars
      PROVE  NotedSo'
  <2>1. db'.events = db.events /\ db'.service = db.service /\ db'.temperature = db.temperature
    <3>1. CASE ApplyConfig
      BY <1>1, <3>1 DEF ApplyConfig
    <3>2. CASE ApplySettings
      BY <1>1, <3>2 DEF ApplySettings
    <3>3. CASE OpenStore \/ Seeded \/ Change \/ Outage
      BY <3>3 DEF OpenStore, Seeded, Change, Outage
    <3>4. CASE SeedCatalog
      BY <1>1, <3>4 DEF SeedCatalog
    <3>5. CASE Load
      BY <1>1, <3>5 DEF Load
    <3>6. CASE UNCHANGED ledgerVars
      BY <3>6 DEF ledgerVars
    <3>. QED
      BY <1>8, <3>1, <3>2, <3>3, <3>4, <3>5, <3>6
  <2>. QED
    BY <1>1, <2>1, NotesStand
<1>. QED
  BY <1>6, <1>7, <1>8 DEF LedgerNext

\* What happens to a sale leaves it one that can be kept.
LEMMA ChangedSaleIs ==
    ASSUME NEW r \in Entities, NEW q \in SaleChange(r), NEW time \in Nat
    PROVE  [q EXCEPT !.touched = time] \in Entities /\ [q EXCEPT !.touched = time].touched = time
<1>1. q \in Entities
  <2>1. /\ r.status \in Statuses /\ r.recovery \in {"none", "pending"} /\ r.bills \in Seq(Nominals)
        /\ r.reserve \in [Nominals -> {1}] \cup {Unreserved} /\ r.cancelled \in BOOLEAN /\ r.touched \in Nat
    BY DEF Entities
  <2>2. [d \in Nominals |-> 1] \in [Nominals -> {1}] \cup {Unreserved}
    OBVIOUS
  <2>3. \A d \in Nominals : Append(r.bills, d) \in Seq(Nominals)
    BY <2>1
  <2> DEFINE Moves(status, recovery) == [r EXCEPT !.status = status, !.recovery = recovery]
             Cancelled == [Moves("cancelled", "none") EXCEPT !.cancelled = TRUE, !.reserve = Unreserved]
  <2>4. \A status \in Statuses, recovery \in {"none", "pending"} : Moves(status, recovery) \in Entities
    BY <2>1 DEF Entities
  <2>5. Cancelled \in Entities
    <3>1. Moves("cancelled", "none") \in Entities
      BY <2>4 DEF Statuses
    <3>. QED
      BY <3>1 DEF Entities
  <2>6. \A reserve \in [Nominals -> {1}] \cup {Unreserved} :
           [r EXCEPT !.status = "accepting_cash", !.reserve = reserve] \in Entities
    BY <2>1 DEF Entities, Statuses
  <2>7. \A d \in Nominals : [r EXCEPT !.bills = Append(@, d)] \in Entities
    BY <2>1, <2>3 DEF Entities
  <2>8. CASE r.status = "created"
    <3>1. SaleChange(r) = {[r EXCEPT !.status = "accepting_cash", !.reserve = reserve] :
                              reserve \in {Unreserved, [d \in Nominals |-> 1]}} \cup {Cancelled}
      BY <2>8 DEF SaleChange
    <3> HIDE DEF Cancelled, Moves
    <3>. QED
      BY <2>2, <2>5, <2>6, <3>1
  <2>9. CASE r.status = "accepting_cash"
    <3>1. SaleChange(r) = {[r EXCEPT !.bills = Append(@, d)] : d \in Nominals}
                            \cup {Moves("completed", "none"), Moves("ambiguous", "pending"),
                                  Moves("pickup_timed_out", "pending"), Cancelled}
      BY <2>9 DEF SaleChange
    <3>2. {"completed", "ambiguous", "pickup_timed_out"} \subseteq Statuses
      BY DEF Statuses
    <3> HIDE DEF Cancelled, Moves
    <3>. QED
      BY <2>4, <2>5, <2>7, <3>1, <3>2
  <2>10. CASE r.status = "cancelled"
    <3>1. SaleChange(r) = {Moves("ambiguous", "pending"), Moves("cancelled", "pending")}
      BY <2>10 DEF SaleChange
    <3>2. {"ambiguous", "cancelled"} \subseteq Statuses
      BY DEF Statuses
    <3> HIDE DEF Moves
    <3>. QED
      BY <2>4, <3>1, <3>2
  <2>11. CASE r.status \notin {"created", "accepting_cash", "cancelled"}
    BY <2>11 DEF SaleChange
  <2>. QED
    BY <2>8, <2>9, <2>10, <2>11
<1>. QED
  BY <1>1 DEF Entities

\* A change of memory touches at most one sale, at a time of its own.
LEMMA ChangeIs ==
    ASSUME LedgerInv, Change
    PROVE  /\ startup = "running" /\ clock' = clock + 1 /\ UNCHANGED <<startup, db, saved, back>>
           /\ process'.money \in Monies /\ WellKept(process.sales)'
           /\ \E x : \A s \in DOMAIN process'.sales :
                 \/ s \in DOMAIN process.sales /\ process'.sales[s].touched = process.sales[s].touched
                 \/ s = x /\ process'.sales[s].touched = clock + 1
<1>1. /\ startup = "running" /\ clock' = clock + 1 /\ UNCHANGED <<startup, db, saved, back>>
      /\ process.money \in Monies /\ WellKept(process.sales) /\ clock \in Nat
      /\ DOMAIN process = {"catalog", "money", "sales", "active", "status"}
  BY FieldsAre DEF Change, LedgerInv, MoneyKept, SalesKept
<1>2. ASSUME NEW x \in Recorded, NewSale(x)
      PROVE  /\ process'.money \in Monies /\ WellKept(process.sales)'
             /\ \A s \in DOMAIN process'.sales :
                   \/ s \in DOMAIN process.sales /\ process'.sales[s].touched = process.sales[s].touched
                   \/ s = x /\ process'.sales[s].touched = clock + 1
  <2> DEFINE new == [status |-> "created", recovery |-> "none", bills |-> NoSession,
                     reserve |-> Unreserved, cancelled |-> FALSE, touched |-> clock + 1]
  <2>1. /\ process'.money = process.money
        /\ process'.sales = [t \in DOMAIN process.sales \cup {x} |-> IF t = x THEN new ELSE process.sales[t]]
    BY <1>1, <1>2 DEF NewSale
  <2>2. new \in Entities /\ new.touched = clock + 1
    <3>1. NoSession \in Seq(Nominals)
      BY EmptySeq DEF NoSession
    <3>. QED
      BY <1>1, <3>1 DEF Entities, Statuses
  <2> HIDE DEF new
  <2>3. IsFiniteSet(DOMAIN process.sales \cup {x})
    BY <1>1, FS_AddElement DEF WellKept
  <2>4. DOMAIN process'.sales = DOMAIN process.sales \cup {x}
    BY <2>1
  <2>5. ASSUME NEW s \in DOMAIN process'.sales
        PROVE  /\ process'.sales[s] \in Entities /\ process'.sales[s].touched <= clock + 1
               /\ \/ s \in DOMAIN process.sales /\ process'.sales[s].touched = process.sales[s].touched
                  \/ s = x /\ process'.sales[s].touched = clock + 1
    <3>1. CASE s = x
      BY <1>1, <2>1, <2>2, <2>4, <3>1
    <3>2. CASE s # x
      <4>1. s \in DOMAIN process.sales /\ process'.sales[s] = process.sales[s]
        BY <2>1, <2>4, <3>2
      <4>2. process.sales[s] \in Entities /\ process.sales[s].touched <= clock /\ process.sales[s].touched \in Nat
        BY <1>1, <4>1 DEF WellKept, Entities
      <4>. QED
        BY <1>1, <4>1, <4>2
    <3>. QED
      BY <3>1, <3>2
  <2>. QED
    BY <1>1, <2>1, <2>3, <2>4, <2>5 DEF WellKept
<1>3. ASSUME NEW x \in DOMAIN process.sales, SaleMoves(x)
      PROVE  /\ process'.money \in Monies /\ WellKept(process.sales)'
             /\ \A s \in DOMAIN process'.sales :
                   \/ s \in DOMAIN process.sales /\ process'.sales[s].touched = process.sales[s].touched
                   \/ s = x /\ process'.sales[s].touched = clock + 1
  <2>1. PICK q \in SaleChange(process.sales[x]) :
           /\ process'.money = process.money
           /\ process'.sales = [process.sales EXCEPT ![x] = [q EXCEPT !.touched = clock + 1]]
    BY <1>1, <1>3 DEF SaleMoves
  <2> DEFINE new == [q EXCEPT !.touched = clock + 1]
  <2>2. new \in Entities /\ new.touched = clock + 1
    <3>1. process.sales[x] \in Entities /\ clock + 1 \in Nat
      BY <1>1 DEF WellKept
    <3>. QED
      BY <3>1, ChangedSaleIs
  <2>3. process'.sales = [process.sales EXCEPT ![x] = new]
    BY <2>1
  <2> HIDE DEF new
  <2>4. DOMAIN process'.sales = DOMAIN process.sales
    BY <2>3
  <2>5. ASSUME NEW s \in DOMAIN process'.sales
        PROVE  /\ process'.sales[s] \in Entities /\ process'.sales[s].touched <= clock + 1
               /\ \/ s \in DOMAIN process.sales /\ process'.sales[s].touched = process.sales[s].touched
                  \/ s = x /\ process'.sales[s].touched = clock + 1
    <3>1. CASE s = x
      BY <1>1, <2>2, <2>3, <2>4, <3>1
    <3>2. CASE s # x
      <4>1. s \in DOMAIN process.sales /\ process'.sales[s] = process.sales[s]
        BY <2>3, <2>4, <3>2
      <4>2. process.sales[s] \in Entities /\ process.sales[s].touched <= clock /\ process.sales[s].touched \in Nat
        BY <1>1, <4>1 DEF WellKept, Entities
      <4>. QED
        BY <1>1, <4>1, <4>2
    <3>. QED
      BY <3>1, <3>2
  <2>. QED
    BY <1>1, <2>1, <2>4, <2>5 DEF WellKept
<1>4. ASSUME NEW m \in MoneyChange(process.money), process' = [process EXCEPT !.money = m]
      PROVE  /\ process'.money \in Monies /\ WellKept(process.sales)'
             /\ \A s \in DOMAIN process'.sales :
                   s \in DOMAIN process.sales /\ process'.sales[s].touched = process.sales[s].touched
  <2>1. process'.money = m /\ process'.sales = process.sales
    BY <1>1, <1>4
  <2>2. m \in Monies
    <3>1. [d \in Nominals |-> 1] \in [Nominals -> Nat] /\ [d \in Nominals |-> 0] \in [Nominals -> Nat]
      OBVIOUS
    <3>. QED
      BY <1>1, <3>1 DEF MoneyChange, Monies
  <2>3. \A s \in DOMAIN process.sales : process.sales[s].touched \in Nat
    BY <1>1 DEF WellKept, Entities
  <2>4. WellKept(process.sales)'
    BY <1>1, <2>1, <2>3 DEF WellKept
  <2>. QED
    BY <2>1, <2>2, <2>4
<1>5. \/ \E x \in Recorded : NewSale(x)
      \/ \E x \in DOMAIN process.sales : SaleMoves(x)
      \/ \E m \in MoneyChange(process.money) : process' = [process EXCEPT !.money = m]
  BY DEF Change
<1>. QED
  BY <1>1, <1>2, <1>3, <1>4, <1>5

LEMMA AsSavedIs ==
    ASSUME NEW r \in Entities
    PROVE  /\ AsSaved(r) \in Entities /\ AsSaved(r).touched = r.touched /\ AsSaved(r).status = r.status
           /\ r.touched \in Nat
           /\ TransactionToRecord(r).status = r.status /\ TransactionToRecord(r).touched = r.touched
           /\ Unfinished(TransactionToRecord(r)) <=> Unfinished(r)
<1>1. (r.status = "cancelled") \in BOOLEAN
  OBVIOUS
<1>. QED
  BY <1>1 DEF AsSaved, Entities, TransactionToRecord, Unfinished

\* The unfinished rows, by their age.
LEMMA UnresolvedAre ==
    ASSUME LedgerInv
    PROVE  LET open == {s \in DOMAIN saved.sales : Unfinished(saved.sales[s])}
               order == ListUnresolved(db.sales)
           IN  /\ order \in [1 .. Cardinality(open) -> open] /\ Cardinality(open) \in Nat
               /\ ToSet(order) = open /\ IsFiniteSet(open)
               /\ \A i, j \in 1 .. Cardinality(open) : i < j =>
                     saved.sales[order[i]].touched < saved.sales[order[j]].touched
<1> DEFINE open == {s \in DOMAIN saved.sales : Unfinished(saved.sales[s])}
           listed == {s \in DOMAIN db.sales : Unfinished(db.sales[s])}
<1>1. /\ WellKept(saved.sales) /\ DOMAIN db.sales = DOMAIN saved.sales
      /\ \A s \in DOMAIN saved.sales : db.sales[s] = TransactionToRecord(saved.sales[s])
  BY DEF LedgerInv, SalesKept
<1>2. ASSUME NEW s \in DOMAIN saved.sales
      PROVE  /\ db.sales[s].touched = saved.sales[s].touched /\ saved.sales[s].touched \in Nat
             /\ Unfinished(db.sales[s]) <=> Unfinished(saved.sales[s])
  <2>1. saved.sales[s] \in Entities /\ db.sales[s] = TransactionToRecord(saved.sales[s])
    BY <1>1 DEF WellKept
  <2>. QED
    BY <2>1, AsSavedIs
<1>3. listed = open
  BY <1>1, <1>2
<1>4. IsFiniteSet(open)
  <2>1. open \in SUBSET (DOMAIN saved.sales)
    OBVIOUS
  <2> HIDE DEF open
  <2>. QED
    BY <1>1, <2>1, FS_Subset DEF WellKept
<1>5. \A s \in open : db.sales[s].touched \in Nat /\ db.sales[s].touched = saved.sales[s].touched
  BY <1>2
<1>6. \A s, t \in open : s # t => db.sales[s].touched # db.sales[t].touched
  <2> SUFFICES ASSUME NEW s \in open, NEW t \in open, s # t PROVE db.sales[s].touched # db.sales[t].touched
    OBVIOUS
  <2>1. s \in Recorded /\ t \in Recorded /\ s \in DOMAIN saved.sales /\ t \in DOMAIN saved.sales
    BY <1>1 DEF WellKept
  <2>2. saved.sales[s].touched \in Times(s) /\ saved.sales[t].touched \in Times(t)
    BY <2>1 DEF Times
  <2>3. Times(s) \cap Times(t) = {}
    BY <2>1 DEF LedgerInv, TimesDiffer
  <2>. QED
    BY <1>5, <2>2, <2>3
<1> HIDE DEF open
<1>7. /\ ByAge(open, db.sales) \in [1 .. Cardinality(open) -> open] /\ Cardinality(open) \in Nat
      /\ ToSet(ByAge(open, db.sales)) = open
      /\ \A i, j \in 1 .. Cardinality(open) : i < j =>
            db.sales[ByAge(open, db.sales)[i]].touched < db.sales[ByAge(open, db.sales)[j]].touched
  BY <1>4, <1>5, <1>6, OrderIs
<1>8. ListUnresolved(db.sales) = ByAge(open, db.sales)
  BY <1>3 DEF ListUnresolved
<1>9. \A i \in 1 .. Cardinality(open) : ByAge(open, db.sales)[i] \in open
  BY <1>7
<1>. QED
  BY <1>4, <1>5, <1>7, <1>8, <1>9 DEF open

LEMMA FirstMoneyIs == FirstMoney \in Monies
BY DEF FirstMoney, Monies

\* A start finds what was saved.
LEMMA LoadIs ==
    ASSUME LedgerInv, Load
    PROVE  LET open == {s \in DOMAIN saved.sales : Unfinished(saved.sales[s])}
           IN  /\ startup' = "running" /\ clock' = clock /\ DOMAIN saved' = DOMAIN saved
               /\ process'.money \in Monies /\ db'.money = MoneyToRecord(process'.money)
               /\ saved'.money = process'.money /\ saved'.sales = saved.sales /\ db'.sales = db.sales
               /\ process'.sales = [s \in open |-> AsSaved(saved.sales[s])] /\ IsFiniteSet(open)
               /\ back'
<1> DEFINE open == {s \in DOMAIN saved.sales : Unfinished(saved.sales[s])}
           order == ListUnresolved(db.sales)
           sales == [s \in ToSet(order) |-> TransactionFromRow(db.sales[s])]
           money == IF db.money = << >> THEN FirstMoney ELSE MoneyFromRow(db.money)
<1>1. /\ DOMAIN db = {"products", "slots", "money", "sales", "events", "service", "temperature", "status",
                      "configs", "settings"}
      /\ DOMAIN saved = {"money", "sales"} /\ MoneyKept
      /\ WellKept(saved.sales) /\ DOMAIN db.sales = DOMAIN saved.sales
      /\ \A s \in DOMAIN saved.sales : db.sales[s] = TransactionToRecord(saved.sales[s])
  BY FieldsAre DEF LedgerInv, SalesKept
<1>2. /\ order \in [1 .. Cardinality(open) -> open] /\ Cardinality(open) \in Nat
      /\ ToSet(order) = open /\ IsFiniteSet(open)
      /\ \A i, j \in 1 .. Cardinality(open) : i < j =>
            saved.sales[order[i]].touched < saved.sales[order[j]].touched
  BY UnresolvedAre
<1>3. /\ startup' = "running" /\ clock' = clock
      /\ process'.money = money /\ process'.sales = sales /\ process'.active = ActiveAmong(order, sales)
      /\ db' = [db EXCEPT !.money = MoneyToRecord(money)]
      /\ saved' = [saved EXCEPT !.money = IF db.money = << >> THEN FirstMoney ELSE @]
  BY DEF Load
<1>4. back' = (/\ money = saved'.money
               /\ sales = [s \in open |-> AsSaved(saved.sales[s])]
               /\ \A s \in DOMAIN sales : Bars(saved.sales[s]) =>
                     /\ process'.active # NoSale
                     /\ saved.sales[process'.active].touched <= saved.sales[s].touched)
  BY DEF Load
<1> HIDE DEF order, money, sales, open
<1>5. money \in Monies /\ saved'.money = money
  <2>1. CASE db.money = << >>
    BY <1>1, <1>3, <2>1, FirstMoneyIs DEF money
  <2>2. CASE db.money # << >>
    <3>1. saved.money \in Monies /\ db.money = MoneyToRecord(saved.money)
      BY <1>1, <2>2 DEF MoneyKept
    <3>2. money = saved.money
      BY <2>2, <3>1, MoneyComesBack DEF money
    <3>. QED
      BY <1>1, <1>3, <2>2, <3>1, <3>2
  <2>. QED
    BY <2>1, <2>2
<1>6. ASSUME NEW s \in open
      PROVE  TransactionFromRow(db.sales[s]) = AsSaved(saved.sales[s]) /\ saved.sales[s] \in Entities
  <2>1. s \in DOMAIN saved.sales
    BY DEF open
  <2>2. saved.sales[s] \in Entities /\ db.sales[s] = TransactionToRecord(saved.sales[s])
    BY <1>1, <2>1 DEF WellKept
  <2>. QED
    BY <2>2, SaleComesBack
<1>7. sales = [s \in open |-> AsSaved(saved.sales[s])]
  BY <1>2, <1>6 DEF sales
<1>8. ASSUME NEW s \in DOMAIN sales, Bars(saved.sales[s])
      PROVE  /\ process'.active # NoSale
             /\ saved.sales[process'.active].touched <= saved.sales[s].touched
  <2> DEFINE bars == {i \in DOMAIN order : Bars(sales[order[i]])}
  <2>1. s \in open /\ DOMAIN order = 1 .. Cardinality(open)
    BY <1>2, <1>7
  <2>2. PICK k \in DOMAIN order : order[k] = s
    BY <1>2, <2>1 DEF ToSet
  <2>3. \A t \in open : Bars(sales[t]) <=> Bars(saved.sales[t])
    BY <1>6, <1>7, AsSavedIs DEF Bars
  <2>4. k \in bars /\ bars \in SUBSET Nat
    BY <1>2, <1>8, <2>1, <2>2, <2>3
  <2>5. process'.active = order[Min(bars)]
    BY <1>3, <2>4 DEF ActiveAmong
  <2>6. Min(bars) \in bars /\ Min(bars) <= k
    <3> HIDE DEF bars
    <3>. QED
      BY <2>4, LeastOf
  <2>7. Min(bars) \in 1 .. Cardinality(open) /\ k \in 1 .. Cardinality(open)
    BY <2>1, <2>6
  <2> DEFINE first == order[Min(bars)]
  <2>8. first \in open /\ first \in Recorded
    BY <1>1, <1>2, <2>7 DEF open, WellKept
  <2>9. saved.sales[first].touched <= saved.sales[s].touched
    <3>1. CASE Min(bars) = k
      <4>1. saved.sales[s].touched \in Nat
        BY <1>6, <2>1, AsSavedIs
      <4>. QED
        BY <2>2, <3>1, <4>1
    <3>2. CASE Min(bars) < k
      <4>1. saved.sales[first].touched < saved.sales[s].touched
        BY <1>2, <2>2, <2>7, <3>2
      <4>2. saved.sales[first].touched \in Nat /\ saved.sales[s].touched \in Nat
        BY <1>6, <2>1, <2>8, AsSavedIs
      <4>. QED
        BY <4>1, <4>2
    <3>3. Min(bars) = k \/ Min(bars) < k
      BY <2>6, <2>7
    <3>. QED
      BY <3>1, <3>2, <3>3
  <2>10. process'.active # NoSale
    BY <2>5, <2>8, LedgerAssumption
  <2>. QED
    BY <2>5, <2>9, <2>10
<1>9. back'
  BY <1>4, <1>5, <1>7, <1>8
<1>10. db'.money = MoneyToRecord(money) /\ db'.sales = db.sales /\ saved'.sales = saved.sales
       /\ DOMAIN saved' = DOMAIN saved
  BY <1>1, <1>3
<1>. QED
  BY <1>2, <1>3, <1>5, <1>7, <1>9, <1>10 DEF open

\* A projection saves what memory has of the sales that it writes.
LEMMA ProjectIs ==
    ASSUME LedgerInv, NEW primary, NEW event, Project(primary, event)
    PROVE  LET written == {s \in DOMAIN process.sales : s = primary \/ Unfinished(process.sales[s])}
           IN  /\ startup = "running" /\ UNCHANGED <<startup, clock, back>>
               /\ process'.money = process.money /\ process'.sales = process.sales
               /\ db'.money = MoneyToRecord(process.money) /\ saved'.money = process.money
               /\ DOMAIN db'.sales = DOMAIN saved.sales \cup written
               /\ DOMAIN saved'.sales = DOMAIN saved.sales \cup written
               /\ \A s \in DOMAIN saved'.sales :
                     /\ s \in written => /\ db'.sales[s] = TransactionToRecord(process.sales[s])
                                         /\ saved'.sales[s] = process.sales[s]
                     /\ s \notin written => db'.sales[s] = db.sales[s] /\ saved'.sales[s] = saved.sales[s]
<1> DEFINE written == {s \in DOMAIN process.sales : s = primary \/ Unfinished(process.sales[s])}
<1>1. /\ DOMAIN db = {"products", "slots", "money", "sales", "events", "service", "temperature", "status",
                      "configs", "settings"}
      /\ DOMAIN process = {"catalog", "money", "sales", "active", "status"}
      /\ DOMAIN db.sales = DOMAIN saved.sales
  BY FieldsAre DEF LedgerInv, SalesKept
<1>2. /\ startup = "running" /\ UNCHANGED <<startup, clock, back>>
      /\ process'.money = process.money /\ process'.sales = process.sales
      /\ db'.money = MoneyToRecord(process.money)
      /\ saved' = [money |-> process.money,
                   sales |-> [s \in DOMAIN saved.sales \cup written |->
                                IF s \in written THEN process.sales[s] ELSE saved.sales[s]]]
  BY <1>1 DEF Project
<1>3. db'.sales = [s \in DOMAIN db.sales \cup written |->
                     IF s \in written THEN TransactionToRecord(process.sales[s]) ELSE db.sales[s]]
  BY <1>1 DEF Project
<1> HIDE DEF written
<1>. QED
  BY <1>1, <1>2, <1>3 DEF written

LEMMA MoneyKeptOn == LedgerInv /\ [LedgerNext]_ledgerVars => MoneyKept'
<1> SUFFICES ASSUME LedgerInv, [LedgerNext]_ledgerVars PROVE MoneyKept'
  OBVIOUS
<1>1. /\ DOMAIN db = {"products", "slots", "money", "sales", "events", "service", "temperature", "status",
                      "configs", "settings"}
      /\ MoneyKept
  BY FieldsAre DEF LedgerInv
<1>2. CASE Load
  BY <1>2, LoadIs DEF MoneyKept
<1>3. CASE Change
  BY <1>1, <1>3, ChangeIs DEF MoneyKept
<1>4. ASSUME NEW primary, NEW event, Project(primary, event) PROVE MoneyKept'
  <2>1. /\ startup = "running" /\ process'.money = process.money
        /\ db'.money = MoneyToRecord(process.money) /\ saved'.money = process.money
    BY <1>4, ProjectIs
  <2>. QED
    BY <1>1, <2>1 DEF MoneyKept
<1>5. ASSUME ApplyConfig \/ ApplySettings \/ OpenStore \/ SeedCatalog \/ Seeded \/ RecordEvent \/ Outage
             \/ UNCHANGED ledgerVars
      PROVE  MoneyKept'
  <2>1. /\ db'.money = db.money /\ saved' = saved
        /\ startup' = "running" => startup = "running" /\ process' = process
    <3>1. CASE ApplyConfig
      BY <1>1, <3>1 DEF ApplyConfig
    <3>2. CASE ApplySettings
      BY <1>1, <3>2 DEF ApplySettings
    <3>3. CASE OpenStore \/ Seeded \/ Outage
      BY <3>3 DEF OpenStore, Seeded, Outage
    <3>4. CASE SeedCatalog
      BY <1>1, <3>4 DEF SeedCatalog
    <3>5. CASE RecordEvent
      BY <1>1, <3>5 DEF RecordEvent
    <3>6. CASE UNCHANGED ledgerVars
      BY <3>6 DEF ledgerVars
    <3>. QED
      BY <1>5, <3>1, <3>2, <3>3, <3>4, <3>5, <3>6
  <2>. QED
    BY <1>1, <2>1 DEF MoneyKept
<1>. QED
  BY <1>2, <1>3, <1>4, <1>5 DEF LedgerNext

\* The steps that leave the sales alone, in memory and in the tables.
LEMMA SalesStand ==
    ASSUME LedgerInv, ApplyConfig \/ ApplySettings \/ OpenStore \/ SeedCatalog \/ Seeded \/ RecordEvent
                      \/ Outage \/ UNCHANGED ledgerVars
    PROVE  /\ db'.sales = db.sales /\ saved' = saved /\ clock' = clock /\ back' = back
           /\ process'.sales = process.sales \/ process' = Blank
<1>1. /\ DOMAIN db = {"products", "slots", "money", "sales", "events", "service", "temperature", "status",
                      "configs", "settings"}
  BY FieldsAre DEF LedgerInv
<1>2. CASE ApplyConfig
  BY <1>1, <1>2 DEF ApplyConfig
<1>3. CASE ApplySettings
  BY <1>1, <1>3 DEF ApplySettings
<1>4. CASE OpenStore \/ Seeded \/ Outage
  BY <1>4 DEF OpenStore, Seeded, Outage
<1>5. CASE SeedCatalog
  BY <1>1, <1>5 DEF SeedCatalog
<1>6. CASE RecordEvent
  BY <1>1, <1>6 DEF RecordEvent
<1>7. CASE UNCHANGED ledgerVars
  BY <1>7 DEF ledgerVars
<1>. QED
  BY <1>2, <1>3, <1>4, <1>5, <1>6, <1>7

LEMMA NoSalesInBlank == DOMAIN Blank.sales = {} /\ IsFiniteSet({})
<1>1. DOMAIN << >> = {}
  OBVIOUS
<1>. QED
  BY <1>1, FS_EmptySet DEF Blank

LEMMA SalesKeptOn == LedgerInv /\ [LedgerNext]_ledgerVars => SalesKept' /\ back'
<1> SUFFICES ASSUME LedgerInv, [LedgerNext]_ledgerVars PROVE SalesKept' /\ back'
  OBVIOUS
<1>1. SalesKept /\ back /\ clock \in Nat
  BY FieldsAre DEF LedgerInv
<1>2. CASE Load
  <2> DEFINE open == {s \in DOMAIN saved.sales : Unfinished(saved.sales[s])}
  <2>1. /\ process'.sales = [s \in open |-> AsSaved(saved.sales[s])] /\ IsFiniteSet(open)
        /\ saved'.sales = saved.sales /\ db'.sales = db.sales /\ clock' = clock /\ back'
    BY <1>2, LoadIs
  <2>2. \A s \in open : /\ AsSaved(saved.sales[s]) \in Entities /\ s \in Recorded
                        /\ AsSaved(saved.sales[s]).touched <= clock
    BY <1>1, AsSavedIs DEF SalesKept, WellKept
  <2> HIDE DEF open
  <2>3. WellKept(process.sales)'
    BY <2>1, <2>2 DEF WellKept
  <2>. QED
    BY <1>1, <2>1, <2>3 DEF SalesKept, WellKept
<1>3. CASE Change
  <2>1. clock' = clock + 1 /\ db' = db /\ saved' = saved /\ back' = back /\ WellKept(process.sales)'
    BY <1>3, ChangeIs
  <2>2. \A s \in DOMAIN saved.sales : saved.sales[s].touched <= clock + 1
    <3>1. \A s \in DOMAIN saved.sales : saved.sales[s].touched \in Nat /\ saved.sales[s].touched <= clock
      BY <1>1 DEF SalesKept, WellKept, Entities
    <3>. QED
      BY <1>1, <3>1
  <2>. QED
    BY <1>1, <2>1, <2>2 DEF SalesKept, WellKept
<1>4. ASSUME NEW primary, NEW event, Project(primary, event) PROVE SalesKept' /\ back'
  <2> DEFINE written == {s \in DOMAIN process.sales : s = primary \/ Unfinished(process.sales[s])}
  <2>1. /\ UNCHANGED <<clock, back>> /\ process'.sales = process.sales
        /\ DOMAIN db'.sales = DOMAIN saved.sales \cup written
        /\ DOMAIN saved'.sales = DOMAIN saved.sales \cup written
        /\ \A s \in DOMAIN saved'.sales :
              /\ s \in written => /\ db'.sales[s] = TransactionToRecord(process.sales[s])
                                  /\ saved'.sales[s] = process.sales[s]
              /\ s \notin written => db'.sales[s] = db.sales[s] /\ saved'.sales[s] = saved.sales[s]
    BY <1>4, ProjectIs
  <2>2. written \in SUBSET (DOMAIN process.sales)
    OBVIOUS
  <2> HIDE DEF written
  <2>3. IsFiniteSet(DOMAIN saved.sales \cup written)
    <3>1. IsFiniteSet(written)
      BY <1>1, <2>2, FS_Subset DEF SalesKept, WellKept
    <3>. QED
      BY <1>1, <3>1, FS_Union DEF SalesKept, WellKept
  <2>4. WellKept(saved.sales)'
    BY <1>1, <2>1, <2>2, <2>3 DEF SalesKept, WellKept
  <2>5. WellKept(process.sales)'
    BY <1>1, <2>1 DEF SalesKept, WellKept
  <2>6. \A s \in DOMAIN db'.sales : db'.sales[s] = TransactionToRecord(saved'.sales[s])
    BY <1>1, <2>1 DEF SalesKept
  <2>. QED
    BY <1>1, <2>1, <2>4, <2>5, <2>6 DEF SalesKept
<1>5. ASSUME ApplyConfig \/ ApplySettings \/ OpenStore \/ SeedCatalog \/ Seeded \/ RecordEvent \/ Outage
             \/ UNCHANGED ledgerVars
      PROVE  SalesKept' /\ back'
  <2>1. /\ db'.sales = db.sales /\ saved' = saved /\ clock' = clock /\ back' = back
        /\ process'.sales = process.sales \/ process' = Blank
    BY <1>5, SalesStand
  <2>2. WellKept(process.sales)'
    BY <1>1, <2>1, NoSalesInBlank DEF SalesKept, WellKept
  <2>. QED
    BY <1>1, <2>1, <2>2 DEF SalesKept, WellKept
<1>. QED
  BY <1>2, <1>3, <1>4, <1>5 DEF LedgerNext

LEMMA TimesKept == LedgerInv /\ [LedgerNext]_ledgerVars => TimesDiffer'
<1> SUFFICES ASSUME LedgerInv, [LedgerNext]_ledgerVars PROVE TimesDiffer'
  OBVIOUS
<1>1. SalesKept /\ TimesDiffer /\ clock \in Nat
  BY FieldsAre DEF LedgerInv
<1>2. \A s : Times(s) \subseteq 0 .. clock
  BY <1>1 DEF Times, SalesKept, WellKept, Entities
<1>3. ASSUME \A s \in Recorded : Times(s)' \subseteq Times(s) PROVE TimesDiffer'
  BY <1>1, <1>3 DEF TimesDiffer
<1>4. CASE Load
  <2> DEFINE open == {s \in DOMAIN saved.sales : Unfinished(saved.sales[s])}
  <2>1. process'.sales = [s \in open |-> AsSaved(saved.sales[s])] /\ saved'.sales = saved.sales
    BY <1>4, LoadIs
  <2>2. \A s \in open : s \in DOMAIN saved.sales /\ AsSaved(saved.sales[s]).touched = saved.sales[s].touched
    BY <1>1, AsSavedIs DEF SalesKept, WellKept
  <2> HIDE DEF open
  <2>3. \A s \in Recorded : Times(s)' \subseteq Times(s)
    BY <2>1, <2>2 DEF Times
  <2>. QED
    BY <1>3, <2>3
<1>5. CASE Change
  <2>1. PICK x : \A s \in DOMAIN process'.sales :
                    \/ s \in DOMAIN process.sales /\ process'.sales[s].touched = process.sales[s].touched
                    \/ s = x /\ process'.sales[s].touched = clock + 1
    BY <1>5, ChangeIs
  <2>2. saved' = saved
    BY <1>5, ChangeIs
  <2>3. \A s \in Recorded : Times(s)' \subseteq Times(s) \cup {clock + 1}
    BY <2>1, <2>2 DEF Times
  <2>4. \A s \in Recorded : s # x => Times(s)' \subseteq Times(s)
    BY <2>1, <2>2 DEF Times
  <2>5. clock + 1 \notin 0 .. clock
    BY <1>1
  <2>6. ASSUME NEW s \in Recorded, NEW t \in Recorded, s # t PROVE Times(s)' \cap Times(t)' = {}
    <3>1. Times(s) \cap Times(t) = {} /\ clock + 1 \notin Times(s) /\ clock + 1 \notin Times(t)
      BY <1>1, <1>2, <2>5, <2>6 DEF TimesDiffer
    <3>2. s # x \/ t # x
      BY <2>6
    <3>. QED
      BY <2>3, <2>4, <3>1, <3>2
  <2>. QED
    BY <2>6 DEF TimesDiffer
<1>6. ASSUME NEW primary, NEW event, Project(primary, event) PROVE TimesDiffer'
  <2> DEFINE written == {s \in DOMAIN process.sales : s = primary \/ Unfinished(process.sales[s])}
  <2>1. /\ process'.sales = process.sales /\ DOMAIN saved'.sales = DOMAIN saved.sales \cup written
        /\ \A s \in DOMAIN saved'.sales :
              /\ s \in written => saved'.sales[s] = process.sales[s]
              /\ s \notin written => saved'.sales[s] = saved.sales[s]
    BY <1>6, ProjectIs
  <2>2. written \subseteq DOMAIN process.sales
    OBVIOUS
  <2> HIDE DEF written
  <2>3. \A s \in Recorded : Times(s)' \subseteq Times(s)
    BY <2>1, <2>2 DEF Times
  <2>. QED
    BY <1>3, <2>3
<1>7. ASSUME ApplyConfig \/ ApplySettings \/ OpenStore \/ SeedCatalog \/ Seeded \/ RecordEvent \/ Outage
             \/ UNCHANGED ledgerVars
      PROVE  TimesDiffer'
  <2>1. saved' = saved /\ (process'.sales = process.sales \/ process' = Blank)
    BY <1>7, SalesStand
  <2>2. \A s \in Recorded : Times(s)' \subseteq Times(s)
    BY <2>1, NoSalesInBlank DEF Times
  <2>. QED
    BY <1>3, <2>2
<1>. QED
  BY <1>4, <1>5, <1>6, <1>7 DEF LedgerNext

LEMMA LedgerKept == LedgerInv /\ [LedgerNext]_ledgerVars => LedgerInv'
BY ShapedKept, MoneyKeptOn, SalesKeptOn, TimesKept, SeedingKept, ConfiguredKept, NotedKept DEF LedgerInv

\* What the status command and the list of events show is what a start reads.
LEMMA RowsAreRead == LedgerInv => RowsComeBack
<1> SUFFICES ASSUME LedgerInv PROVE RowsComeBack
  OBVIOUS
<1>1. back
  BY DEF LedgerInv
<1>2. db.slots \subseteq db.products
  <2>1. seeding \in Nat /\ seeding > 1 => Upto((seeding - 2) \div 2) \subseteq Upto((seeding - 1) \div 2)
    <3>1. CASE seeding \in Nat /\ seeding > 1
      <4>1. /\ (seeding - 1) \div 2 \in Nat /\ (seeding - 2) \div 2 \in Nat
            /\ (seeding - 2) \div 2 <= (seeding - 1) \div 2
        BY <3>1
      <4>. QED
        BY <4>1, UptoIs
    <3>. QED
      BY <3>1
  <2>2. SeedingSo
    BY DEF LedgerInv
  <2>. QED
    BY <2>1, <2>2 DEF SeedingSo
<1>3. startup = "running" /\ ~torn => process.catalog = ToSet(Shelf)
  BY DEF LedgerInv, SeedingSo
<1>4. RuntimeStatus.sales = ListUnresolved(db.sales)
  <2>1. {s \in DOMAIN db.sales : db.sales[s].status \notin {"completed", "cancelled"}}
           \cup {s \in DOMAIN db.sales : db.sales[s].recovery # "none"}
           = {s \in DOMAIN db.sales : Unfinished(db.sales[s])}
    BY DEF Unfinished
  <2>2. RuntimeStatus.sales = Summaries(db.sales)
    BY DEF RuntimeStatus
  <2>. QED
    BY <2>1, <2>2, Zenon DEF Summaries, ListUnresolved
<1>5. ASSUME db.money # << >>
      PROVE  LET m == MoneyFromRow(db.money)
             IN  IntKeyMap(RuntimeStatus.available) = [d \in Nominals |-> Max({0, m.counts[d] - m.reserved[d]})]
  <2> DEFINE row == db.money
             m == saved.money
             shown == [t \in DOMAIN row.counts |->
                          Max({0, row.counts[t] - (IF t \in DOMAIN row.reserved THEN row.reserved[t] ELSE 0)})]
             available == [d \in Nominals |-> Max({0, m.counts[d] - m.reserved[d]})]
  <2>1. m \in Monies /\ row = MoneyToRecord(m) /\ MoneyFromRow(row) = m
    BY <1>5, MoneyComesBack DEF LedgerInv, MoneyKept
  <2>2. row.counts = Dumped(m.counts) /\ row.reserved = Dumped(m.reserved)
    BY <2>1 DEF MoneyToRecord
  <2>3. RuntimeStatus.available = shown
    BY <1>5 DEF RuntimeStatus, SnapshotOfMoney
  <2>4. DOMAIN m.counts = Nominals /\ DOMAIN m.reserved = Nominals
    BY <2>1 DEF Monies
  <2>5. shown = Dumped(available)
    <3>1. \A d \in Nominals : Text(d)[1] = d
      BY DEF Text
    <3>2. /\ DOMAIN row.counts = {Text(d) : d \in Nominals} /\ DOMAIN row.reserved = {Text(d) : d \in Nominals}
          /\ \A d \in Nominals : row.counts[Text(d)] = m.counts[d] /\ row.reserved[Text(d)] = m.reserved[d]
      BY <2>2, <2>4, <3>1 DEF Dumped
    <3>3. Dumped(available) = [t \in {Text(d) : d \in Nominals} |-> available[t[1]]]
      BY DEF Dumped
    <3>4. \A d \in Nominals : shown[Text(d)] = Max({0, m.counts[d] - m.reserved[d]})
      BY <3>2
    <3>5. \A d \in Nominals : Dumped(available)[Text(d)] = Max({0, m.counts[d] - m.reserved[d]})
      BY <3>1, <3>3
    <3>6. shown = [t \in {Text(d) : d \in Nominals} |-> shown[t]]
      BY <3>2
    <3>7. ASSUME NEW t \in {Text(d) : d \in Nominals} PROVE shown[t] = available[t[1]]
      <4>1. PICK d \in Nominals : t = Text(d) /\ t[1] = d
        BY <3>1
      <4>2. available[d] = Max({0, m.counts[d] - m.reserved[d]})
        OBVIOUS
      <4> HIDE DEF shown, available
      <4>. QED
        BY <3>4, <4>1, <4>2
    <3> HIDE DEF shown, available
    <3>. QED
      BY <3>3, <3>6, <3>7
  <2>6. IntKeyMap(Dumped(available)) = available
    <3>1. available \in [Nominals -> {available[d] : d \in Nominals}]
      OBVIOUS
    <3> HIDE DEF available
    <3>. QED
      BY <3>1, CountsComeBack
  <2>. QED
    BY <2>1, <2>3, <2>5, <2>6
<1>6. startup = "running" => RuntimeStatus.config = db.settings /\ db.settings = <<"config", outages>>
  <2> SUFFICES ASSUME startup = "running"
               PROVE  RuntimeStatus.config = db.settings /\ db.settings = <<"config", outages>>
    OBVIOUS
  <2>1. db.configs # << >> /\ Last(db.configs) = <<"config", outages>> /\ db.settings = <<"config", outages>>
    BY DEF LedgerInv, ConfiguredSo
  <2>2. RuntimeStatus.config = Last(db.configs)
    BY <2>1 DEF RuntimeStatus, LatestConfig
  <2>. QED
    BY <2>1, <2>2
<1>7. RuntimeEvents = {t \in 1 .. Notes : t > Notes - ListLimit}
  <2>1. /\ Ascends(db.events, Notes) /\ Ascends(db.service, Notes) /\ Ascends(db.temperature, Notes)
        /\ 1 .. Notes \subseteq ToSet(db.events) \cup ToSet(db.service) \cup ToSet(db.temperature)
    BY DEF LedgerInv, NotedSo
  <2>2. PICK n \in Nat : n = Notes
    <3>1. Len(db.events) \in Nat /\ Len(db.service) \in Nat /\ Len(db.temperature) \in Nat
      BY <2>1 DEF Ascends
    <3>2. \A a, b, c \in Nat : a + b + c \in Nat
      OBVIOUS
    <3>3. Notes = Len(db.events) + Len(db.service) + Len(db.temperature)
      BY DEF Notes
    <3>. QED
      BY <3>1, <3>2, <3>3, Zenon
  <2>3. /\ ToSet(LastOf(db.events)) \subseteq 1 .. n
        /\ \A t \in ToSet(db.events) : t > n - ListLimit => t \in ToSet(LastOf(db.events))
    BY <2>1, <2>2, LastAreThere
  <2>4. /\ ToSet(LastOf(db.service)) \subseteq 1 .. n
        /\ \A t \in ToSet(db.service) : t > n - ListLimit => t \in ToSet(LastOf(db.service))
    BY <2>1, <2>2, LastAreThere
  <2>5. /\ ToSet(LastOf(db.temperature)) \subseteq 1 .. n
        /\ \A t \in ToSet(db.temperature) : t > n - ListLimit => t \in ToSet(LastOf(db.temperature))
    BY <2>1, <2>2, LastAreThere
  <2> DEFINE others == ToSet(LastOf(db.service)) \cup ToSet(LastOf(db.temperature))
             all == ToSet(LastOf(db.events)) \cup Latest(others)
  <2>6. others \in SUBSET (1 .. n) /\ \A t \in others : t > n - ListLimit => t \in Latest(others)
    <3>1. others \in SUBSET (1 .. n)
      BY <2>4, <2>5
    <3> HIDE DEF others
    <3>. QED
      BY <3>1, LatestAre
  <2>7. all \in SUBSET (1 .. n)
    BY <2>3, <2>6 DEF Latest
  <2>8. {t \in 1 .. n : t > n - ListLimit} \subseteq all
    BY <2>1, <2>2, <2>3, <2>4, <2>5, <2>6
  <2>9. Latest(all) = {t \in 1 .. n : t > n - ListLimit}
    <3> HIDE DEF all
    <3>. QED
      BY <2>7, <2>8, LatestAre
  <2>. QED
    BY <2>2, <2>9 DEF RuntimeEvents, ListRecent
<1>. QED
  BY <1>1, <1>2, <1>3, <1>4, <1>5, <1>6, <1>7 DEF RowsComeBack

\* What a start reads is what was saved last (mappers.py:106-282,
\* bootstrap.py:299-345): the money, every sale that is unfinished or flagged,
\* and as the active one the longest untouched that bars a new sale.  No slot
\* is without its product, and unless the power failed while the catalog was
\* seeded it is the shelf's (bootstrap.py:847-898); the status command agrees
\* with what a start will read (bootstrap.py:620-666), and the list of recent
\* events shows the latest.  For any sales, shelf, limit of the list, changes
\* and number of power failures.
THEOREM WhatWasSavedComesBack == LedgerSpec => []RowsComeBack
<1>1. LedgerInit => LedgerInv
  BY LedgerStarts
<1>2. LedgerInv /\ [LedgerNext]_ledgerVars => LedgerInv'
  BY LedgerKept
<1>3. LedgerInv => RowsComeBack
  BY RowsAreRead
<1>. QED
  BY <1>1, <1>2, <1>3, PTL DEF LedgerSpec

(***************************************************************************)
(* Types.  What the modules of the store, the catalogue, the accounts and  *)
(* the tables say of their variables, for any rows, items, sales and       *)
(* bounds.                                                                 *)
(***************************************************************************)

\* The store.
LEMMA StoreTypes == StoreSpec => []StoreTypeOK
<1>1. StoreInit => StoreTypeOK
  <2> SUFFICES ASSUME StoreInit PROVE StoreTypeOK
    OBVIOUS
  <2>1. cuts \in 0 .. MaxCuts
    BY StoreAssumption DEF StoreInit
  <2>2. scope \in [Writers -> [kind : ScopeKinds, rows : SUBSET Rows]]
    BY DEF StoreInit, NoScope, ScopeKinds
  <2>3. {version2, hasOld, begun, manual} \subseteq BOOLEAN
    BY Zenon DEF StoreInit
  <2>. QED
    BY <2>1, <2>2, <2>3 DEF StoreInit, StoreTypeOK
<1>2. StoreInv /\ StoreTypeOK /\ [StoreNext]_storeVars => StoreTypeOK'
  <2> SUFFICES ASSUME ScopesTyped, StoreTypeOK, [StoreNext]_storeVars PROVE StoreTypeOK'
    BY DEF StoreInv
  <2> DEFINE Flagged == {version2, hasOld, begun, manual} \subseteq BOOLEAN
             Scoped == scope \in [Writers -> [kind : ScopeKinds, rows : SUBSET Rows]]
             Placed == /\ boot \in {"down", "checks", "renamed", "created", "copied", "refuses", "serves"}
                     /\ disk \subseteq Rows /\ old \subseteq Rows /\ wal \subseteq Rows /\ shared \subseteq Rows
                     /\ running \in Writers \cup {NoWriter}
                     /\ ended \subseteq [how : {"done", "raised", "cut"}, rows : SUBSET Rows]
                     /\ v1 \subseteq Rows /\ cuts \in 0 .. MaxCuts
  <2>0. Flagged /\ Scoped /\ Placed
    BY DEF StoreTypeOK
  <2> SUFFICES Flagged' /\ Scoped' /\ Placed'
    BY DEF StoreTypeOK
  <2>1. CASE StartUp \/ RenameJournal \/ CreateJournal \/ CopyAndDropOld \/ SchemaReady
    <3> USE <2>1 DEF StartUp, RenameJournal, CreateJournal, CopyAndDropOld, SchemaReady, Booting, connection
    <3>1. Flagged'
      BY <2>0, Zenon
    <3>2. Scoped' /\ Placed'
      BY <2>0 DEF Copied
    <3>. QED
      BY <3>1, <3>2
  <2>2. ASSUME NEW w \in Writers, NEW how \in {"done", "raised"}, Ended(w, how)
        PROVE  ended' \subseteq [how : {"done", "raised", "cut"}, rows : SUBSET Rows]
    BY <2>0, <2>2 DEF Ended
  <2>3. ASSUME NEW w \in Writers, EndsScope(w) PROVE Scoped' /\ running' \in Writers \cup {NoWriter}
    BY <2>0, <2>3 DEF EndsScope, NoScope, ScopeKinds
  <2>4. ASSUME NEW w \in Writers, OpenScope(w) PROVE Flagged' /\ Scoped' /\ Placed'
    <3>1. Flagged'
      BY <2>0, <2>4, Zenon DEF OpenScope, connection, tables
    <3>2. scope' = [scope EXCEPT ![w].kind = "inner"] \/ scope' = [scope EXCEPT ![w].kind = "outer"] \/ scope' = scope
      BY <2>4 DEF OpenScope
    <3>3. Scoped'
      BY <2>0, <3>2 DEF ScopeKinds
    <3>4. Placed'
      BY <2>0, <2>4 DEF OpenScope, connection, tables
    <3>. QED
      BY <3>1, <3>3, <3>4
  <2>5. ASSUME NEW w \in Writers, NEW r \in Rows, WriteRow(w, r) PROVE Flagged' /\ Scoped' /\ Placed'
    <3>1. Flagged'
      BY <2>0, <2>5, Zenon DEF WriteRow, tables
    <3>2. Scoped'
      BY <2>0, <2>5 DEF WriteRow
    <3>3. ended' \subseteq [how : {"done", "raised", "cut"}, rows : SUBSET Rows]
      BY <2>0, <2>5 DEF WriteRow
    <3>4. disk' \subseteq Rows /\ wal' \subseteq Rows /\ shared' \subseteq Rows
      BY <2>0, <2>5 DEF WriteRow
    <3>. QED
      BY <2>0, <2>5, <3>1, <3>2, <3>3, <3>4 DEF WriteRow, tables
  <2>6. ASSUME NEW w \in Writers, AwaitInScope(w) \/ ResumeScope(w) PROVE Flagged' /\ Scoped' /\ Placed'
    <3>1. Flagged'
      BY <2>0, <2>6, Zenon DEF AwaitInScope, ResumeScope, tables, connection
    <3>. QED
      BY <2>0, <2>6, <3>1 DEF AwaitInScope, ResumeScope, tables, connection
  <2>7. ASSUME NEW w \in Writers, CloseScope(w) PROVE Flagged' /\ Scoped' /\ Placed'
    <3>1. Flagged'
      BY <2>0, <2>7, Zenon DEF CloseScope, tables, connection
    <3>2. Ended(w, "done") /\ EndsScope(w)
      BY <2>7 DEF CloseScope
    <3>3. disk' \subseteq Rows /\ wal' \subseteq Rows /\ UNCHANGED <<boot, old, shared, v1, cuts>>
      BY <2>0, <2>7 DEF CloseScope, tables, connection
    <3>. QED
      BY <2>0, <2>2, <2>3, <3>1, <3>2, <3>3
  <2>8. ASSUME NEW w \in Writers, ScopeRaises(w) PROVE Flagged' /\ Scoped' /\ Placed'
    <3>1. Flagged'
      BY <2>0, <2>8, Zenon DEF ScopeRaises, tables, connection
    <3>2. Ended(w, "raised") /\ EndsScope(w)
      BY <2>8 DEF ScopeRaises
    <3>3. wal' \subseteq Rows /\ UNCHANGED <<boot, disk, old, shared, v1, cuts>>
      BY <2>0, <2>8 DEF ScopeRaises, tables, connection
    <3>. QED
      BY <2>0, <2>2, <2>3, <3>1, <3>2, <3>3
  <2>9. ASSUME NEW w \in Writers, ScopeCancelled(w) PROVE Flagged' /\ Scoped' /\ Placed'
    <3>1. Flagged'
      BY <2>0, <2>9, Zenon DEF ScopeCancelled, tables
    <3>2. shared' \subseteq Rows /\ UNCHANGED <<boot, disk, old, wal, ended, v1, cuts>>
      BY <2>0, <2>9 DEF ScopeCancelled, tables
    <3>3. EndsScope(w)
      BY <2>9 DEF ScopeCancelled
    <3>. QED
      BY <2>0, <2>3, <3>1, <3>2, <3>3
  <2>10. CASE PowerCut
    <3>1. Flagged'
      BY <2>0, <2>10, Zenon DEF PowerCut
    <3>2. Scoped'
      BY <2>10 DEF PowerCut, NoScope, ScopeKinds
    <3>3. cuts' \in 0 .. MaxCuts
      BY <2>0, <2>10, StoreAssumption DEF PowerCut
    <3>4. ended' \subseteq [how : {"done", "raised", "cut"}, rows : SUBSET Rows]
      BY <2>0, <2>10 DEF PowerCut
    <3>. QED
      BY <2>0, <2>10, <3>1, <3>2, <3>3, <3>4 DEF PowerCut
  <2>11. CASE UNCHANGED storeVars
    BY <2>0, <2>11 DEF storeVars
  <2>. QED
    BY <2>1, <2>4, <2>5, <2>6, <2>7, <2>8, <2>9, <2>10, <2>11 DEF StoreNext
<1>. QED
  BY <1>1, <1>2, StoreAlways, PTL DEF StoreSpec

\* The catalogue: a line has one bouquet at least, and no more than were shown.
Lines == {l \in [item : Items, qty : 1 .. Capacity, available : 0 .. Capacity] : l.qty <= l.available}

Shelved ==
  /\ known \subseteq Items /\ enabled \in [Items -> BOOLEAN]
  /\ stock \in [Items -> 0..Capacity] /\ inside \in [Items -> 0..Capacity]
  /\ rows \in [Items -> [quantity : 0..Capacity, enabled : BOOLEAN]]

Shown ==
  /\ DOMAIN offered \subseteq Items
  /\ \A i \in DOMAIN offered : /\ offered[i].quantity \in 0..Capacity
                               /\ offered[i].available => offered[i].quantity > 0

Tallies ==
  /\ edits \in 0..MaxEdits /\ sold \in 0..MaxSold
  /\ touched \subseteq Items /\ miscounted \subseteq Items

InTheCart == cart \in Seq(Lines)

LEMMA EntriesAreShown ==
    ASSUME Shelved
    PROVE  /\ DOMAIN CatalogEntries \subseteq Items
           /\ \A i \in DOMAIN CatalogEntries :
                 /\ CatalogEntries[i].quantity \in 0..Capacity
                 /\ CatalogEntries[i].available => CatalogEntries[i].quantity > 0
BY CatalogAssumption DEF Shelved, CatalogEntries, CatalogEntry, Sellable

LEMMA LinesChange ==
    ASSUME InTheCart, NEW n \in DOMAIN cart, NEW delta \in {1, -1}
    PROVE  /\ RemoveAt(cart, n) \in Seq(Lines)
           /\ Updated(cart[n], delta) # 0 => [cart EXCEPT ![n].qty = Updated(cart[n], delta)] \in Seq(Lines)
<1>1. n \in 1 .. Len(cart) /\ cart[n] \in Lines /\ Len(cart) \in Nat
  BY DEF InTheCart
<1>2. SubSeq(cart, 1, n - 1) \in Seq(Lines) /\ SubSeq(cart, n + 1, Len(cart)) \in Seq(Lines)
  BY <1>1, SubSeqProperties DEF InTheCart
<1>3. RemoveAt(cart, n) \in Seq(Lines)
  BY <1>2, ConcatProperties DEF RemoveAt
<1>4. ASSUME Updated(cart[n], delta) # 0
      PROVE  [cart EXCEPT ![n].qty = Updated(cart[n], delta)] \in Seq(Lines)
  <2> DEFINE changed == [cart[n] EXCEPT !.qty = Updated(cart[n], delta)]
  <2>1. changed \in Lines
    BY <1>1, <1>4, CatalogAssumption DEF Lines, Updated
  <2>2. [cart EXCEPT ![n].qty = Updated(cart[n], delta)] = [cart EXCEPT ![n] = changed]
    OBVIOUS
  <2> HIDE DEF changed
  <2>. QED
    BY <1>1, <2>1, <2>2 DEF InTheCart
<1>. QED
  BY <1>3, <1>4

LEMMA LineIsAdded ==
    ASSUME InTheCart, Shown, NEW i \in Items, AddButton(i)
    PROVE  WithItem(i) \in Seq(Lines)
<1>1. CASE InCart(i) = {}
  <2>1. [item |-> i, qty |-> 1, available |-> offered[i].quantity] \in Lines
    BY CatalogAssumption DEF Lines, Shown, AddButton
  <2>. QED
    BY <1>1, <2>1, AppendProperties DEF WithItem, InTheCart
<1>2. CASE InCart(i) # {}
  <2>1. DOMAIN cart = 1 .. Len(cart) /\ Len(cart) \in Nat /\ \A n \in 1 .. Len(cart) : cart[n] \in Lines
    BY DEF InTheCart
  <2>2. ASSUME NEW n \in 1 .. Len(cart), cart[n].qty < cart[n].available
        PROVE  [cart[n] EXCEPT !.qty = @ + 1] \in Lines
    <3> DEFINE was == cart[n]
    <3>1. was \in Lines /\ was.qty < was.available
      BY <2>1, <2>2
    <3> HIDE DEF was
    <3>2. [was EXCEPT !.qty = @ + 1] \in Lines
      BY <3>1, CatalogAssumption DEF Lines
    <3>. QED
      BY <3>2 DEF was
  <2>3. WithItem(i) = [n \in 1 .. Len(cart) |->
                         IF n \in InCart(i) /\ cart[n].qty < cart[n].available
                           THEN [cart[n] EXCEPT !.qty = @ + 1] ELSE cart[n]]
    BY <1>2, <2>1 DEF WithItem
  <2>4. WithItem(i) \in [1 .. Len(cart) -> Lines]
    BY <2>1, <2>2, <2>3
  <2>. QED
    BY <2>1, <2>4
<1>. QED
  BY <1>1, <1>2

LEMMA StockIsTyped ==
    ASSUME ShelvesInvariant, Shelved, Tallies, Shown, InTheCart, [CatalogNext]_catalogVars
    PROVE  Shelved' /\ Tallies' /\ Shown' /\ InTheCart'
<1>1. CASE ShowCatalog
  BY <1>1, EntriesAreShown DEF ShowCatalog, shelves, Shelved, Tallies, Shown, InTheCart
<1>2. CASE Pay
  BY <1>2, CatalogAssumption DEF Pay, shelves, Shelved, Tallies, Shown, InTheCart
<1>3. CASE ClearCart \/ PaymentConfirmed \/ CancelPayment \/ SaleOver \/ UNCHANGED catalogVars
  BY <1>3, EmptySeq DEF ClearCart, PaymentConfirmed, CancelPayment, SaleOver, catalogVars, shelves,
     Shelved, Tallies, Shown, InTheCart
<1>4. CASE MotorVends
  <2>1. sale.item \in Items /\ UNCHANGED <<known, enabled, rows, offered, cart, edits, sold, touched>>
    BY <1>4 DEF MotorVends, ShelvesInvariant
  <2>2. inside' \in [Items -> 0..Capacity]
    BY <1>4, <2>1, CatalogAssumption DEF MotorVends, Shelved
  <2>3. stock' \in [Items -> 0..Capacity]
    BY <1>4, <2>1, CatalogAssumption DEF MotorVends, Shelved, Sellable
  <2>4. miscounted' \subseteq Items
    BY <1>4, <2>1 DEF MotorVends, Tallies
  <2>. QED
    BY <2>1, <2>2, <2>3, <2>4 DEF Shelved, Tallies, Shown, InTheCart
<1>5. CASE MotorFaults
  <2>1. sale.item \in Items /\ UNCHANGED <<known, enabled, stock, rows, offered, cart, edits, sold, touched>>
    BY <1>5 DEF MotorFaults, shelves, ShelvesInvariant
  <2>2. inside' \in [Items -> 0..Capacity]
    BY <1>5, <2>1, CatalogAssumption DEF MotorFaults, Shelved
  <2>3. miscounted' \subseteq Items
    BY <1>5, <2>1 DEF MotorFaults, Tallies
  <2>. QED
    BY <2>1, <2>2, <2>3 DEF Shelved, Tallies, Shown, InTheCart
<1>6. CASE RestartCatalog
  <2>1. Shelved'
    BY <1>6 DEF RestartCatalog, Shelved
  <2>2. Shown'
    <3>1. /\ DOMAIN CatalogEntries' \subseteq Items
          /\ \A i \in DOMAIN CatalogEntries' :
                 /\ CatalogEntries'[i].quantity \in 0..Capacity
                 /\ CatalogEntries'[i].available => CatalogEntries'[i].quantity > 0
      BY <2>1, CatalogAssumption DEF Shelved, CatalogEntries, CatalogEntry, Sellable
    <3>. QED
      BY <1>6, <3>1 DEF RestartCatalog, Shown
  <2>3. Tallies'
    BY <1>6, CatalogAssumption DEF RestartCatalog, Tallies
  <2>4. InTheCart'
    BY <1>6, EmptySeq DEF RestartCatalog, InTheCart
  <2>. QED
    BY <2>1, <2>2, <2>3, <2>4
<1>7. ASSUME NEW i \in Items, AddToCart(i) PROVE Shelved' /\ Tallies' /\ Shown' /\ InTheCart'
  BY <1>7, LineIsAdded DEF AddToCart, shelves, Shelved, Tallies, Shown, InTheCart
<1>8. ASSUME NEW i \in Items, NEW delta \in {1, -1}, ChangeLine(i, delta)
      PROVE  Shelved' /\ Tallies' /\ Shown' /\ InTheCart'
  <2>1. UNCHANGED <<shelves, inside, rows, offered, sale, edits, sold, touched, miscounted>>
    BY <1>8 DEF ChangeLine
  <2>2. InTheCart'
    BY <1>8, LinesChange DEF ChangeLine, InCart, InTheCart
  <2>. QED
    BY <2>1, <2>2 DEF shelves, Shelved, Tallies, Shown
<1>9. ASSUME NEW i \in Items, ToggleProduct(i) \/ RemoveProduct(i)
      PROVE  Shelved' /\ Tallies' /\ Shown' /\ InTheCart'
  <2>1. Tallies'
    BY <1>9, CatalogAssumption DEF ToggleProduct, RemoveProduct, Edit, Tallies
  <2>2. UNCHANGED <<stock, inside, rows, offered, cart>> /\ known' \subseteq known
    BY <1>9 DEF ToggleProduct, RemoveProduct
  <2>3. enabled' \in [Items -> BOOLEAN]
    BY <1>9 DEF ToggleProduct, RemoveProduct, Shelved
  <2>. QED
    BY <2>1, <2>2, <2>3, Zenon DEF Shelved, Shown, InTheCart
<1>10. ASSUME NEW i \in Items, NEW q \in 0..Capacity, SetProductStock(i, q)
       PROVE  Shelved' /\ Tallies' /\ Shown' /\ InTheCart'
  BY <1>10, CatalogAssumption DEF SetProductStock, Edit, Shelved, Tallies, Shown, InTheCart
<1>. QED
  BY <1>1, <1>2, <1>3, <1>4, <1>5, <1>6, <1>7, <1>8, <1>9, <1>10 DEF CatalogNext

LEMMA CatalogTypes == CatalogSpec => []CatalogTypeOK
<1>1. CatalogInit => Shelved /\ Tallies /\ Shown /\ InTheCart
  <2> SUFFICES ASSUME CatalogInit PROVE Shelved /\ Tallies /\ Shown /\ InTheCart
    OBVIOUS
  <2>1. Shelved
    BY DEF CatalogInit, Shelved
  <2>2. Shown
    BY <2>1, EntriesAreShown DEF CatalogInit, Shown
  <2>. QED
    BY <2>1, <2>2, EmptySeq, CatalogAssumption DEF CatalogInit, Tallies, InTheCart
<1>2. ShelvesInvariant /\ Shelved /\ Tallies /\ Shown /\ InTheCart => CatalogTypeOK
  <2> SUFFICES ASSUME ShelvesInvariant, Shelved, Tallies, Shown, InTheCart PROVE CatalogTypeOK
    OBVIOUS
  <2>1. \A n \in DOMAIN cart : cart[n].item \in Items /\ cart[n].qty \in 0..Capacity
    <3>1. \A n \in DOMAIN cart : cart[n] \in Lines
      BY DEF InTheCart
    <3>. QED
      BY <3>1, CatalogAssumption DEF Lines
  <2>. QED
    BY <2>1 DEF CatalogTypeOK, ShelvesInvariant, CatalogTyped, Shelved, Tallies, Shown
<1>. QED
  BY <1>1, <1>2, StockIsTyped, ShelvesStart, ShelvesKept, PTL DEF CatalogSpec

\* 1C and the telemetry: a flush is at a place of its list, whoever else flushes; what
\* was buffered or sent was emitted.
ExportsShaped ==
    /\ export \in [Finished -> [at : {"unsold", "declined", "posting", "exported", "kept"}, tries : 0 .. Attempts]]
    /\ syncs \in 0 .. MaxSyncs /\ failures \in 0 .. MaxFailures /\ books \subseteq Finished

FlushesShaped ==
    /\ pending \in Seq(Seq(Finished)) /\ pending # << >>
    /\ flush \in [Flushers -> [list : Nat, place : Nat, began : Nat, keeps : Seq(Finished)]]
    /\ \A f \in Flushers : flush[f].list > 0 =>
          flush[f].list \in 1 .. Len(pending) /\ flush[f].place \in 1 .. Len(pending[flush[f].list])

BufferShaped ==
    /\ emitted \in 0 .. MaxEmitted /\ delivered \subseteq 1 .. emitted /\ Len(buffer) <= BufferSize
    /\ buffer \in Seq(1 .. emitted) /\ batch \in Seq(1 .. emitted)

TruthShaped == exporting \in BOOLEAN /\ connected \in BOOLEAN /\ filled \in BOOLEAN

AccountsShaped == ExportsShaped /\ FlushesShaped /\ BufferShaped /\ TruthShaped

LEMMA AccountsShapedFirst == AccountsInit => AccountsShaped
<1> SUFFICES ASSUME AccountsInit PROVE AccountsShaped
  OBVIOUS
<1>1. << >> \in Seq(Finished) /\ << >> \in Seq(1 .. 0) /\ Len(<< >>) = 0
  BY EmptySeq
<1>2. << << >> >> \in Seq(Seq(Finished)) /\ << << >> >> # << >>
  BY <1>1
<1>3. ExportsShaped
  BY AccountsAssumption DEF AccountsInit, ExportsShaped, Attempts
<1>4. FlushesShaped
  BY <1>1, <1>2 DEF AccountsInit, FlushesShaped, NoFlush
<1>5. BufferShaped
  <2>1. emitted = 0 /\ delivered = {} /\ buffer = << >> /\ batch = << >>
    BY DEF AccountsInit
  <2>. QED
    BY <1>1, <2>1, AccountsAssumption DEF BufferShaped
<1>6. TruthShaped
  BY Zenon DEF AccountsInit, TruthShaped
<1>. QED
  BY <1>3, <1>4, <1>5, <1>6 DEF AccountsShaped

LEMMA TruthShapedOn == TruthShaped /\ [AccountsNext]_accountsVars => TruthShaped'
<1> SUFFICES ASSUME TruthShaped, [AccountsNext]_accountsVars PROVE TruthShaped'
  OBVIOUS
<1>1. exporting' \in BOOLEAN /\ connected' \in BOOLEAN
  BY Zenon DEF TruthShaped, AccountsNext, OneCNext, TelemetryNext, DeclineExport, StartExport, ExportSale, StartFlush,
     FlushPendingSales, HealthCheck, HandleEvent, StartTelemetryFlush, FinishTelemetryFlush, accountsVars, onecVars
<1>2. filled' \in BOOLEAN
  BY Zenon DEF TruthShaped, AccountsNext, OneCNext, TelemetryNext, DeclineExport, StartExport, ExportSale, StartFlush,
     FlushPendingSales, HealthCheck, HandleEvent, StartTelemetryFlush, FinishTelemetryFlush, accountsVars, telemetryVars
<1>. QED
  BY <1>1, <1>2 DEF TruthShaped

LEMMA PostShaped ==
    ASSUME ExportsShaped, NEW s \in Finished, NEW confirmed \in BOOLEAN, Post(s, confirmed)
    PROVE  failures' \in 0 .. MaxFailures /\ books' \subseteq Finished
BY AccountsAssumption DEF ExportsShaped, Post

LEMMA OneCShapedOn ==
    ASSUME ExportsShaped, FlushesShaped, [AccountsNext]_accountsVars
    PROVE  ExportsShaped' /\ FlushesShaped'
<1>1. ASSUME NEW s \in Finished, DeclineExport(s) \/ StartExport(s) PROVE ExportsShaped' /\ FlushesShaped'
  <2>1. export' \in [Finished -> [at : {"unsold", "declined", "posting", "exported", "kept"}, tries : 0 .. Attempts]]
    BY <1>1 DEF DeclineExport, StartExport, ExportsShaped, Attempts
  <2>. QED
    BY <1>1, <2>1 DEF DeclineExport, StartExport, ExportsShaped, FlushesShaped
<1>2. ASSUME NEW s \in Finished, ExportSale(s) PROVE ExportsShaped' /\ FlushesShaped'
  <2>1. export' \in [Finished -> [at : {"unsold", "declined", "posting", "exported", "kept"}, tries : 0 .. Attempts]]
    <3>1. export[s] \in [at : {"unsold", "declined", "posting", "exported", "kept"}, tries : 0 .. 3]
      BY DEF ExportsShaped, Attempts
    <3>2. \/ export' = [export EXCEPT ![s].at = "exported"] \/ export' = [export EXCEPT ![s].at = "kept"]
          \/ export[s].tries < 3 /\ export' = [export EXCEPT ![s].tries = @ + 1]
      BY <1>2 DEF ExportSale, Attempts
    <3>3. CASE export' = [export EXCEPT ![s].at = "exported"] \/ export' = [export EXCEPT ![s].at = "kept"]
      BY <3>1, <3>3 DEF ExportsShaped, Attempts
    <3>4. CASE export[s].tries < 3 /\ export' = [export EXCEPT ![s].tries = @ + 1]
      <4>1. [export[s] EXCEPT !.tries = @ + 1]
               \in [at : {"unsold", "declined", "posting", "exported", "kept"}, tries : 0 .. 3]
        BY <3>1, <3>4
      <4>. QED
        BY <3>4, <4>1 DEF ExportsShaped, Attempts
    <3>. QED
      BY <3>2, <3>3, <3>4
  <2>2. failures' \in 0 .. MaxFailures /\ books' \subseteq Finished
    BY <1>2, PostShaped DEF ExportSale
  <2>3. UNCHANGED <<flush, syncs>>
    BY <1>2 DEF ExportSale
  <2>4. CASE UNCHANGED pending
    BY <2>1, <2>2, <2>3, <2>4 DEF ExportsShaped, FlushesShaped
  <2>5. CASE pending' = [pending EXCEPT ![Len(pending)] = Append(@, s)]
    <3> DEFINE grown == Append(pending[Len(pending)], s)
    <3>1. Len(pending) \in 1 .. Len(pending) /\ pending[Len(pending)] \in Seq(Finished)
      BY DEF FlushesShaped
    <3>2. grown \in Seq(Finished) /\ Len(grown) = Len(pending[Len(pending)]) + 1
          /\ Len(pending[Len(pending)]) \in Nat
      BY <3>1, AppendProperties
    <3>3. pending' = [pending EXCEPT ![Len(pending)] = grown]
      BY <2>5
    <3> HIDE DEF grown
    <3>4. /\ pending' \in Seq(Seq(Finished)) /\ pending' # << >> /\ Len(pending') = Len(pending)
          /\ pending'[Len(pending)] = grown
          /\ \A n \in 1 .. Len(pending) : n # Len(pending) => pending'[n] = pending[n]
      BY <3>1, <3>2, <3>3 DEF FlushesShaped
    <3>5. ASSUME NEW f \in Flushers, flush[f].list > 0
          PROVE  flush[f].list \in 1 .. Len(pending') /\ flush[f].place \in 1 .. Len(pending'[flush[f].list])
      <4>1. flush[f].list \in 1 .. Len(pending) /\ flush[f].place \in 1 .. Len(pending[flush[f].list])
        BY <3>5 DEF FlushesShaped
      <4>. QED
        BY <3>2, <3>4, <4>1
    <3>. QED
      BY <2>1, <2>2, <2>3, <3>4, <3>5 DEF ExportsShaped, FlushesShaped
  <2>. QED
    BY <1>2, <2>4, <2>5 DEF ExportSale
<1>3. ASSUME NEW f \in Flushers, StartFlush(f) PROVE ExportsShaped' /\ FlushesShaped'
  <2>1. Len(pending) \in Nat /\ Len(pending) > 0 /\ Last(pending) = pending[Len(pending)]
        /\ Last(pending) \in Seq(Finished)
    BY DEF FlushesShaped, Last
  <2>2. Len(Last(pending)) \in Nat /\ 1 \in 1 .. Len(Last(pending)) /\ << >> \in Seq(Finished)
    BY <1>3, <2>1 DEF StartFlush
  <2>3. /\ UNCHANGED <<export, pending, syncs, failures, books>>
        /\ flush' = [flush EXCEPT ![f] = [list |-> Len(pending), place |-> 1,
                                          began |-> Len(Last(pending)), keeps |-> << >>]]
    BY <1>3 DEF StartFlush
  <2>. QED
    BY <2>1, <2>2, <2>3 DEF ExportsShaped, FlushesShaped
<1>4. ASSUME NEW f \in Flushers, FlushPendingSales(f) PROVE ExportsShaped' /\ FlushesShaped'
  <2> DEFINE job == flush[f]
             turn == pending[job.list][job.place]
             Keeps(confirmed) == IF confirmed THEN job.keeps ELSE Append(job.keeps, turn)
  <2>1. /\ job \in [list : Nat, place : Nat, began : Nat, keeps : Seq(Finished)] /\ job.list > 0
        /\ job.list \in 1 .. Len(pending) /\ pending[job.list] \in Seq(Finished)
        /\ job.place \in 1 .. Len(pending[job.list])
    BY <1>4 DEF FlushPendingSales, FlushesShaped
  <2>2. turn \in Finished
    BY <2>1
  <2>3. PICK confirmed \in BOOLEAN :
           /\ Post(turn, confirmed)
           /\ IF job.place < Len(pending[job.list])
                THEN /\ flush' = [flush EXCEPT ![f].place = @ + 1, ![f].keeps = Keeps(confirmed)]
                     /\ UNCHANGED pending
                ELSE /\ flush' = [flush EXCEPT ![f] = NoFlush]
                     /\ pending' = Append(pending, Keeps(confirmed))
    BY <1>4 DEF FlushPendingSales, EndOfList
  <2>4. Keeps(confirmed) \in Seq(Finished)
    BY <2>1, <2>2, AppendProperties
  <2>5. failures' \in 0 .. MaxFailures /\ books' \subseteq Finished /\ UNCHANGED <<export, syncs>>
    BY <1>4, <2>2, <2>3, PostShaped DEF FlushPendingSales
  <2> DEFINE kept == Keeps(confirmed)
  <2>6. kept \in Seq(Finished)
    BY <2>4
  <2>7. CASE /\ job.place < Len(pending[job.list]) /\ UNCHANGED pending
             /\ flush' = [flush EXCEPT ![f].place = @ + 1, ![f].keeps = kept]
    <3> HIDE DEF kept
    <3>1. flush' \in [Flushers -> [list : Nat, place : Nat, began : Nat, keeps : Seq(Finished)]]
      <4>0. \A j \in [list : Nat, place : Nat, began : Nat, keeps : Seq(Finished)], q \in Seq(Finished) :
               [j EXCEPT !.place = @ + 1, !.keeps = q] \in [list : Nat, place : Nat, began : Nat, keeps : Seq(Finished)]
        <5> DEFINE Q == Seq(Finished)
        <5> HIDE DEF Q
        <5>1. \A j \in [list : Nat, place : Nat, began : Nat, keeps : Q], q \in Q :
                 [j EXCEPT !.place = @ + 1, !.keeps = q] \in [list : Nat, place : Nat, began : Nat, keeps : Q]
          <6> TAKE j \in [list : Nat, place : Nat, began : Nat, keeps : Q], q \in Q
          <6>1. j.place + 1 \in Nat
            OBVIOUS
          <6>. QED
            BY <6>1
        <5>. QED
          BY <5>1 DEF Q
      <4>1. [job EXCEPT !.place = @ + 1, !.keeps = kept] \in [list : Nat, place : Nat, began : Nat, keeps : Seq(Finished)]
        BY <2>1, <2>6, <4>0
      <4>2. flush' = [flush EXCEPT ![f] = [job EXCEPT !.place = @ + 1, !.keeps = kept]]
        BY <2>7 DEF FlushesShaped
      <4> HIDE DEF job
      <4>. QED
        BY <4>1, <4>2 DEF FlushesShaped
    <3>2. ASSUME NEW g \in Flushers, flush'[g].list > 0
          PROVE  flush'[g].list \in 1 .. Len(pending) /\ flush'[g].place \in 1 .. Len(pending[flush'[g].list])
      <4>1. CASE g = f
        <5>1. flush'[g].list = job.list /\ flush'[g].place = job.place + 1
          BY <2>7, <4>1 DEF FlushesShaped
        <5>. QED
          BY <2>1, <2>7, <5>1
      <4>2. CASE g # f
        <5>1. flush'[g] = flush[g]
          BY <2>7, <4>2 DEF FlushesShaped
        <5>. QED
          BY <3>2, <5>1 DEF FlushesShaped
      <4>. QED
        BY <4>1, <4>2
    <3>. QED
      BY <2>5, <2>7, <3>1, <3>2 DEF ExportsShaped, FlushesShaped
  <2>8. CASE flush' = [flush EXCEPT ![f] = NoFlush] /\ pending' = Append(pending, kept)
    <3> HIDE DEF kept
    <3>1. /\ pending' \in Seq(Seq(Finished)) /\ pending' # << >> /\ Len(pending') = Len(pending) + 1
          /\ Len(pending) \in Nat
          /\ \A n \in 1 .. Len(pending) : pending'[n] = pending[n]
      <4> DEFINE Q == Seq(Finished)
      <4>1. pending \in Seq(Q) /\ kept \in Q
        BY <2>6 DEF FlushesShaped
      <4> HIDE DEF Q
      <4>2. pending' = Append(pending, kept)
        BY <2>8
      <4>3. /\ pending' \in Seq(Q) /\ pending' # << >> /\ Len(pending') = Len(pending) + 1
            /\ Len(pending) \in Nat
            /\ \A n \in 1 .. Len(pending) : pending'[n] = pending[n]
        BY <4>1, <4>2, AppendProperties
      <4>. QED
        BY <4>3 DEF Q
    <3>2. NoFlush \in [list : Nat, place : Nat, began : Nat, keeps : Seq(Finished)] /\ NoFlush.list = 0
      BY EmptySeq DEF NoFlush
    <3>3. flush' \in [Flushers -> [list : Nat, place : Nat, began : Nat, keeps : Seq(Finished)]]
      BY <2>8, <3>2 DEF FlushesShaped
    <3>4. ASSUME NEW g \in Flushers, flush'[g].list > 0
          PROVE  flush'[g].list \in 1 .. Len(pending') /\ flush'[g].place \in 1 .. Len(pending'[flush'[g].list])
      <4>1. flush'[g] = flush[g]
        BY <2>8, <3>2, <3>4 DEF FlushesShaped
      <4>2. flush[g].list \in 1 .. Len(pending) /\ flush[g].place \in 1 .. Len(pending[flush[g].list])
        BY <3>4, <4>1 DEF FlushesShaped
      <4>. QED
        BY <3>1, <4>1, <4>2
    <3>. QED
      BY <2>5, <3>1, <3>3, <3>4 DEF ExportsShaped, FlushesShaped
  <2>. QED
    BY <2>3, <2>7, <2>8
<1>5. CASE HealthCheck
  BY <1>5, AccountsAssumption DEF HealthCheck, ExportsShaped, FlushesShaped
<1>6. CASE TelemetryNext \/ UNCHANGED accountsVars
  <2>1. UNCHANGED <<export, pending, flush, syncs, failures, books>>
    BY <1>6 DEF TelemetryNext, HandleEvent, StartTelemetryFlush, FinishTelemetryFlush, accountsVars, onecVars
  <2>. QED
    BY <2>1 DEF ExportsShaped, FlushesShaped
<1>. QED
  BY <1>1, <1>2, <1>3, <1>4, <1>5, <1>6 DEF AccountsNext, OneCNext

LEMMA BufferShapedOn == BufferShaped /\ [AccountsNext]_accountsVars => BufferShaped'
<1> SUFFICES ASSUME BufferShaped, [AccountsNext]_accountsVars PROVE BufferShaped'
  OBVIOUS
<1>1. CASE HandleEvent
  <2> DEFINE longer == Append(buffer, emitted')
  <2>1. /\ emitted' = emitted + 1 /\ emitted' \in 0 .. MaxEmitted /\ UNCHANGED <<batch, delivered>>
        /\ buffer' = IF Len(longer) > BufferSize THEN Tail(longer) ELSE longer
    BY <1>1, AccountsAssumption DEF HandleEvent, BufferShaped
  <2>2. 1 .. emitted \subseteq 1 .. emitted' /\ emitted' \in 1 .. emitted'
    BY <2>1 DEF BufferShaped
  <2>3. buffer \in Seq(1 .. emitted') /\ batch \in Seq(1 .. emitted')
    BY <2>2 DEF BufferShaped
  <2>4. longer \in Seq(1 .. emitted') /\ Len(longer) = Len(buffer) + 1 /\ longer # << >> /\ Len(buffer) \in Nat
    BY <2>2, <2>3, AppendProperties
  <2> HIDE DEF longer
  <2>5. Tail(longer) \in Seq(1 .. emitted') /\ Len(Tail(longer)) = Len(longer) - 1
    BY <2>4, HeadTailProperties
  <2>6. buffer' \in Seq(1 .. emitted') /\ Len(buffer') <= BufferSize
    <3>1. BufferSize \in Nat /\ Len(buffer) <= BufferSize /\ Len(longer) \in Nat
      BY <2>4, AccountsAssumption DEF BufferShaped
    <3>2. CASE Len(longer) > BufferSize
      BY <2>1, <2>4, <2>5, <3>1, <3>2
    <3>3. CASE ~(Len(longer) > BufferSize)
      BY <2>1, <2>4, <3>1, <3>3
    <3>. QED
      BY <3>2, <3>3
  <2>. QED
    BY <2>1, <2>2, <2>3, <2>6 DEF BufferShaped
<1>2. CASE StartTelemetryFlush
  BY <1>2 DEF StartTelemetryFlush, BufferShaped
<1>3. CASE FinishTelemetryFlush
  <2>1. /\ batch' = << >> /\ UNCHANGED emitted
        /\ delivered' \in {delivered, delivered \cup ToSet(batch)}
        /\ buffer' \in {buffer, SubSeq(buffer, Len(batch) + 1, Len(buffer))}
    BY <1>3 DEF FinishTelemetryFlush, RemoveOldest
  <2>2. ToSet(batch) \subseteq 1 .. emitted
    BY ElementsOf DEF BufferShaped
  <2>3. Len(batch) \in Nat /\ Len(buffer) \in Nat
    BY DEF BufferShaped
  <2>4. /\ SubSeq(buffer, Len(batch) + 1, Len(buffer)) \in Seq(1 .. emitted)
        /\ Len(SubSeq(buffer, Len(batch) + 1, Len(buffer))) <= Len(buffer)
    BY <2>3, SubSeqProperties DEF BufferShaped
  <2>5. BufferSize \in Nat
    BY AccountsAssumption
  <2>6. buffer' \in Seq(1 .. emitted) /\ Len(buffer') <= BufferSize /\ batch' \in Seq(1 .. emitted)
    <3>1. Len(buffer) <= BufferSize /\ buffer \in Seq(1 .. emitted)
      BY DEF BufferShaped
    <3>2. CASE buffer' = buffer
      BY <2>1, <3>1, <3>2, EmptySeq
    <3>3. CASE buffer' = SubSeq(buffer, Len(batch) + 1, Len(buffer))
      <4>1. Len(buffer') \in Nat
        BY <2>4, <3>3
      <4>. QED
        BY <2>1, <2>3, <2>4, <2>5, <3>1, <3>3, <4>1, EmptySeq
    <3>. QED
      BY <2>1, <3>2, <3>3
  <2>. QED
    BY <2>1, <2>2, <2>6 DEF BufferShaped
<1>4. CASE OneCNext \/ UNCHANGED accountsVars
  <2>1. UNCHANGED <<emitted, buffer, batch, delivered>>
    BY <1>4 DEF OneCNext, DeclineExport, StartExport, ExportSale, StartFlush, FlushPendingSales, HealthCheck, accountsVars,
       telemetryVars
  <2>. QED
    BY <2>1 DEF BufferShaped
<1>. QED
  BY <1>1, <1>2, <1>3, <1>4 DEF AccountsNext, TelemetryNext

LEMMA AccountsTypes == AccountsSpec => []AccountsTypeOK
<1>1. AccountsShaped => AccountsTypeOK
  <2> SUFFICES ASSUME AccountsShaped PROVE AccountsTypeOK
    OBVIOUS
  <2>1. \A f \in Flushers : flush[f].list \in 0 .. Len(pending) /\ flush[f].keeps \in Seq(Finished)
    BY DEF AccountsShaped, FlushesShaped
  <2>2. exporting \in BOOLEAN /\ connected \in BOOLEAN /\ filled \in BOOLEAN
    BY DEF AccountsShaped, TruthShaped
  <2>. QED
    BY <2>1, <2>2 DEF AccountsShaped, ExportsShaped, FlushesShaped, BufferShaped, AccountsTypeOK
<1>2. AccountsShaped /\ [AccountsNext]_accountsVars => AccountsShaped'
  BY OneCShapedOn, BufferShapedOn, TruthShapedOn DEF AccountsShaped
<1>. QED
  BY <1>1, <1>2, AccountsShapedFirst, PTL DEF AccountsSpec

\* The tables: one configuration for every start, and no memory without power.
StageShaped ==
    /\ startup \in {"closed", "opening", "opened", "seeding", "loading", "running"}
    /\ seeding \in 0 .. 2 * Len(Shelf) + 2
    /\ db.products \subseteq ToSet(Shelf) \cup {Legacy}
    /\ outages \in 0 .. MaxOutages
    /\ Len(db.configs) = IF startup = "closed" THEN outages ELSE outages + 1

MemoryShaped ==
    /\ startup # "running" => process.money = << >>
    /\ process.active \in Recorded \cup {NoSale} /\ process.status \in MachineStatuses
    /\ owed \in {NoEvent, "service", "temperature"}

TornShaped == torn \in BOOLEAN

LEMMA StageShapedFirst == LedgerInit => StageShaped
<1> SUFFICES ASSUME LedgerInit PROVE StageShaped
  OBVIOUS
<1>1. /\ startup = "closed" /\ seeding = 0 /\ outages = 0
      /\ db.products \subseteq {Legacy} /\ db.configs = << >>
  <2>1. CASE db = EmptyTables
    BY <2>1 DEF LedgerInit, EmptyTables
  <2>2. CASE db = [EmptyTables EXCEPT !.products = {Legacy}, !.slots = {Legacy}]
    BY <2>2 DEF LedgerInit, EmptyTables
  <2>. QED
    BY <2>1, <2>2 DEF LedgerInit
<1>2. Len(Shelf) \in Nat /\ MaxOutages \in Nat /\ Len(<< >>) = 0
  BY UptoIs, LedgerAssumption, EmptySeq
<1>. QED
  BY <1>1, <1>2 DEF StageShaped

LEMMA StageShapedOn == LedgerInv /\ StageShaped /\ [LedgerNext]_ledgerVars => StageShaped'
<1> SUFFICES ASSUME LedgerInv, StageShaped, [LedgerNext]_ledgerVars PROVE StageShaped'
  OBVIOUS
<1>1. /\ DOMAIN db = {"products", "slots", "money", "sales", "events", "service", "temperature", "status",
                      "configs", "settings"}
      /\ Len(Shelf) \in Nat /\ DOMAIN Shelf = 1 .. Len(Shelf) /\ MaxOutages \in Nat
      /\ \A i \in 1 .. Len(Shelf) : Shelf[i] \in ToSet(Shelf)
      /\ db.configs \in Seq({"config"} \X Nat)
  <2>1. Shelf \in Seq(ToSet(Shelf))
    BY LedgerAssumption
  <2>. QED
    BY <2>1, FieldsAre, LedgerAssumption DEF LedgerInv, ConfiguredSo
<1>2. CASE ApplyConfig
  <2>1. /\ startup = "closed" /\ startup' = "opening" /\ UNCHANGED <<seeding, outages>>
        /\ db'.configs = Append(db.configs, <<"config", outages>>) /\ db'.products = db.products
    BY <1>1, <1>2 DEF ApplyConfig
  <2>2. Len(db'.configs) = outages + 1
    <3>1. Len(db.configs) = outages /\ <<"config", outages>> \in {"config"} \X Nat
      BY <2>1 DEF StageShaped
    <3>. QED
      BY <1>1, <2>1, <3>1, AppendProperties
  <2>. QED
    BY <2>1, <2>2 DEF StageShaped
<1>3. CASE ApplySettings
  BY <1>1, <1>3 DEF ApplySettings, StageShaped
<1>4. CASE OpenStore
  <2>1. db' = db /\ outages' = outages /\ startup = "opened" /\ startup' \in {"seeding", "loading"}
        /\ seeding' \in {0, 2}
    BY <1>4 DEF OpenStore
  <2>. QED
    BY <1>1, <2>1 DEF StageShaped
<1>5. CASE SeedCatalog
  <2> DEFINE item == Shelf[(seeding - 2) \div 2 + 1]
  <2>1. /\ seeding' = seeding + 1 /\ seeding < 2 * Len(Shelf) + 2 /\ seeding \in Nat
        /\ startup = "seeding" /\ startup' = startup /\ outages' = outages
    BY <1>1, <1>5 DEF SeedCatalog, StageShaped
  <2>2. seeding > 1 => item \in ToSet(Shelf)
    <3>1. seeding > 1 => (seeding - 2) \div 2 + 1 \in 1 .. Len(Shelf)
      BY <1>1, <2>1
    <3>. QED
      BY <1>1, <3>1
  <2> HIDE DEF item
  <2>3. /\ db'.configs = db.configs
        /\ db'.products = db.products \/ db'.products = {} \/ (seeding > 1 /\ db'.products = db.products \cup {item})
    <3>1. CASE seeding = 0
      BY <1>1, <1>5, <3>1 DEF SeedCatalog
    <3>2. CASE seeding = 1
      BY <1>1, <1>5, <3>2 DEF SeedCatalog
    <3>3. CASE seeding > 1 /\ seeding % 2 = 0
      BY <1>1, <1>5, <3>3 DEF SeedCatalog, item
    <3>4. CASE seeding > 1 /\ seeding % 2 # 0
      BY <1>1, <1>5, <3>4 DEF SeedCatalog
    <3>. QED
      BY <2>1, <3>1, <3>2, <3>3, <3>4
  <2>4. seeding' \in 0 .. 2 * Len(Shelf) + 2
    BY <1>1, <2>1
  <2>. QED
    BY <2>1, <2>2, <2>3, <2>4 DEF StageShaped
<1>6. CASE Seeded
  BY <1>6 DEF Seeded, StageShaped
<1>7. CASE Load
  BY <1>1, <1>7 DEF Load, StageShaped
<1>8. CASE Change
  BY <1>8 DEF Change, StageShaped
<1>9. CASE RecordEvent
  BY <1>1, <1>9 DEF RecordEvent, StageShaped
<1>10. ASSUME NEW primary, NEW event, Project(primary, event) PROVE StageShaped'
  BY <1>1, <1>10 DEF Project, StageShaped
<1>11. CASE Outage
  <2>1. /\ startup # "closed" /\ startup' = "closed" /\ seeding' = 0 /\ db' = db /\ outages' = outages + 1
        /\ outages < MaxOutages
    BY <1>11 DEF Outage
  <2>. QED
    BY <1>1, <2>1 DEF StageShaped
<1>12. CASE UNCHANGED ledgerVars
  BY <1>12 DEF ledgerVars, StageShaped
<1>. QED
  BY <1>2, <1>3, <1>4, <1>5, <1>6, <1>7, <1>8, <1>9, <1>10, <1>11, <1>12 DEF LedgerNext

\* Who is active, among sales on record.
LEMMA ActiveIs ==
    ASSUME LedgerInv, NEW sales
    PROVE  LET listed == ListUnresolved(db.sales)
           IN  /\ ActiveAmong(listed, sales) \in Recorded \cup {NoSale}
               /\ listed # << >> => listed[1] \in Recorded
<1> DEFINE open == {s \in DOMAIN saved.sales : Unfinished(saved.sales[s])}
           listed == ListUnresolved(db.sales)
           bars == {i \in DOMAIN listed : Bars(sales[listed[i]])}
<1>1. listed \in [1 .. Cardinality(open) -> open] /\ Cardinality(open) \in Nat
  BY UnresolvedAre
<1>2. open \subseteq Recorded
  BY DEF LedgerInv, SalesKept, WellKept
<1>3. ActiveAmong(listed, sales) = IF bars = {} THEN NoSale ELSE listed[Min(bars)]
  BY DEF ActiveAmong
<1> HIDE DEF listed, open
<1>4. bars \in SUBSET Nat /\ bars \subseteq 1 .. Cardinality(open)
  <2>1. DOMAIN listed = 1 .. Cardinality(open) /\ 1 .. Cardinality(open) \subseteq Nat
    BY <1>1
  <2>. QED
    BY <2>1
<1> HIDE DEF bars
<1>5. bars # {} => Min(bars) \in bars
  BY <1>4, LeastOf
<1>6. \A i \in 1 .. Cardinality(open) : listed[i] \in Recorded
  BY <1>1, <1>2
<1>7. listed # << >> => 1 \in 1 .. Cardinality(open)
  <2>1. Cardinality(open) = 0 => listed = << >>
    BY <1>1
  <2>. QED
    BY <1>1, <2>1
<1>. QED
  BY <1>3, <1>4, <1>5, <1>6, <1>7 DEF listed

LEMMA MemoryShapedOn == LedgerInv /\ MemoryShaped /\ [LedgerNext]_ledgerVars => MemoryShaped'
<1> SUFFICES ASSUME LedgerInv, MemoryShaped, [LedgerNext]_ledgerVars PROVE MemoryShaped'
  OBVIOUS
<1>1. /\ DOMAIN process = {"catalog", "money", "sales", "active", "status"}
      /\ DOMAIN process.sales \subseteq Recorded
      /\ process.status \in MachineStatuses /\ process.active \in Recorded \cup {NoSale}
  BY FieldsAre DEF LedgerInv, SalesKept, WellKept, MemoryShaped
<1>2. CASE \/ ApplyConfig \/ ApplySettings \/ SeedCatalog \/ Seeded \/ UNCHANGED ledgerVars
  BY <1>2 DEF ApplyConfig, ApplySettings, SeedCatalog, Seeded, ledgerVars, MemoryShaped
<1>3. CASE OpenStore
  BY <1>3 DEF OpenStore, MemoryShaped
<1>4. CASE Load
  <2> DEFINE listed == ListUnresolved(db.sales)
             sales == [s \in ToSet(listed) |-> TransactionFromRow(db.sales[s])]
  <2>1. /\ startup' = "running" /\ owed' = owed /\ process'.active = ActiveAmong(listed, sales)
        /\ process'.status = [StatusAtStart EXCEPT !.blocked = listed # << >>,
                                 !.active = IF listed = << >> THEN NoSale ELSE listed[1]]
    BY <1>4 DEF Load
  <2>2. ActiveAmong(listed, sales) \in Recorded \cup {NoSale} /\ (listed # << >> => listed[1] \in Recorded)
    BY ActiveIs
  <2> HIDE DEF sales
  <2> DEFINE first == IF listed = << >> THEN NoSale ELSE listed[1]
             barred == listed # << >>
  <2>3. first \in Recorded \cup {NoSale} /\ barred \in BOOLEAN
    BY <2>2
  <2>4. process'.status = [StatusAtStart EXCEPT !.blocked = barred, !.active = first]
    BY <2>1
  <2> HIDE DEF first, barred
  <2>5. process'.status \in MachineStatuses
    <3>1. process'.status = [service |-> FALSE, blocked |-> barred, active |-> first]
      BY <2>4 DEF StatusAtStart
    <3>. QED
      BY <2>3, <3>1 DEF MachineStatuses
  <2>. QED
    BY <2>1, <2>2, <2>5 DEF MemoryShaped
<1>5. CASE Change
  <2>1. startup' = "running" /\ owed' = owed
    BY <1>5 DEF Change
  <2>2. ASSUME NEW s \in Recorded, NewSale(s)
        PROVE  process'.active \in Recorded \cup {NoSale} /\ process'.status \in MachineStatuses
    <3>1. process'.active = s /\ process'.status = [process.status EXCEPT !.active = s]
      BY <1>1, <2>2 DEF NewSale
    <3>. QED
      BY <1>1, <3>1 DEF MachineStatuses
  <2>3. ASSUME NEW s \in DOMAIN process.sales, SaleMoves(s)
        PROVE  process'.active \in Recorded \cup {NoSale} /\ process'.status \in MachineStatuses
    <3>1. PICK r \in SaleChange(process.sales[s]), recovers \in BOOLEAN :
             /\ process'.active = (IF Over(r) /\ process.active = s THEN NoSale ELSE process.active)
             /\ process'.status = StatusAfter(r, recovers)
      BY <1>1, <2>3 DEF SaleMoves
    <3> DEFINE who == IF Over(r) THEN NoSale ELSE process.status.active
               held == process.status.blocked /\ ~recovers
    <3>2. who \in Recorded \cup {NoSale} /\ held \in BOOLEAN
      BY <1>1 DEF MachineStatuses
    <3>3. process'.status = [process.status EXCEPT !.active = who, !.blocked = held]
      BY <1>1, <3>1 DEF MachineStatuses, StatusAfter
    <3> HIDE DEF who, held
    <3>4. process'.status \in MachineStatuses
      BY <1>1, <3>2, <3>3 DEF MachineStatuses
    <3>. QED
      BY <1>1, <3>1, <3>4
  <2>4. ASSUME NEW m, process' = [process EXCEPT !.money = m]
        PROVE  process'.active \in Recorded \cup {NoSale} /\ process'.status \in MachineStatuses
    BY <1>1, <2>4
  <2>5. process'.active \in Recorded \cup {NoSale} /\ process'.status \in MachineStatuses
    BY <1>5, <2>2, <2>3, <2>4 DEF Change
  <2>. QED
    BY <2>1, <2>5 DEF MemoryShaped
<1>6. CASE RecordEvent
  BY <1>6 DEF RecordEvent, MemoryShaped
<1>7. ASSUME NEW primary, NEW event \in {NoEvent, "service", "temperature"}, Project(primary, event)
      PROVE  MemoryShaped'
  <2> DEFINE toggled == IF event = "service" THEN ~process.status.service ELSE process.status.service
  <2>1. /\ startup' = startup /\ owed' = event /\ startup = "running"
        /\ process'.active = process.active /\ process'.status = [process.status EXCEPT !.service = toggled]
    BY <1>1, <1>7 DEF Project
  <2>2. toggled \in BOOLEAN
    BY <1>1 DEF MachineStatuses
  <2> HIDE DEF toggled
  <2>3. process'.status \in MachineStatuses
    BY <1>1, <2>1, <2>2 DEF MachineStatuses
  <2>. QED
    BY <1>1, <2>1, <2>3 DEF MemoryShaped
<1>8. CASE Outage
  BY <1>8 DEF Outage, Blank, StatusAtStart, MachineStatuses, MemoryShaped
<1>. QED
  BY <1>2, <1>3, <1>4, <1>5, <1>6, <1>7, <1>8 DEF LedgerNext

LEMMA TornShapedOn == TornShaped /\ [LedgerNext]_ledgerVars => TornShaped'
BY Zenon DEF TornShaped, LedgerNext, ApplyConfig, ApplySettings, OpenStore, SeedCatalog, Seeded, Load, Change, RecordEvent,
   Outage, Project, ledgerVars

LEMMA LedgerTypes == LedgerSpec => []LedgerTypeOK
<1>1. LedgerInit => MemoryShaped /\ TornShaped
  <2> SUFFICES ASSUME LedgerInit PROVE MemoryShaped /\ TornShaped
    OBVIOUS
  <2>1. TornShaped
    BY Zenon DEF LedgerInit, TornShaped
  <2>2. MemoryShaped
    BY DEF LedgerInit, MemoryShaped, Blank, StatusAtStart, MachineStatuses
  <2>. QED
    BY <2>1, <2>2
<1>2. LedgerInv /\ StageShaped /\ MemoryShaped /\ TornShaped => LedgerTypeOK
  <2> SUFFICES ASSUME LedgerInv, StageShaped, MemoryShaped, TornShaped PROVE LedgerTypeOK
    OBVIOUS
  <2>1. db.slots \subseteq db.products /\ back
    BY RowsAreRead DEF RowsComeBack
  <2>2. back \in BOOLEAN /\ torn \in BOOLEAN
    BY <2>1, Zenon DEF TornShaped
  <2>3. process.money # << >> => process.money \in Monies
    BY DEF LedgerInv, MoneyKept, MemoryShaped
  <2>4. DOMAIN db.sales \subseteq Recorded /\ \A s \in DOMAIN process.sales : process.sales[s] \in Entities
    BY DEF LedgerInv, SalesKept, WellKept
  <2>5. Len(db.configs) <= MaxOutages + 1
    BY LedgerAssumption DEF StageShaped
  <2>. QED
    BY <2>1, <2>2, <2>3, <2>4, <2>5 DEF StageShaped, MemoryShaped, LedgerTypeOK
<1>. QED
  BY <1>1, <1>2, LedgerStarts, LedgerKept, StageShapedFirst, StageShapedOn, MemoryShapedOn, TornShapedOn, PTL
     DEF LedgerSpec

=============================================================================
