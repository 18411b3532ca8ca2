-------------------------------- MODULE Ledger -------------------------------
(***************************************************************************)
(* What the tables of the store hold and how it comes back                 *)
(* (infrastructure/persistence/sqlite: mappers.py, repositories.py; the    *)
(* seeding, loading and projection of runtime/bootstrap.py).  Writes of    *)
(* the seeding commit one by one, a projection commits as a whole          *)
(* (module Store), the event of an operation is inserted after it.         *)
(*                                                                         *)
(* Quantities stay as they were seeded, and are left out.  The machine     *)
(* status is written and never read back by a start, only by the status    *)
(* command of another process, as are the configurations that were applied. *)
(***************************************************************************)
EXTENDS Naturals, Sequences, FiniteSets, SequencesExt, FiniteSetsExt

CONSTANTS
    Recorded,      \* sales
    Nominals,      \* denominations of the change inventory
    Shelf,         \* catalog.items of the configuration, each a product and its slot
    Legacy,        \* the product of an old demonstration catalog
    ListLimit,     \* limit of the event list
    MaxChanges,    \* bound: changes of sales and money in memory
    MaxNotes,      \* bound: rows of events, of the journal and of operations
    MaxOutages     \* bound: power cuts

NoSale == "none"

ASSUME LedgerAssumption ==
    /\ NoSale \notin Recorded /\ Shelf \in Seq(ToSet(Shelf)) /\ Legacy \notin ToSet(Shelf)
    /\ ListLimit \in Nat \ {0} /\ {MaxChanges, MaxNotes, MaxOutages} \subseteq Nat

VARIABLES
    startup,    \* "closed", "opening", "opened", "seeding", "loading", "running"
    seeding,    \* writes the seeding has made
    db,         \* the tables, of operational events there are two
    process,    \* the memory of the process: catalog, money, sales, active, machine status
    owed,       \* the operational event of a projection that just committed
    clock,      \* updated_at and occurred_at: the changes so far
    saved,      \* history: money and sales when they were saved last
    back,       \* history: whether the last load brought back what was saved
    torn,       \* history: the power failed while the catalog was being seeded
    outages

ledgerVars == <<startup, seeding, db, process, owed, clock, saved, back, torn, outages>>

NoSession == << >>
Unreserved == [d \in {} |-> 0]
NoEvent == "none"

Statuses == {"created", "accepting_cash", "ambiguous", "pickup_timed_out", "completed", "cancelled"}

\* A sale in memory: its session is the list of its bills.
Entities == [status : Statuses, recovery : {"none", "pending"}, bills : Seq(Nominals),
             reserve : [Nominals -> {1}] \cup {Unreserved}, cancelled : BOOLEAN, touched : Nat]

Monies == [counts : [Nominals -> Nat], reserved : [Nominals -> Nat], drift : BOOLEAN]

EmptyTables == [products |-> {}, slots |-> {}, money |-> << >>, sales |-> << >>,
                events |-> << >>, service |-> << >>, temperature |-> << >>,
                status |-> << >>, configs |-> << >>, settings |-> << >>]

\* Allowed is refreshed by whatever sets the others.
MachineStatuses == [service : BOOLEAN, blocked : BOOLEAN, active : Recorded \cup {NoSale}]
StatusAtStart == [service |-> FALSE, blocked |-> FALSE, active |-> NoSale]

Blank == [catalog |-> {}, money |-> << >>, sales |-> << >>, active |-> NoSale, status |-> StatusAtStart]

LedgerTypeOK ==
    /\ startup \in {"closed", "opening", "opened", "seeding", "loading", "running"} /\ seeding \in 0 .. 2 * Len(Shelf) + 2
    /\ db.products \subseteq ToSet(Shelf) \cup {Legacy}
    /\ db.slots \subseteq ToSet(Shelf) \cup {Legacy}
    /\ DOMAIN db.sales \subseteq Recorded
    /\ process.money # << >> => process.money \in Monies
    /\ \A s \in DOMAIN process.sales : process.sales[s] \in Entities
    /\ process.active \in Recorded \cup {NoSale} /\ process.status \in MachineStatuses
    /\ owed \in {NoEvent, "service", "temperature"}
    /\ Len(db.configs) <= MaxOutages + 1 /\ back \in BOOLEAN /\ torn \in BOOLEAN /\ outages \in 0 .. MaxOutages

LedgerInit ==
    /\ startup = "closed" /\ seeding = 0 /\ process = Blank /\ owed = NoEvent /\ clock = 0
    /\ db \in {EmptyTables, [EmptyTables EXCEPT !.products = {Legacy}, !.slots = {Legacy}]}
    /\ saved = [money |-> << >>, sales |-> << >>] /\ back = TRUE /\ torn = FALSE /\ outages = 0

-----------------------------------------------------------------------------
(* Entities and rows.  A key of a JSON object is a text: that of d is <<d>>. *)

Text(d) == <<d>>
Dumped(counts) == [t \in {Text(d) : d \in DOMAIN counts} |-> counts[t[1]]]

IntKeyMap(raw) == [d \in {t[1] : t \in DOMAIN raw} |-> raw[Text(d)]]

MoneyToRecord(m) ==
    [counts |-> Dumped(m.counts), reserved |-> Dumped(m.reserved), drift |-> IF m.drift THEN 1 ELSE 0]
MoneyFromRow(row) ==
    [counts |-> IntKeyMap(row.counts), reserved |-> IntKeyMap(row.reserved), drift |-> row.drift = 1]

StatusToRecord(status) ==
    [status EXCEPT !.active = {status.active} \ {NoSale}] @@ [allowed |-> ~(status.blocked \/ status.service)]

\* No session and no reserve are NULL; a session without bills is none here.
TransactionToRecord(r) ==
    [status |-> r.status, recovery |-> r.recovery, touched |-> r.touched,
     session |-> IF r.bills = NoSession THEN {} ELSE {r.bills},
     reserve |-> IF r.reserve = Unreserved THEN {} ELSE {Dumped(r.reserve)}]

\* There is no column for _cancelled.
TransactionFromRow(row) ==
    [status |-> row.status, recovery |-> row.recovery, touched |-> row.touched,
     bills |-> IF row.session = {} THEN NoSession ELSE CHOOSE bills \in row.session : TRUE,
     reserve |-> IF row.reserve = {} THEN Unreserved
                 ELSE IntKeyMap(CHOOSE reserve \in row.reserve : TRUE),
     cancelled |-> row.status = "cancelled"]

Unfinished(r) == r.status \notin {"completed", "cancelled"} \/ r.recovery # "none"

\* By updated_at: no two changes share one here.
ByAge(sales, rows) ==
    CHOOSE order \in [1 .. Cardinality(sales) -> sales] :
        \A i, j \in DOMAIN order : i < j => rows[order[i]].touched < rows[order[j]].touched

\* Mutant: only the status is asked for.
ListByStatus(rows) == ByAge({s \in DOMAIN rows : rows[s].status \notin {"completed", "cancelled"}}, rows)

\* list_unresolved.
ListUnresolved(rows) == ByAge({s \in DOMAIN rows : Unfinished(rows[s])}, rows)

\* _TERMINAL_STATUSES: a sale that no new one may replace.
Bars(r) == r.status \notin {"completed", "cancelled", "pickup_timed_out"}

\* restore_transactions: the first of them becomes active.
ActiveAmong(order, sales) ==
    LET bars == {i \in DOMAIN order : Bars(sales[order[i]])}
    IN  IF bars = {} THEN NoSale ELSE order[Min(bars)]

-----------------------------------------------------------------------------
(* The status command: another process, which reads the tables.            *)

\* available_counts of the snapshot, by its texts.
SnapshotOfMoney(row) ==
    [t \in DOMAIN row.counts |->
        Max({0, row.counts[t] - (IF t \in DOMAIN row.reserved THEN row.reserved[t] ELSE 0)})]

\* list_unresolved_summaries, a query of its own.
Summaries(rows) ==
    LET asked == {s \in DOMAIN rows : rows[s].status \notin {"completed", "cancelled"}}
                   \cup {s \in DOMAIN rows : rows[s].recovery # "none"}
    IN  ByAge(asked, rows)

LatestConfig == IF db.configs = << >> THEN << >> ELSE Last(db.configs)

RuntimeStatus ==
    [machine |-> db.status, sales |-> Summaries(db.sales), config |-> LatestConfig,
     available |-> IF db.money = << >> THEN << >> ELSE SnapshotOfMoney(db.money)]

-----------------------------------------------------------------------------
(* Start.                                                                  *)

\* The configuration file may be another one after every outage.
ApplyConfig ==
    /\ startup = "closed" /\ startup' = "opening"
    /\ db' = [db EXCEPT !.configs = Append(@, <<"config", outages>>)]
    /\ UNCHANGED <<seeding, process, owed, clock, saved, back, torn, outages>>

ApplySettings ==
    /\ startup = "opening" /\ startup' = "opened"
    /\ db' = [db EXCEPT !.settings = <<"config", outages>>]
    /\ UNCHANGED <<seeding, process, owed, clock, saved, back, torn, outages>>

\* An old demonstration catalog is replaced, any other is left as it is.
OpenStore ==
    /\ startup = "opened"
    /\ IF db.products = {} THEN startup' = "seeding" /\ seeding' = 2
       ELSE IF Legacy \in db.products THEN startup' = "seeding" /\ seeding' = 0
       ELSE startup' = "loading" /\ seeding' = 0
    /\ UNCHANGED <<db, process, owed, clock, saved, back, torn, outages>>

\* delete_all of slots, of products; then each product and its slot.
SeedCatalog ==
    LET item == Shelf[(seeding - 2) \div 2 + 1]
    IN  /\ startup = "seeding" /\ seeding < 2 * Len(Shelf) + 2 /\ seeding' = seeding + 1
        /\ db' = CASE seeding = 0 -> [db EXCEPT !.slots = {}]
                       [] seeding = 1 -> [db EXCEPT !.products = {}]
                       [] seeding > 1 /\ seeding % 2 = 0 -> [db EXCEPT !.products = @ \cup {item}]
                       [] OTHER -> [db EXCEPT !.slots = @ \cup {item}]
        /\ UNCHANGED <<startup, process, owed, clock, saved, back, torn, outages>>

Seeded ==
    /\ startup = "seeding" /\ seeding = 2 * Len(Shelf) + 2
    /\ startup' = "loading"
    /\ UNCHANGED <<seeding, db, process, owed, clock, saved, back, torn, outages>>

FirstMoney == [counts |-> [d \in Nominals |-> 1], reserved |-> [d \in Nominals |-> 0], drift |-> FALSE]

\* All that a row can bring back of a sale.
AsSaved(r) == [r EXCEPT !.cancelled = r.status = "cancelled"]

\* _load_inventory_service, _load_money_inventory and _restore_runtime_state.
Load ==
    LET order == ListUnresolved(db.sales)
        sales == [s \in ToSet(order) |-> TransactionFromRow(db.sales[s])]
        money == IF db.money = << >> THEN FirstMoney ELSE MoneyFromRow(db.money)
    IN  /\ startup = "loading" /\ startup' = "running"
        /\ process' = [catalog |-> {i \in db.slots : i \in db.products}, money |-> money,
                       sales |-> sales, active |-> ActiveAmong(order, sales),
                       status |-> [StatusAtStart EXCEPT !.blocked = order # << >>,
                                       !.active = IF order = << >> THEN NoSale ELSE order[1]]]
        /\ db' = [db EXCEPT !.money = MoneyToRecord(money)]
        /\ saved' = [saved EXCEPT !.money = IF db.money = << >> THEN FirstMoney ELSE @]
        /\ back' = /\ money = saved'.money
                   /\ sales = [s \in {s \in DOMAIN saved.sales : Unfinished(saved.sales[s])} |->
                                 AsSaved(saved.sales[s])]
                   /\ \A s \in DOMAIN sales : Bars(saved.sales[s]) =>
                         /\ process'.active # NoSale
                         /\ saved.sales[process'.active].touched <= saved.sales[s].touched
        /\ UNCHANGED <<seeding, owed, clock, torn, outages>>

-----------------------------------------------------------------------------
(* Work.                                                                   *)

\* A reserve is taken from the money inventory, and paid out or given back.
MoneyChange(m) ==
    {[m EXCEPT !.reserved = [d \in Nominals |-> 1]], [m EXCEPT !.reserved = [d \in Nominals |-> 0]],
     [m EXCEPT !.counts = [d \in Nominals |-> 0], !.reserved = [d \in Nominals |-> 0]],
     [m EXCEPT !.counts = [d \in Nominals |-> 0]], [m EXCEPT !.drift = ~@]}

\* What happens to a sale between two events that are projected may be several
\* of its methods.
SaleChange(r) ==
    LET Moves(status, recovery) == [r EXCEPT !.status = status, !.recovery = recovery]
        Cancelled == [Moves("cancelled", "none") EXCEPT !.cancelled = TRUE, !.reserve = Unreserved]
    IN  CASE r.status = "created" ->
               {[r EXCEPT !.status = "accepting_cash", !.reserve = reserve] :
                   reserve \in {Unreserved, [d \in Nominals |-> 1]}} \cup {Cancelled}
          [] r.status = "accepting_cash" ->
               {[r EXCEPT !.bills = Append(@, d)] : d \in Nominals}
                 \cup {Moves("completed", "none"), Moves("ambiguous", "pending"),
                       Moves("pickup_timed_out", "pending"), Cancelled}
          [] r.status = "cancelled" -> {Moves("ambiguous", "pending"), Moves("cancelled", "pending")}
          [] OTHER -> {}

NewSale(s) ==
    /\ s \notin DOMAIN process.sales \cup DOMAIN db.sales /\ process.active = NoSale
    /\ process' = [process EXCEPT !.active = s, !.status.active = s, !.sales =
                    [t \in DOMAIN @ \cup {s} |->
                        IF t = s THEN [status |-> "created", recovery |-> "none", bills |-> NoSession,
                                       reserve |-> Unreserved, cancelled |-> FALSE, touched |-> clock + 1]
                        ELSE @[t]]]

Over(r) == r.status \in {"completed", "cancelled"}

\* Only the recovery of a sale lifts the blocker of a restart.
StatusAfter(r, recovers) ==
    [process.status EXCEPT !.active = IF Over(r) THEN NoSale ELSE @, !.blocked = @ /\ ~recovers]

SaleMoves(s) ==
    \E r \in SaleChange(process.sales[s]), recovers \in BOOLEAN :
        /\ recovers => r.status = "cancelled" /\ process.status.blocked
        /\ process' = [process EXCEPT
               !.sales = [@ EXCEPT ![s] = [r EXCEPT !.touched = clock + 1]],
               !.active = IF Over(r) /\ @ = s THEN NoSale ELSE @,
               !.status = StatusAfter(r, recovers)]

Change ==
    /\ startup = "running" /\ owed = NoEvent /\ clock < MaxChanges /\ clock' = clock + 1
    /\ \/ \E s \in Recorded : NewSale(s)
       \/ \E s \in DOMAIN process.sales : SaleMoves(s)
       \/ \E m \in MoneyChange(process.money) : process' = [process EXCEPT !.money = m]
    /\ UNCHANGED <<startup, seeding, db, owed, saved, back, torn, outages>>

\* Rows of events so far; each is later than those before it.
Notes == Len(db.events) + Len(db.service) + Len(db.temperature)

\* The projection of an event: its sale, the active one if it has none, and
\* every unresolved one, the money, the machine's status and the event itself.
Project(primary, event) ==
    LET status == [process.status EXCEPT !.service = IF event = "service" THEN ~@ ELSE @]
        written == {s \in DOMAIN process.sales : s = primary \/ Unfinished(process.sales[s])}
        Upsert(rows, Row(_)) == [s \in DOMAIN rows \cup written |-> IF s \in written THEN Row(s) ELSE rows[s]]
    IN  /\ startup = "running" /\ owed = NoEvent /\ owed' = event /\ Notes < MaxNotes
        /\ db' = [db EXCEPT !.events = Append(@, Notes + 1),
                         !.sales = Upsert(@, LAMBDA s : TransactionToRecord(process.sales[s])),
                         !.money = MoneyToRecord(process.money), !.status = StatusToRecord(status)]
        /\ process' = [process EXCEPT !.status = status]
        /\ saved' = [money |-> process.money, sales |-> Upsert(saved.sales, LAMBDA s : process.sales[s])]
        /\ UNCHANGED <<startup, seeding, clock, back, torn, outages>>

\* record_service_event and record_temperature_event.
RecordEvent ==
    /\ owed # NoEvent /\ owed' = NoEvent
    /\ db' = IF owed = "service" THEN [db EXCEPT !.service = Append(@, Notes + 1)]
                 ELSE [db EXCEPT !.temperature = Append(@, Notes + 1)]
    /\ UNCHANGED <<startup, seeding, process, clock, saved, back, torn, outages>>

\* With the power the process loses its memory, and what is owed.
Outage ==
    /\ startup # "closed" /\ outages < MaxOutages /\ outages' = outages + 1
    /\ startup' = "closed" /\ seeding' = 0 /\ process' = Blank /\ owed' = NoEvent
    /\ torn' = (torn \/ (startup = "seeding" /\ db.products # {} /\ Legacy \notin db.products))
    /\ UNCHANGED <<db, clock, saved, back>>

LastOf(times) == IF Len(times) <= ListLimit THEN times ELSE SubSeq(times, Len(times) - ListLimit + 1, Len(times))

Latest(times) == {t \in times : Cardinality({u \in times : u > t}) < ListLimit}

\* list_recent: the latest of each table, merged, and the latest of those.
ListRecent == Latest(ToSet(LastOf(db.service)) \cup ToSet(LastOf(db.temperature)))

\* The events command merges them with the events of the journal.
RuntimeEvents == Latest(ToSet(LastOf(db.events)) \cup ListRecent)

-----------------------------------------------------------------------------
LedgerNext ==
    \/ ApplyConfig \/ ApplySettings \/ OpenStore \/ SeedCatalog \/ Seeded \/ Load \/ Change \/ RecordEvent \/ Outage
    \/ \E primary \in DOMAIN process.sales : Project(primary, NoEvent)
    \/ \E event \in {"service", "temperature"} : Project(process.active, event)

LedgerSpec == LedgerInit /\ [][LedgerNext]_ledgerVars

\* What comes back after a power cut is what was saved last, to the type of
\* every key: the money, and each sale that is not finished, its bills and its
\* reserve too, but for the mark of a sale that failed after it was cancelled;
\* the sale that becomes active is the longest untouched of them.  No order of
\* seeding leaves a slot without its product, and unless the power failed in
\* the middle of it the catalog is the configuration's.  The list of recent
\* events shows the latest of the journal and of both tables.  And what the
\* status command reads with queries and conversions of its own agrees with
\* what a start will read: the same sales, the same money that is available,
\* the configuration that is running (mappers.py:45-46, 242-283, bootstrap.py:620-666 and 847-898,
\* repositories.py snapshot, list_unresolved and list_recent).
RowsComeBack ==
    /\ back
    /\ db.slots \subseteq db.products
    /\ startup = "running" /\ ~torn => process.catalog = ToSet(Shelf)
    /\ RuntimeStatus.sales = ListUnresolved(db.sales)
    /\ db.money # << >> =>
          LET m == MoneyFromRow(db.money)
          IN  IntKeyMap(RuntimeStatus.available) = [d \in Nominals |-> Max({0, m.counts[d] - m.reserved[d]})]
    /\ startup = "running" => RuntimeStatus.config = db.settings /\ db.settings = <<"config", outages>>
    /\ RuntimeEvents = {t \in 1 .. Notes : t > Notes - ListLimit}

=============================================================================
