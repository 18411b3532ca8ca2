-------------------------------- MODULE Store --------------------------------
(***************************************************************************)
(* The SQLite file under the machine: the migration of the journal when the*)
(* program starts, then the one connection that every coroutine shares     *)
(* (infrastructure/persistence).  A transaction belongs to the connection, *)
(* not to the coroutine: what another coroutine writes while one is open   *)
(* joins it.  Power may fail between any two statements.                   *)
(***************************************************************************)
EXTENDS Naturals

CONSTANTS
    Writers,        \* coroutines
    Suspending,     \* those that await inside their transaction (a cancellation)
    NoWriter,
    Rows,           \* rows of the journal, each with its own idempotency key
    MaxCuts         \* bound: power failures

ASSUME StoreAssumption ==
    Suspending \subseteq Writers /\ NoWriter \notin Writers /\ MaxCuts \in Nat

VARIABLES
    boot,        \* how far ensure_sqlite_schema is, or "serves"
    version2,    \* schema_metadata says version 2
    disk,        \* committed rows of transaction_journal
    hasOld, old, \* transaction_journal_old
    wal,         \* rows written in the connection's open transaction
    begun,       \* sqlite: the connection is in a transaction
    manual,      \* _in_manual_transaction
    running,     \* the coroutine that runs, or NoWriter
    scope,       \* each coroutine's with-block: its kind and rows written in it
    ended,       \* history: blocks that ended, how, and with which rows
    shared,      \* history: rows of blocks that did not have a transaction to themselves
    v1, cuts

storeVars == <<boot, version2, disk, hasOld, old, wal, begun, manual, running, scope,
               ended, shared, v1, cuts>>
tables == <<boot, version2, hasOld, old, v1>>
connection == <<wal, begun, manual>>

NoScope == [kind |-> "none", rows |-> {}]
ScopeKinds == {"none", "outer", "inner"}

StoreTypeOK ==
    /\ boot \in {"down", "checks", "renamed", "created", "copied", "refuses", "serves"}
    /\ disk \subseteq Rows /\ old \subseteq Rows /\ wal \subseteq Rows /\ shared \subseteq Rows
    /\ {version2, hasOld, begun, manual} \subseteq BOOLEAN
    /\ running \in Writers \cup {NoWriter}
    /\ scope \in [Writers -> [kind : ScopeKinds, rows : SUBSET Rows]]
    /\ ended \subseteq [how : {"done", "raised", "cut"}, rows : SUBSET Rows]
    /\ v1 \subseteq Rows /\ cuts \in 0 .. MaxCuts

StoreInit ==
    /\ v1 \in {{}} \cup {{r} : r \in Rows}
    /\ boot = "down" /\ version2 = FALSE /\ disk = v1 /\ hasOld = FALSE /\ old = {}
    /\ wal = {} /\ begun = FALSE /\ manual = FALSE /\ running = NoWriter
    /\ scope = [w \in Writers |-> NoScope] /\ ended = {} /\ shared = {} /\ cuts = 0

-----------------------------------------------------------------------------
(* Starting: ensure_sqlite_schema.  executescript commits what is open, so *)
(* the renaming is on disk before the new table exists; copying and        *)
(* dropping are one transaction.                                           *)

Booting == UNCHANGED <<connection, running, scope, ended, shared, v1, cuts>>

StartUp == boot = "down" /\ boot' = "checks"
           /\ UNCHANGED <<version2, disk, hasOld, old>> /\ Booting

\* A renamed table left by a power failure makes the renaming fail, at each start.
RenameJournal ==
    /\ boot = "checks" /\ ~version2
    /\ IF hasOld THEN boot' = "refuses" /\ UNCHANGED <<disk, hasOld, old>>
       ELSE boot' = "renamed" /\ hasOld' = TRUE /\ old' = disk /\ disk' = {}
    /\ UNCHANGED version2 /\ Booting

CreateJournal == boot = "renamed" /\ boot' = "created"
                 /\ UNCHANGED <<version2, disk, hasOld, old>> /\ Booting

\* Mutant: the old table is dropped before it is copied.
DroppedFirst(rows) == {}

Copied(rows) == rows

CopyAndDropOld ==
    /\ boot = "created" /\ boot' = "copied"
    /\ disk' = Copied(old) /\ old' = {} /\ hasOld' = FALSE
    /\ UNCHANGED version2 /\ Booting

SchemaReady ==
    /\ boot = "copied" \/ (boot = "checks" /\ version2)
    /\ boot' = "serves" /\ version2' = TRUE
    /\ UNCHANGED <<disk, hasOld, old>> /\ Booting

-----------------------------------------------------------------------------
(* Statements and with-blocks.                                             *)

MayRun(w) == boot = "serves" /\ running \in {w, NoWriter}
Unused == Rows \ (disk \cup old \cup wal \cup shared \cup UNION {e.rows : e \in ended})

EndsScope(w) == scope' = [scope EXCEPT ![w] = NoScope] /\ running' = NoWriter
Ended(w, how) ==
    ended' = IF scope[w].kind = "outer" /\ scope[w].rows \cap shared = {}
             THEN ended \cup {[how |-> how, rows |-> scope[w].rows]} ELSE ended

\* transaction(): an open one is joined.  BEGIN inside a transaction that a
\* cancelled coroutine left open raises, and rolls that one back.
OpenScope(w) ==
    /\ MayRun(w) /\ running = NoWriter /\ scope[w].kind = "none"
    /\ IF manual
       THEN /\ scope' = [scope EXCEPT ![w].kind = "inner"] /\ running' = w
            /\ UNCHANGED connection
       ELSE IF begun
       THEN wal' = {} /\ begun' = FALSE /\ UNCHANGED <<manual, scope, running>>
       ELSE /\ scope' = [scope EXCEPT ![w].kind = "outer"] /\ running' = w
            /\ begun' = TRUE /\ manual' = TRUE /\ UNCHANGED wal
    /\ UNCHANGED <<tables, disk, ended, shared, cuts>>

\* Mutant: every statement commits.
CommitsAlways == TRUE

\* execute, insert, executemany: they commit unless a transaction() is open.
CommitsAtOnce == ~manual

\* A statement of a with-block, or one alone, of a coroutine in no block.
WriteRow(w, r) ==
    /\ MayRun(w) /\ r \in Unused /\ (scope[w].kind # "none" => running = w)
    /\ scope[w].kind = "none" => running = NoWriter
    /\ IF CommitsAtOnce
       THEN disk' = disk \cup wal \cup {r} /\ wal' = {} /\ begun' = FALSE
       ELSE wal' = wal \cup {r} /\ UNCHANGED <<disk, begun>>
    /\ IF scope[w].kind = "none"
       THEN /\ UNCHANGED scope
            /\ IF manual THEN shared' = shared \cup {r} /\ UNCHANGED ended
               ELSE ended' = ended \cup {[how |-> "done", rows |-> {r}]} /\ UNCHANGED shared
       ELSE /\ scope' = [scope EXCEPT ![w].rows = @ \cup {r}]
            /\ shared' = IF scope[w].kind = "inner" THEN shared \cup {r} ELSE shared
            /\ UNCHANGED ended
    /\ UNCHANGED <<tables, manual, running, cuts>>

AwaitInScope(w) ==
    /\ w \in Suspending /\ running = w /\ running' = NoWriter
    /\ UNCHANGED <<tables, disk, connection, scope, ended, shared, cuts>>

ResumeScope(w) ==
    /\ MayRun(w) /\ running = NoWriter /\ scope[w].kind # "none" /\ running' = w
    /\ UNCHANGED <<tables, disk, connection, scope, ended, shared, cuts>>

CloseScope(w) ==
    /\ running = w
    /\ IF scope[w].kind = "outer"
       THEN disk' = disk \cup wal /\ wal' = {} /\ begun' = FALSE /\ manual' = FALSE
       ELSE UNCHANGED <<disk, connection>>
    /\ Ended(w, "done") /\ EndsScope(w)
    /\ UNCHANGED <<tables, shared, cuts>>

\* An exception rolls back the outer block; an inner one leaves its rows to it.
ScopeRaises(w) ==
    /\ running = w
    /\ IF scope[w].kind = "outer"
       THEN wal' = {} /\ begun' = FALSE /\ manual' = FALSE
       ELSE UNCHANGED connection
    /\ Ended(w, "raised") /\ EndsScope(w)
    /\ UNCHANGED <<tables, disk, shared, cuts>>

\* CancelledError is no Exception: the block is left with its transaction open,
\* and the next statement outside a block commits it.
ScopeCancelled(w) ==
    /\ running = NoWriter /\ scope[w].kind # "none" /\ boot = "serves"
    /\ manual' = IF scope[w].kind = "outer" THEN FALSE ELSE manual
    /\ EndsScope(w) /\ shared' = shared \cup scope[w].rows
    /\ UNCHANGED <<tables, disk, wal, begun, ended, cuts>>

PowerCut ==
    /\ boot # "down" /\ cuts < MaxCuts /\ cuts' = cuts + 1
    /\ boot' = "down" /\ wal' = {} /\ begun' = FALSE /\ manual' = FALSE
    /\ running' = NoWriter /\ scope' = [w \in Writers |-> NoScope]
    /\ ended' = ended \cup {[how |-> "cut", rows |-> scope[w].rows] :
                             w \in {x \in Writers : scope[x].kind = "outer"}}
    /\ UNCHANGED <<version2, disk, hasOld, old, shared, v1>>

StoreNext ==
    \/ StartUp \/ RenameJournal \/ CreateJournal \/ CopyAndDropOld \/ SchemaReady
    \/ PowerCut
    \/ \E w \in Writers :
         \/ OpenScope(w) \/ AwaitInScope(w) \/ ResumeScope(w)
         \/ CloseScope(w) \/ ScopeRaises(w) \/ ScopeCancelled(w)
         \/ \E r \in Rows : WriteRow(w, r)

StoreSpec == StoreInit /\ [][StoreNext]_storeVars

-----------------------------------------------------------------------------
(* Properties.                                                             *)

\* Whatever statement the power fails at, a with-block that has the connection's
\* transaction to itself is on disk whole once it ended, and not at all when it
\* raised or was cut; so is a statement alone.  Rows of a block inside another
\* coroutine's, or of a cancelled one, share that one's fate.
BlocksAreAtomic ==
    \A e \in ended :
        /\ e.how = "done" => e.rows \subseteq disk \cup old
        /\ e.how # "done" /\ e.rows \cap shared = {} => e.rows \cap disk = {}

\* No power failure during the migration, nor the refusal to start that one leaves
\* behind, loses a row of the journal that recovery reads.
JournalRowsKept == v1 \subseteq disk \cup old

=============================================================================
