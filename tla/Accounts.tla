------------------------------- MODULE Accounts ------------------------------
(***************************************************************************)
(* What leaves the machine (integration/): the 1C client, which exports a  *)
(* sale in three attempts, keeps it when all three fail and later flushes  *)
(* what it kept, and the telemetry publisher, whose bounded buffer a loop  *)
(* flushes as one batch.  Nothing in the repository calls either yet; they *)
(* are driven here as their methods ask for: any number of exports, one    *)
(* flusher for each of Flushers, one telemetry loop.                       *)
(***************************************************************************)
EXTENDS Naturals, Sequences, FiniteSets, SequencesExt

CONSTANTS
    Finished,      \* sales to export
    Flushers,      \* coroutines that call flush_pending_sales
    MaxSyncs,      \* bound: other calls to 1C
    MaxFailures,   \* bound: posts the server does not confirm
    MaxEmitted,    \* bound: events told to the telemetry
    BufferSize     \* TelemetryConfig.max_buffer

ASSUME AccountsAssumption ==
    {MaxSyncs, MaxFailures, MaxEmitted} \subseteq Nat /\ BufferSize \in Nat \ {0}

VARIABLES
    exporting,  \* OneCConfig: enabled and export_sales
    export,     \* each sale: "unsold", "declined", "posting", "exported", "kept"; its attempts
    pending,    \* the lists _pending_sales has been, by creation; the last is current
    flush,      \* each flusher: its list, its place in it, how long it was, what is kept
    connected,  \* OneCSyncStatus
    syncs, failures,
    books,      \* external: the sales 1C has recorded
    emitted,    \* events so far
    buffer,     \* the deque of event numbers
    batch,      \* the batch being sent, << >> when none is
    delivered,  \* external: the events the server has
    filled      \* history: the buffer has been full

onecVars == <<exporting, export, pending, flush, connected, syncs, failures, books>>
telemetryVars == <<emitted, buffer, batch, delivered, filled>>
accountsVars == <<onecVars, telemetryVars>>

Attempts == 3     \* _MAX_ATTEMPTS

NoFlush == [list |-> 0, place |-> 0, began |-> 0, keeps |-> << >>]

AccountsTypeOK ==
    /\ exporting \in BOOLEAN
    /\ export \in [Finished -> [at : {"unsold", "declined", "posting", "exported", "kept"},
                                tries : 0 .. Attempts]]
    /\ pending \in Seq(Seq(Finished)) /\ pending # << >>
    /\ \A f \in Flushers : /\ flush[f].list \in 0 .. Len(pending)
                           /\ flush[f].keeps \in Seq(Finished)
    /\ connected \in BOOLEAN /\ syncs \in 0 .. MaxSyncs /\ failures \in 0 .. MaxFailures
    /\ books \subseteq Finished
    /\ emitted \in 0 .. MaxEmitted /\ Len(buffer) <= BufferSize /\ filled \in BOOLEAN
    /\ delivered \subseteq 1 .. emitted

AccountsInit ==
    /\ exporting \in BOOLEAN /\ export = [s \in Finished |-> [at |-> "unsold", tries |-> 0]]
    /\ pending = << << >> >> /\ flush = [f \in Flushers |-> NoFlush]
    /\ connected = FALSE /\ syncs = 0 /\ failures = 0 /\ books = {}
    /\ emitted = 0 /\ buffer = << >> /\ batch = << >> /\ delivered = {} /\ filled = FALSE

-----------------------------------------------------------------------------
(* 1C.                                                                     *)

\* One POST: confirmed; refused or unreachable; recorded with the answer
\* lost, which the client takes for a failure.
Post(sale, confirmed) ==
    \/ confirmed /\ books' = books \cup {sale} /\ UNCHANGED failures
    \/ /\ ~confirmed /\ failures < MaxFailures /\ failures' = failures + 1
       /\ books' \in {books, books \cup {sale}}

\* A client that does not export counts the sale as pending and keeps it nowhere.
DeclineExport(s) ==
    /\ ~exporting /\ export[s].at = "unsold"
    /\ export' = [export EXCEPT ![s] = [at |-> "declined", tries |-> 0]]
    /\ UNCHANGED <<exporting, pending, flush, connected, syncs, failures, books, telemetryVars>>

StartExport(s) ==
    /\ exporting /\ export[s].at = "unsold"
    /\ export' = [export EXCEPT ![s] = [at |-> "posting", tries |-> 1]]
    /\ UNCHANGED <<exporting, pending, flush, connected, syncs, failures, books, telemetryVars>>

\* The third failure appends the sale to whatever list is current then.
ExportSale(s) ==
    /\ export[s].at = "posting"
    /\ \/ Post(s, TRUE) /\ export' = [export EXCEPT ![s].at = "exported"] /\ UNCHANGED pending
       \/ /\ Post(s, FALSE)
          /\ IF export[s].tries < Attempts
                THEN export' = [export EXCEPT ![s].tries = @ + 1] /\ UNCHANGED pending
                ELSE /\ export' = [export EXCEPT ![s].at = "kept"]
                     /\ pending' = [pending EXCEPT ![Len(pending)] = Append(@, s)]
    /\ UNCHANGED <<exporting, flush, connected, syncs, telemetryVars>>

StartFlush(f) ==
    /\ flush[f] = NoFlush /\ Last(pending) # << >>
    /\ flush' = [flush EXCEPT ![f] = [list |-> Len(pending), place |-> 1,
                                      began |-> Len(Last(pending)), keeps |-> << >>]]
    /\ UNCHANGED <<exporting, export, pending, connected, syncs, failures, books, telemetryVars>>

\* Mutant: the loop runs over a copy, and what is kept meanwhile is not in it.
EndOfCopy(job) == job.began

\* The loop runs over the list itself, so it reaches what is appended meanwhile.
EndOfList(job) == Len(pending[job.list])

\* One turn of the loop; after the last, the sales it kept become a new list.
FlushPendingSales(f) ==
    LET job   == flush[f]
        sale  == pending[job.list][job.place]
        Keeps(confirmed) == IF confirmed THEN job.keeps ELSE Append(job.keeps, sale)
    IN  /\ job.list > 0
        /\ \E confirmed \in BOOLEAN :
              /\ Post(sale, confirmed)
              /\ IF job.place < EndOfList(job)
                    THEN /\ flush' = [flush EXCEPT ![f].place = @ + 1, ![f].keeps = Keeps(confirmed)]
                         /\ UNCHANGED pending
                    ELSE /\ flush' = [flush EXCEPT ![f] = NoFlush]
                         /\ pending' = Append(pending, Keeps(confirmed))
        /\ UNCHANGED <<exporting, export, connected, syncs, telemetryVars>>

\* health_check, of up to three attempts; the other calls only read or report.
HealthCheck ==
    /\ syncs < MaxSyncs /\ syncs' = syncs + 1 /\ connected' \in BOOLEAN
    /\ UNCHANGED <<exporting, export, pending, flush, failures, books, telemetryVars>>

-----------------------------------------------------------------------------
(* Telemetry.                                                              *)

\* A full deque drops its oldest entry.
HandleEvent ==
    /\ emitted < MaxEmitted /\ emitted' = emitted + 1
    /\ LET longer == Append(buffer, emitted')
       IN  /\ buffer' = IF Len(longer) > BufferSize THEN Tail(longer) ELSE longer
           /\ filled' = (filled \/ Len(longer) >= BufferSize)
    /\ UNCHANGED <<onecVars, batch, delivered>>

StartTelemetryFlush ==
    /\ batch = << >> /\ buffer # << >> /\ batch' = buffer
    /\ UNCHANGED <<onecVars, emitted, buffer, delivered, filled>>

RemoveOldest(n) == SubSeq(buffer, n + 1, Len(buffer))

\* A confirmed batch leaves from the left, whatever is there by now; one that
\* was refused stays; one whose sending raised is given up if the deque is full.
FinishTelemetryFlush ==
    /\ batch # << >> /\ batch' = << >>
    /\ \E outcome \in {"confirmed", "refused", "raised"} :
          /\ delivered' \in IF outcome = "confirmed" THEN {delivered \cup ToSet(batch)}
                            ELSE {delivered, delivered \cup ToSet(batch)}
          /\ buffer' = IF outcome = "confirmed" \/ (outcome = "raised" /\ Len(buffer) >= BufferSize)
                         THEN RemoveOldest(Len(batch)) ELSE buffer
    /\ UNCHANGED <<onecVars, emitted, filled>>

-----------------------------------------------------------------------------
OneCNext ==
    \/ \E s \in Finished : DeclineExport(s) \/ StartExport(s) \/ ExportSale(s)
    \/ \E f \in Flushers : StartFlush(f) \/ FlushPendingSales(f)
    \/ HealthCheck

TelemetryNext == HandleEvent \/ StartTelemetryFlush \/ FinishTelemetryFlush

\* The two share nothing.
AccountsNext == OneCNext \/ TelemetryNext

AccountsSpec == AccountsInit /\ [][AccountsNext]_accountsVars

\* A sale that a client set to export was given is never forgotten: while its export is not under
\* way it is in 1C's books, in the current list, or held by a flush that is
\* still at work, although exports append to the list a flush is replacing;
\* and as long as the telemetry buffer never filled up, an event that left it
\* reached the server, although events arrive while a batch is sent
\* (integration/1c/__init__.py:289-305, telemetry.py:71-91).
NothingForgotten ==
    /\ \A s \in Finished : export[s].at \in {"exported", "kept"} =>
          \/ s \in books
          \/ s \in ToSet(Last(pending))
          \/ \E f \in Flushers : flush[f].list > 0 /\ s \in ToSet(flush[f].keeps)
    /\ ~filled => 1 .. emitted \subseteq delivered \cup ToSet(buffer)

\* The configurations the first half is claimed for: two flushers that overlap send
\* a sale twice or lose one.
OneFlusher == \A f, g \in Flushers : f = g

=============================================================================
