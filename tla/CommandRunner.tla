---------------------------- MODULE CommandRunner ---------------------------
(***************************************************************************)
(* DeviceCommandRunner (devices/command_policy.py): time-out, retry, replay*)
(* cache and fault reporting around every command of a simulated device.   *)
(* Callers are coroutines that share the runner; it takes no lock, so two  *)
(* calls with one idempotency key may run at once.  The device is seen     *)
(* through what it does in an attempt: it moves, or not, and answers,      *)
(* raises or is given up by asyncio.wait_for.                              *)
(***************************************************************************)
EXTENDS Naturals, Sequences, FiniteSets, SequencesExt

CONSTANTS
    Callers,
    Keys,           \* idempotency keys of one command
    Retries,        \* DeviceCommandPolicy.retry_count
    CacheSize,      \* _idempotency_cache_maxsize
    MaxCalls        \* bound: calls a caller makes

ASSUME RunnerAssumption ==
    Retries \in Nat /\ CacheSize \in Nat \ {0} /\ MaxCalls \in Nat

VARIABLES
    recent,         \* cached keys, the least recently used first
    cachedAnswer,   \* _idempotency_cache
    call,           \* what each caller runs: key and attempt, or nothing
    calls,          \* how many calls it made
    health,         \* DeviceHealth.state
    moves,          \* history: physical effects, by key
    excused         \* history: keys whose command timed out, broke, overlapped or was evicted

runnerVars == <<recent, cachedAnswer, call, calls, health, moves, excused>>

\* Results that are cached: a command that raises leaves none.
CachedAnswers == {"none", "done", "refused", "ambiguous"}
Idle == [key |-> "none", attempt |-> 0]

MaxAttempts == Retries + 1

Running(c) == call[c].attempt > 0

Cached(k) == cachedAnswer[k] # "none"

RunnerInit ==
    /\ recent = << >> /\ cachedAnswer = [k \in Keys |-> "none"]
    /\ call = [c \in Callers |-> Idle] /\ calls = [c \in Callers |-> 0]
    /\ health = "READY"
    /\ moves = [k \in Keys |-> 0] /\ excused = {}

\* OrderedDict.move_to_end, for a key that is new or not.
ToEnd(k) == Append(RemoveFirst(recent, k), k)

\* Mutant: what a command answered is not kept.
NotKept(k, answer) == UNCHANGED <<recent, cachedAnswer>> /\ excused' = excused

\* _cache_set
CacheSet(k, answer) ==
    LET order == ToEnd(k)
    IN  IF Len(order) <= CacheSize
        THEN /\ recent' = order
             /\ cachedAnswer' = [cachedAnswer EXCEPT ![k] = answer]
             /\ excused' = excused
        ELSE /\ recent' = Tail(order)
             /\ cachedAnswer' = [cachedAnswer EXCEPT ![k] = answer, ![Head(order)] = "none"]
             /\ excused' = excused \cup {Head(order)}

UncachedEnd(k) == UNCHANGED <<recent, cachedAnswer>>

Ends(c) == call' = [call EXCEPT ![c] = Idle]

-----------------------------------------------------------------------------
(* A key that is cached is answered from the cache, and the device is said *)
(* to be ready whatever the answer was.                                    *)

Replay(c, k) ==
    /\ ~Running(c) /\ calls[c] < MaxCalls /\ Cached(k)
    /\ calls' = [calls EXCEPT ![c] = @ + 1]
    /\ recent' = ToEnd(k) /\ health' = "READY"
    /\ UNCHANGED <<cachedAnswer, call, moves, excused>>

Execute(c, k) ==
    /\ ~Running(c) /\ calls[c] < MaxCalls /\ ~Cached(k)
    /\ calls' = [calls EXCEPT ![c] = @ + 1]
    /\ call' = [call EXCEPT ![c] = [key |-> k, attempt |-> 1]]
    /\ excused' = excused \cup {key \in {k} : \E d \in Callers : call[d].key = k}
    /\ UNCHANGED <<recent, cachedAnswer, health, moves>>

Moves(k) == moves' = [moves EXCEPT ![k] = @ + 1]
MayMove(k) == UNCHANGED moves \/ Moves(k)

Succeeds(c) ==
    LET k == call[c].key
    IN  /\ Running(c) /\ Moves(k)
        /\ CacheSet(k, "done") /\ health' = "READY" /\ Ends(c)
        /\ UNCHANGED calls

\* "continue": the next attempt of the loop.
TryAgain(c) ==
    /\ health' = "DEGRADED" /\ UNCHANGED <<recent, cachedAnswer>>
    /\ call' = [call EXCEPT ![c].attempt = @ + 1]

LastAttempt(c) == call[c].attempt = MaxAttempts

\* The device reports a fault code: a retryable one is tried again, any other
\* is a fault that is cached with its result.
AnswersFault(c, retryable) ==
    LET k == call[c].key
    IN  /\ Running(c)
        /\ IF retryable /\ ~LastAttempt(c)
           THEN TryAgain(c) /\ UNCHANGED excused
           ELSE CacheSet(k, "refused") /\ health' = "FAULT" /\ Ends(c)
        /\ UNCHANGED <<calls, moves>>

\* An ambiguous result, or one that reconciliation could not confirm.  It is
\* cached; with raise_on_ambiguous_result it is raised as well.
AnswersAmbiguous(c) ==
    LET k == call[c].key
    IN  /\ Running(c) /\ MayMove(k)
        /\ CacheSet(k, "ambiguous") /\ health' = "FAULT" /\ Ends(c)
        /\ UNCHANGED calls

\* wait_for gives up, or the operation raises a time-out: the device may have
\* moved, and the command is retryable.
TimesOut(c) ==
    LET k == call[c].key
    IN  /\ Running(c) /\ MayMove(k)
        /\ IF LastAttempt(c) THEN health' = "FAULT" /\ Ends(c) /\ UncachedEnd(k)
                             ELSE TryAgain(c)
        /\ excused' = excused \cup {k}
        /\ UNCHANGED calls

\* A DeviceCommandError of a command that had no effect.
RaisesCommandError(c, retryable) ==
    /\ Running(c)
    /\ IF retryable /\ ~LastAttempt(c) THEN TryAgain(c)
       ELSE health' = "FAULT" /\ Ends(c) /\ UncachedEnd(call[c].key)
    /\ UNCHANGED <<calls, moves, excused>>

\* Any other DeviceAdapterError is never tried again.
RaisesAdapterError(c) ==
    LET k == call[c].key
    IN  /\ Running(c) /\ MayMove(k)
        /\ health' = "FAULT" /\ Ends(c) /\ UncachedEnd(k)
        /\ excused' = excused \cup {k}
        /\ UNCHANGED calls

AttemptEnds(c) ==
    \/ Succeeds(c) \/ AnswersAmbiguous(c) \/ TimesOut(c) \/ RaisesAdapterError(c)
    \/ \E retryable \in BOOLEAN : AnswersFault(c, retryable) \/ RaisesCommandError(c, retryable)

RunnerNext ==
    \E c \in Callers :
        \/ \E k \in Keys : Replay(c, k) \/ Execute(c, k)
        \/ AttemptEnds(c)

RunnerSpec == RunnerInit /\ [][RunnerNext]_runnerVars

-----------------------------------------------------------------------------
(* Properties.                                                             *)

RunnerTypeOK ==
    /\ recent \in Seq(Keys) /\ cachedAnswer \in [Keys -> CachedAnswers]
    /\ call \in [Callers -> [key : Keys, attempt : 1 .. MaxAttempts] \cup {Idle}]
    /\ calls \in [Callers -> Nat] /\ health \in {"READY", "DEGRADED", "FAULT"}
    /\ moves \in [Keys -> Nat] /\ excused \subseteq Keys

\* Unless an attempt timed out or broke (its effect is unknown), two calls
\* overlapped, or the cache had to forget the answer, a command moves its
\* device at most once for its idempotency key, however often it is asked for
\* and whatever was retried, and the answer that is replayed is true: "done"
\* of a device that moved once, "refused" of one that never did.
OneMovePerKey ==
    \A k \in Keys \ excused :
        /\ moves[k] <= 1
        /\ cachedAnswer[k] = "done" => moves[k] = 1
        /\ cachedAnswer[k] = "refused" => moves[k] = 0

=============================================================================
