--------------------------- MODULE Devices_proofs ---------------------------
(***************************************************************************)
(* How commands reach the devices, by safety proofs of the layers:         *)
(* the command runner that makes a retried command move once, the line of  *)
(* the Arduino that carries one command at a time, the exchange with the   *)
(* bill validator, and the faults of the simulator that stands in for the  *)
(* devices. Each is proved from an inductive invariant of its own, for any *)
(* callers, keys, cells, frames and plans of faults.                       *)
(***************************************************************************)
EXTENDS CommandRunner, ArduinoLink, ValidatorLink, Simulator, ChangeManager_proofs, SequenceTheorems,
        FiniteSetTheorems, TLAPS

(***************************************************************************)
(* The command runner.  OneMovePerKey is not inductive: the invariant also  *)
(* takes that a command under way has neither moved nor been cached, that   *)
(* one that moved is cached, and that no two callers run one key, all of it *)
(* for the keys that nothing excuses.                                       *)
(***************************************************************************)

RunnerTyped ==
    /\ cachedAnswer \in [Keys -> CachedAnswers]
    /\ call \in [Callers -> [key : Keys, attempt : Nat] \cup {Idle}]
    /\ moves \in [Keys -> Nat]

\* What is known of a key that nothing excuses.
Sound(k) ==
    /\ \A c, d \in Callers :
           Running(c) /\ Running(d) /\ call[c].key = k /\ call[d].key = k => c = d
    /\ \A c \in Callers : Running(c) /\ call[c].key = k => ~Cached(k) /\ moves[k] = 0
    /\ ~Cached(k) => moves[k] = 0
    /\ moves[k] <= 1
    /\ cachedAnswer[k] = "done" => moves[k] = 1
    /\ cachedAnswer[k] = "refused" => moves[k] = 0

RunnerInv == RunnerTyped /\ \A k \in Keys \ excused : Sound(k)

LEMMA RunnerStarts == RunnerInit => RunnerInv
BY RunnerAssumption DEF RunnerInit, RunnerInv, RunnerTyped, Sound, Running, Cached, Idle, CachedAnswers

\* A caller that runs is in a command of some key.
LEMMA RunsAKey ==
    ASSUME RunnerTyped, NEW c \in Callers, Running(c)
    PROVE  call[c].key \in Keys /\ call[c].attempt \in Nat
BY DEF RunnerTyped, Running, Idle

\* An answer that is kept: for every key that stays unexcused, the cache holds
\* what it held, or the new answer.
LEMMA CacheKeeps ==
    ASSUME RunnerTyped, NEW k \in Keys, NEW answer \in CachedAnswers, CacheSet(k, answer)
    PROVE  /\ cachedAnswer' \in [Keys -> CachedAnswers]
           /\ excused \subseteq excused'
           /\ \A x \in Keys \ excused' :
                  cachedAnswer'[x] = IF x = k THEN answer ELSE cachedAnswer[x]
<1> DEFINE order == ToEnd(k)
<1>1. CASE Len(order) <= CacheSize
    BY <1>1 DEF CacheSet, RunnerTyped
<1>2. CASE ~(Len(order) <= CacheSize)
    <2>1. /\ cachedAnswer' = [cachedAnswer EXCEPT ![k] = answer, ![Head(order)] = "none"]
          /\ excused' = excused \cup {Head(order)}
        BY <1>2 DEF CacheSet
    <2> HIDE DEF order
    <2> QED BY <2>1 DEF RunnerTyped, CachedAnswers
<1> QED BY <1>1, <1>2

\* A command that ends with an answer: it was the only one of its key, it had not
\* moved, and the answer tells what it did.
LEMMA AnswerKeeps ==
    ASSUME RunnerInv, NEW c \in Callers, Running(c), Ends(c),
           NEW answer \in CachedAnswers, answer # "none", CacheSet(call[c].key, answer),
           \/ moves' = [moves EXCEPT ![call[c].key] = @ + 1] /\ answer # "refused"
           \/ moves' = moves /\ answer # "done"
    PROVE  RunnerInv'
<1> DEFINE k == call[c].key
<1>1. k \in Keys
    BY RunsAKey DEF RunnerInv
<1>2. /\ cachedAnswer' \in [Keys -> CachedAnswers]
      /\ excused \subseteq excused'
      /\ \A x \in Keys \ excused' :
             cachedAnswer'[x] = IF x = k THEN answer ELSE cachedAnswer[x]
    BY <1>1, CacheKeeps DEF RunnerInv
<1>3. /\ call' \in [Callers -> [key : Keys, attempt : Nat] \cup {Idle}]
      /\ \A d \in Callers : call'[d] = IF d = c THEN Idle ELSE call[d]
    BY DEF Ends, RunnerInv, RunnerTyped
<1>4. /\ moves' \in [Keys -> Nat]
      /\ \A x \in Keys : x # k => moves'[x] = moves[x]
      /\ \/ moves'[k] = moves[k] + 1 /\ answer # "refused"
         \/ moves'[k] = moves[k] /\ answer # "done"
    BY <1>1 DEF RunnerInv, RunnerTyped
<1>5. ASSUME NEW x \in Keys \ excused' PROVE Sound(x)'
    <2>1. Sound(x)
        BY <1>2 DEF RunnerInv
    <2>2. \A d \in Callers : Running(d)' => Running(d) /\ d # c /\ call'[d] = call[d]
        BY <1>3 DEF Running, Idle
    <2>3. CASE x = k
        <3>1. moves[k] = 0 /\ \A d \in Callers : ~(Running(d)' /\ call'[d].key = k)
            BY <2>1, <2>2, <2>3 DEF Sound
        <3>2. cachedAnswer'[k] = answer
            BY <1>2, <2>3
        <3> QED BY <1>4, <2>3, <3>1, <3>2 DEF Sound, Cached
    <2>4. CASE x # k
        BY <1>2, <1>4, <2>1, <2>2, <2>4 DEF Sound, Cached
    <2> QED BY <2>3, <2>4
<1> QED BY <1>2, <1>3, <1>4, <1>5 DEF RunnerInv, RunnerTyped

\* A command whose device may have moved without the runner knowing is excused.
LEMMA ExcusedKeeps ==
    ASSUME RunnerInv, NEW c \in Callers, Running(c), MayMove(call[c].key),
           UNCHANGED <<recent, cachedAnswer>>, excused' = excused \cup {call[c].key},
           Ends(c) \/ call' = [call EXCEPT ![c].attempt = @ + 1]
    PROVE  RunnerInv'
<1> DEFINE k == call[c].key
<1>1. k \in Keys /\ call[c].attempt \in Nat
    BY RunsAKey DEF RunnerInv
<1>2. /\ call' \in [Callers -> [key : Keys, attempt : Nat] \cup {Idle}]
      /\ \A d \in Callers : d # c => call'[d] = call[d]
      /\ Running(c)' => call'[c].key = k
    BY <1>1 DEF Ends, RunnerInv, RunnerTyped, Running, Idle
<1>3. moves' \in [Keys -> Nat] /\ \A x \in Keys : x # k => moves'[x] = moves[x]
    BY <1>1 DEF MayMove, Moves, RunnerInv, RunnerTyped
<1>4. ASSUME NEW x \in Keys \ excused' PROVE Sound(x)'
    <2>1. Sound(x) /\ x # k
        BY DEF RunnerInv
    <2>2. \A d \in Callers :
              Running(d)' /\ call'[d].key = x => Running(d) /\ call[d].key = x
        BY <1>2, <2>1 DEF Running
    <2> QED BY <1>3, <2>1, <2>2 DEF Sound, Cached
<1> QED BY <1>2, <1>3, <1>4 DEF RunnerInv, RunnerTyped

\* A command that ends or is tried again, and moved nothing, is what it was.
LEMMA StillKeeps ==
    ASSUME RunnerInv, NEW c \in Callers, Running(c),
           UNCHANGED <<recent, cachedAnswer, moves, excused>>,
           Ends(c) \/ call' = [call EXCEPT ![c].attempt = @ + 1]
    PROVE  RunnerInv'
<1>1. call[c].key \in Keys /\ call[c].attempt \in Nat
    BY RunsAKey DEF RunnerInv
<1>2. /\ call' \in [Callers -> [key : Keys, attempt : Nat] \cup {Idle}]
      /\ \A d \in Callers : Running(d)' => Running(d) /\ call'[d].key = call[d].key
    BY <1>1 DEF Ends, RunnerInv, RunnerTyped, Running, Idle
<1>3. ASSUME NEW x \in Keys \ excused' PROVE Sound(x)'
    <2>1. Sound(x)
        BY DEF RunnerInv
    <2> QED BY <1>2, <2>1 DEF Sound, Cached
<1> QED BY <1>2, <1>3 DEF RunnerInv, RunnerTyped

LEMMA ReplayKeeps ==
    ASSUME RunnerInv, NEW c \in Callers, NEW k \in Keys, Replay(c, k)
    PROVE  RunnerInv'
BY DEF Replay, RunnerInv, RunnerTyped, Sound, Running, Cached

LEMMA ExecuteKeeps ==
    ASSUME RunnerInv, NEW c \in Callers, NEW k \in Keys, Execute(c, k)
    PROVE  RunnerInv'
<1>1. /\ call' \in [Callers -> [key : Keys, attempt : Nat] \cup {Idle}]
      /\ \A d \in Callers : d # c => call'[d] = call[d]
      /\ call'[c].key = k
    BY DEF Execute, RunnerInv, RunnerTyped
<1>2. /\ UNCHANGED <<cachedAnswer, moves>> /\ ~Cached(k) /\ excused \subseteq excused'
      /\ k \notin excused' => \A d \in Callers : call[d].key # k
    BY DEF Execute
<1>3. ASSUME NEW x \in Keys \ excused' PROVE Sound(x)'
    <2>1. Sound(x)
        BY <1>2 DEF RunnerInv
    <2>2. CASE x = k
        <3>1. \A d \in Callers : d # c => call'[d].key # k
            BY <1>1, <1>2, <2>2
        <3> QED BY <1>2, <2>1, <2>2, <3>1 DEF Sound, Cached
    <2>3. CASE x # k
        <3>1. \A d \in Callers :
                  Running(d)' /\ call'[d].key = x => Running(d) /\ call[d].key = x
            BY <1>1, <2>3 DEF Running
        <3> QED BY <1>2, <2>1, <3>1 DEF Sound, Cached
    <2> QED BY <2>2, <2>3
<1> QED BY <1>1, <1>2, <1>3 DEF RunnerInv, RunnerTyped

LEMMA RunnerKept == RunnerInv /\ [RunnerNext]_runnerVars => RunnerInv'
<1> SUFFICES ASSUME RunnerInv, [RunnerNext]_runnerVars PROVE RunnerInv'
    OBVIOUS
<1>1. ASSUME NEW c \in Callers, NEW k \in Keys, Replay(c, k) \/ Execute(c, k)
      PROVE  RunnerInv'
    BY <1>1, ReplayKeeps, ExecuteKeeps
<1>2. ASSUME NEW c \in Callers, Succeeds(c) PROVE RunnerInv'
    BY <1>2, AnswerKeeps DEF Succeeds, Moves, CachedAnswers
<1>3. ASSUME NEW c \in Callers, AnswersAmbiguous(c) PROVE RunnerInv'
    BY <1>3, AnswerKeeps DEF AnswersAmbiguous, MayMove, Moves, CachedAnswers
<1>4. ASSUME NEW c \in Callers, TimesOut(c) PROVE RunnerInv'
    BY <1>4, ExcusedKeeps DEF TimesOut, TryAgain, UncachedEnd
<1>5. ASSUME NEW c \in Callers, RaisesAdapterError(c) PROVE RunnerInv'
    BY <1>5, ExcusedKeeps DEF RaisesAdapterError, UncachedEnd
<1>6. ASSUME NEW c \in Callers, NEW retryable \in BOOLEAN, AnswersFault(c, retryable)
      PROVE  RunnerInv'
    <2>1. CASE retryable /\ ~LastAttempt(c)
        BY <1>6, <2>1, StillKeeps DEF AnswersFault, TryAgain
    <2>2. CASE ~(retryable /\ ~LastAttempt(c))
        BY <1>6, <2>2, AnswerKeeps DEF AnswersFault, CachedAnswers
    <2> QED BY <2>1, <2>2
<1>7. ASSUME NEW c \in Callers, NEW retryable \in BOOLEAN, RaisesCommandError(c, retryable)
      PROVE  RunnerInv'
    BY <1>7, StillKeeps DEF RaisesCommandError, TryAgain, UncachedEnd
<1>8. CASE UNCHANGED runnerVars
    BY <1>8 DEF runnerVars, RunnerInv, RunnerTyped, Sound, Running, Cached
<1> QED BY <1>1, <1>2, <1>3, <1>4, <1>5, <1>6, <1>7, <1>8 DEF RunnerNext, AttemptEnds

\* However often a command is asked for, retried and replayed, by however many
\* coroutines, it moves its device at most once for its key and is answered
\* truly, unless a time-out, an overlap or the cache's limit excuses the key.
THEOREM MovesOnce == RunnerSpec => []OneMovePerKey
<1>1. RunnerSpec => []RunnerInv
    BY RunnerStarts, RunnerKept, PTL DEF RunnerSpec
<1>2. RunnerInv => OneMovePerKey
    BY DEF RunnerInv, Sound, OneMovePerKey
<1> QED BY <1>1, <1>2, PTL

(***************************************************************************)
(* The Arduino.  At most one client has the line, which carries nothing, its *)
(* command or the answer to it; and the door the client remembers differs   *)
(* from the real one only by an answer that is not read yet.                *)
(***************************************************************************)

BoardLineCommands == [cmd : BoardCommands, id : Nat]
BoardLines == [line : {"OK", "text"}, of : Nat]
ClientStates == [at : {"idle", "queued", "reading"}, cmd : BoardCommands, id : Nat, lines : Seq(Nat)]

BoardTyped ==
    /\ port \in {"closed", "open"} /\ strays \in {0, 1} /\ asked \in Nat
    /\ client \in [Clients -> ClientStates]
    /\ toBoard \in Seq(BoardLineCommands)
    /\ fromBoard \in Seq(BoardLines)
    /\ door \in BOOLEAN /\ position \in {"open", "closed"}
    /\ overlapped \in BOOLEAN /\ restarted \in BOOLEAN /\ unsure \in BOOLEAN

Reads(c) == client[c].at = "reading"
OneReader == \A c, d \in Clients : Reads(c) /\ Reads(d) => c = d
ReadersHavePort == \A c \in Clients : Reads(c) => port = "open"

\* The line carries nothing, a command, or the answer to it.
Carries(command) ==
    \/ toBoard = <<>> /\ fromBoard = <<>>
    \/ toBoard = <<command>> /\ fromBoard = <<>>
    \/ toBoard = <<>> /\ fromBoard = <<[line |-> "OK", of |-> command.id]>>

CommandOf(c) == [cmd |-> client[c].cmd, id |-> client[c].id]

\* While no command was sent over an earlier one and the board did not restart,
\* one command at most is on the line, and it is the one that is read for.
LineInvariant ==
    ~overlapped /\ ~restarted =>
        /\ \E command \in BoardLineCommands : Carries(command)
        /\ \A c \in Clients : Reads(c) => Carries(CommandOf(c)) /\ client[c].lines = <<>>

\* One task moves things, and asks for a slot only with the window shut.
OneMover == \A c, d \in Clients : Moving(c) /\ Moving(d) => c = d
SlotsBehindShutWindow ==
    \A c \in Clients : client[c].at # "idle" /\ client[c].cmd = "VEND_SLOT" => position = "closed"

\* A command that is not sent yet has read nothing.
NothingReadYet == \A c \in Clients : client[c].at = "queued" => client[c].lines = <<>>

OneTaskEach ==
    OneReader /\ ReadersHavePort /\ OneMover /\ SlotsBehindShutWindow /\ NothingReadYet

DoorRemembered == position = "open" <=> door

\* What the line and the door owe the command that c reads for: the board has yet
\* to carry it out, or did, and the answer that says so is still to be read.
Owed(c) ==
    /\ client[c].lines = <<>>
    /\ \/ toBoard = <<CommandOf(c)>> /\ fromBoard = <<>> /\ DoorRemembered
       \/ /\ toBoard = <<>> /\ fromBoard = <<[line |-> "OK", of |-> client[c].id]>>
          /\ Remembered(client[c].cmd) = "open" <=> door

\* While no command was given up on and the board did not restart, the door and
\* what is remembered of it differ only by the answer that is still unread.
WindowInvariant ==
    ~unsure /\ ~restarted =>
        /\ strays = 0
        /\ (\A c \in Clients : ~Reads(c)) => toBoard = <<>> /\ DoorRemembered
        /\ \A c \in Clients : Reads(c) => Owed(c)

BoardInvariant ==
    /\ BoardTyped /\ OneTaskEach /\ LineInvariant /\ OwnAnswers /\ WindowInvariant

LEMMA NothingOnTheLine == /\ <<>> \in Seq(BoardLineCommands) /\ <<>> \in Seq(BoardLines) /\ Idling \in ClientStates
<1>1. <<>> \in Seq(Nat) /\ <<>> \in Seq(BoardLineCommands) /\ <<>> \in Seq(BoardLines)
    BY EmptySeq
<1> QED BY <1>1 DEF Idling, ClientStates, BoardCommands

LEMMA OneOnTheLine ==
    ASSUME NEW x
    PROVE  /\ Head(<<x>>) = x /\ Tail(<<x>>) = <<>> /\ <<x>> # <<>>
           /\ Append(<<>>, x) = <<x>>
OBVIOUS

LEMMA BoardStarts == ArduinoInit => BoardInvariant
<1> SUFFICES ASSUME ArduinoInit PROVE BoardInvariant
    OBVIOUS
<1>1. BoardTyped
    BY NothingOnTheLine DEF ArduinoInit, BoardTyped
<1>2. \A c \in Clients : client[c].at = "idle"
    BY DEF ArduinoInit, Idling
<1>3. [cmd |-> "STATUS", id |-> 0] \in BoardLineCommands
    BY DEF BoardLineCommands, BoardCommands
<1>4. LineInvariant
    BY <1>2, <1>3 DEF ArduinoInit, LineInvariant, Carries, Reads
<1> QED BY <1>1, <1>2, <1>4 DEF ArduinoInit, BoardInvariant, OneTaskEach, OneReader, ReadersHavePort, OneMover,
   SlotsBehindShutWindow, NothingReadYet, OwnAnswers, WindowInvariant, Reads, Moving, DoorRemembered

LEMMA BoardTypedKept == BoardTyped /\ [ArduinoNext]_arduinoVars => BoardTyped'
<1> SUFFICES ASSUME BoardTyped, [ArduinoNext]_arduinoVars PROVE BoardTyped'
    OBVIOUS
<1>1. CASE OpenPort \/ ClosePort
    BY <1>1, NothingOnTheLine DEF OpenPort, ClosePort, BoardTyped
<1>11. CASE StartWindow
    BY <1>11 DEF StartWindow, BoardTyped
<1>2. CASE StrayReads
    <2>1. fromBoard' \in Seq(BoardLines)
        BY <1>2, HeadTailProperties DEF StrayReads, BoardTyped
    <2> QED BY <1>2, <2>1 DEF StrayReads, BoardTyped
<1>3. CASE BoardExecutes
    <2>1. Head(toBoard) \in BoardLineCommands /\ Tail(toBoard) \in Seq(BoardLineCommands)
        BY <1>3, HeadTailProperties DEF BoardExecutes, BoardTyped
    <2>2. [line |-> "OK", of |-> Head(toBoard).id] \in BoardLines
        BY <2>1 DEF BoardLineCommands, BoardLines
    <2>3. fromBoard' \in Seq(BoardLines)
        BY <1>3, <2>2, AppendProperties DEF BoardExecutes, BoardTyped
    <2> QED BY <1>3, <2>1, <2>3 DEF BoardExecutes, BoardTyped, DoorAfter
<1>4. CASE BoardResets
    <2>1. fromBoard' \in Seq(BoardLines)
        BY <1>4, AppendProperties DEF BoardResets, BoardTyped, BoardLines, BootLine
    <2> QED BY <1>4, <2>1, NothingOnTheLine DEF BoardResets, BoardTyped
<1>5. ASSUME NEW c \in Clients, NEW cmd \in BoardCommands, Ask(c, cmd) PROVE BoardTyped'
    <2>1. [at |-> "queued", cmd |-> cmd, id |-> asked + 1, lines |-> <<>>] \in ClientStates
        BY EmptySeq DEF ClientStates, BoardTyped
    <2> QED BY <1>5, <2>1 DEF Ask, BoardTyped
<1>6. ASSUME NEW c \in Clients, Send(c) PROVE BoardTyped'
    <2>1. client[c] \in ClientStates
        BY DEF BoardTyped
    <2>2. [client[c] EXCEPT !.at = "reading"] \in ClientStates /\ CommandOf(c) \in BoardLineCommands
        BY <2>1 DEF ClientStates, BoardLineCommands, CommandOf
    <2>3. toBoard' \in Seq(BoardLineCommands)
        BY <1>6, <2>2, AppendProperties DEF Send, BoardTyped, CommandOf
    <2> QED BY <1>6, <2>2, <2>3, NothingOnTheLine DEF Send, BoardTyped
<1>7. ASSUME NEW c \in Clients, SendFails(c) PROVE BoardTyped'
    BY <1>7, NothingOnTheLine DEF SendFails, BoardTyped
<1>8. ASSUME NEW c \in Clients, ReadsLine(c) PROVE BoardTyped'
    <2>1. Head(fromBoard) \in BoardLines /\ fromBoard' \in Seq(BoardLines)
        BY <1>8, HeadTailProperties DEF ReadsLine, BoardTyped
    <2>2. client[c] \in ClientStates
        BY DEF BoardTyped
    <2>3. [client[c] EXCEPT !.lines = Append(@, Head(fromBoard).of)] \in ClientStates
        <3>1. Append(client[c].lines, Head(fromBoard).of) \in Seq(Nat)
            BY <2>1, <2>2, AppendProperties DEF BoardLines, ClientStates
        <3> QED BY <2>2, <3>1 DEF ClientStates
    <2> QED BY <1>8, <2>1, <2>3, NothingOnTheLine DEF ReadsLine, Return, Remembered, BoardTyped
<1>9. ASSUME NEW c \in Clients, TimesUp(c) PROVE BoardTyped'
    BY <1>9, NothingOnTheLine DEF TimesUp, Return, Remembered, BoardTyped
<1>10. CASE UNCHANGED arduinoVars
    BY <1>10 DEF arduinoVars, BoardTyped
<1> QED BY <1>1, <1>2, <1>3, <1>4, <1>5, <1>6, <1>7, <1>8, <1>9, <1>10, <1>11 DEF ArduinoNext

\* A command that ends leaves its task idle and the others as they are; what is
\* remembered afterwards is what it was if another one is still moving.
LEMMA EndKeepsOneTask ==
    ASSUME BoardTyped, OneTaskEach, NEW c \in Clients, client[c].at # "idle",
           client' = [client EXCEPT ![c] = Idling], port' = port,
           position' \in {position, Remembered(client[c].cmd)}
    PROVE  OneTaskEach'
<1>1. \A d \in Clients : client'[d] = IF d = c THEN Idling ELSE client[d]
    BY DEF BoardTyped
<1>2. \A d \in Clients : client'[d].at # "idle" => d # c /\ client'[d] = client[d]
    BY <1>1 DEF Idling
<1>3. OneReader' /\ ReadersHavePort' /\ OneMover' /\ NothingReadYet'
    BY <1>2 DEF OneTaskEach, OneReader, ReadersHavePort, OneMover, NothingReadYet, Reads, Moving
<1>4. ASSUME NEW d \in Clients, client'[d].at # "idle", client'[d].cmd = "VEND_SLOT"
      PROVE  position' = "closed"
    <2>1. d # c /\ client[d].at # "idle" /\ client[d].cmd = "VEND_SLOT"
        BY <1>2, <1>4
    <2>2. position = "closed" /\ ~Moving(c)
        BY <2>1 DEF OneTaskEach, OneMover, SlotsBehindShutWindow, Moving
    <2> QED BY <2>2 DEF Moving, Remembered
<1> QED BY <1>3, <1>4 DEF OneTaskEach, SlotsBehindShutWindow

LEMMA OneTaskKept ==
    ASSUME BoardTyped, OneTaskEach, [ArduinoNext]_arduinoVars
    PROVE  OneTaskEach'
<1>7. CASE StartWindow
    BY <1>7 DEF StartWindow, OneTaskEach, OneReader, ReadersHavePort, OneMover, SlotsBehindShutWindow,
           NothingReadYet, Reads, Moving
<1>1. CASE OpenPort \/ ClosePort \/ StrayReads \/ BoardExecutes \/ BoardResets
           \/ UNCHANGED arduinoVars
    <2>1. UNCHANGED <<client, position>> /\ (port' = port \/ \A c \in Clients : ~Reads(c))
        BY <1>1 DEF OpenPort, ClosePort, StrayReads, BoardExecutes, BoardResets, arduinoVars,
           OneTaskEach, ReadersHavePort, Reads
    <2> QED BY <2>1 DEF OneTaskEach, OneReader, ReadersHavePort, OneMover, SlotsBehindShutWindow,
           NothingReadYet, Reads, Moving
<1>2. ASSUME NEW c \in Clients, NEW cmd \in BoardCommands, Ask(c, cmd) PROVE OneTaskEach'
    <2>1. /\ \A d \in Clients : d # c => client'[d] = client[d]
          /\ client'[c].at = "queued" /\ client'[c].cmd = cmd /\ client'[c].lines = <<>>
        BY <1>2 DEF Ask, BoardTyped
    <2> QED BY <1>2, <2>1 DEF Ask, OneTaskEach, OneReader, ReadersHavePort, OneMover,
           SlotsBehindShutWindow, NothingReadYet, Reads, Moving
<1>3. ASSUME NEW c \in Clients, Send(c) PROVE OneTaskEach'
    <2>1. client[c] \in ClientStates
        BY DEF BoardTyped
    <2>2. /\ \A d \in Clients : d # c => client'[d] = client[d]
          /\ client'[c].at = "reading" /\ client'[c].cmd = client[c].cmd
        BY <1>3, <2>1 DEF Send, BoardTyped, ClientStates
    <2> QED BY <1>3, <2>2 DEF Send, LineIsFree, OneTaskEach, OneReader, ReadersHavePort, OneMover,
           SlotsBehindShutWindow, NothingReadYet, Reads, Moving
<1>4. ASSUME NEW c \in Clients, SendFails(c) PROVE OneTaskEach'
    BY <1>4, EndKeepsOneTask DEF SendFails
<1>5. ASSUME NEW c \in Clients, ReadsLine(c) PROVE OneTaskEach'
    <2>1. CASE Return(c, Head(fromBoard).of)
        BY <1>5, <2>1, EndKeepsOneTask DEF ReadsLine, Return
    <2>2. CASE ~Return(c, Head(fromBoard).of)
        <3>1. client[c] \in ClientStates
            BY DEF BoardTyped
        <3>2. /\ client' = [client EXCEPT ![c].lines = Append(@, Head(fromBoard).of)]
              /\ UNCHANGED <<port, position>>
            BY <1>5, <2>2 DEF ReadsLine
        <3>3. \A d \in Clients : client'[d].at = client[d].at /\ client'[d].cmd = client[d].cmd
            BY <3>1, <3>2 DEF BoardTyped, ClientStates
        <3>4. client[c].at = "reading"
            BY <1>5 DEF ReadsLine
        <3>5. \A d \in Clients : d # c => client'[d] = client[d]
            BY <3>2 DEF BoardTyped
        <3> QED BY <3>2, <3>3, <3>4, <3>5 DEF OneTaskEach, OneReader, ReadersHavePort, OneMover, SlotsBehindShutWindow,
               NothingReadYet, Reads, Moving
    <2> QED BY <2>1, <2>2
<1>6. ASSUME NEW c \in Clients, TimesUp(c) PROVE OneTaskEach'
    BY <1>6, EndKeepsOneTask DEF TimesUp, Return
<1> QED BY <1>1, <1>2, <1>3, <1>4, <1>5, <1>6, <1>7 DEF ArduinoNext

\* What went wrong once is not forgotten.
LEMMA OutcomesStick ==
    ASSUME BoardTyped, [ArduinoNext]_arduinoVars
    PROVE  (overlapped => overlapped') /\ (restarted => restarted') /\ (unsure => unsure')
<1>1. ASSUME NEW c \in Clients, Send(c) \/ TimesUp(c)
      PROVE  (overlapped => overlapped') /\ restarted' = restarted /\ (unsure => unsure')
    BY <1>1 DEF Send, TimesUp, BoardTyped
<1>2. ASSUME NEW c \in Clients, (\E cmd \in BoardCommands : Ask(c, cmd)) \/ SendFails(c) \/ ReadsLine(c)
      PROVE  UNCHANGED <<overlapped, restarted, unsure>>
    BY <1>2 DEF Ask, SendFails, ReadsLine
<1>3. CASE \/ StartWindow \/ OpenPort \/ ClosePort \/ StrayReads \/ BoardExecutes \/ BoardResets
           \/ UNCHANGED arduinoVars
    BY <1>3 DEF StartWindow, OpenPort, ClosePort, StrayReads, BoardExecutes, BoardResets, arduinoVars, BoardTyped
<1> QED BY <1>1, <1>2, <1>3 DEF ArduinoNext

\* The line as it is when it has a command on it, or an answer.
LEMMA LineStaysOwn ==
    ASSUME BoardTyped, OneTaskEach, LineInvariant, OwnAnswers, [ArduinoNext]_arduinoVars
    PROVE  LineInvariant' /\ OwnAnswers'
<1> SUFFICES ASSUME ~overlapped', ~restarted' PROVE LineInvariant' /\ OwnAnswers'
    BY DEF LineInvariant, OwnAnswers
<1>1. ~overlapped /\ ~restarted
    BY OutcomesStick
<1>2. PICK command \in BoardLineCommands : Carries(command)
    BY <1>1 DEF LineInvariant
<1>3. /\ \A c \in Clients : Reads(c) => Carries(CommandOf(c)) /\ client[c].lines = <<>>
      /\ \A r \in returned : r.of = r.id /\ r.made = "reported"
    BY <1>1 DEF LineInvariant, OwnAnswers
<1> DEFINE Safe == /\ \E m \in BoardLineCommands : Carries(m)
                   /\ \A c \in Clients : Reads(c) => Carries(CommandOf(c)) /\ client[c].lines = <<>>
           Own == \A r \in returned : r.of = r.id /\ r.made = "reported"
<1> SUFFICES Safe' /\ Own'
    BY DEF LineInvariant, OwnAnswers
<1>4. CASE OpenPort
    <2>1. \A c \in Clients : ~Reads(c)
        BY <1>4 DEF OpenPort, OneTaskEach, ReadersHavePort
    <2> QED BY <1>2, <1>3, <1>4, <2>1 DEF OpenPort, Carries, Reads
<1>5. CASE ClosePort
    BY <1>2, <1>3, <1>5 DEF ClosePort, Carries, Reads
<1>16. CASE StartWindow
    BY <1>2, <1>3, <1>16 DEF StartWindow, Carries, Reads, CommandOf
<1>6. CASE BoardExecutes
    <2>1. /\ toBoard = <<command>> /\ fromBoard' = <<[line |-> "OK", of |-> command.id]>>
          /\ toBoard' = <<>>
        BY <1>2, <1>6, OneOnTheLine DEF BoardExecutes, Carries
    <2>2. \A c \in Clients : Reads(c) => command.id = client[c].id
        BY <1>3, <2>1 DEF Carries, CommandOf
    <2> QED BY <1>3, <1>6, <2>1, <2>2 DEF BoardExecutes, Carries, Reads, CommandOf
<1>7. CASE StrayReads
    <2>1. fromBoard' = <<>>
        BY <1>2, <1>7 DEF StrayReads, Carries
    <2> QED BY <1>2, <1>3, <1>7, <2>1 DEF StrayReads, Carries, Reads, CommandOf
<1>8. CASE BoardResets
    BY <1>8 DEF BoardResets
<1>9. ASSUME NEW c \in Clients, NEW cmd \in BoardCommands, Ask(c, cmd)
      PROVE  Safe' /\ returned' = returned
    <2>1. \A d \in Clients : Reads(d)' => Reads(d) /\ client'[d] = client[d]
        BY <1>9 DEF Ask, Reads, BoardTyped
    <2> QED BY <1>2, <1>3, <1>9, <2>1 DEF Ask, Carries, CommandOf
<1>10. ASSUME NEW c \in Clients, Send(c)
       PROVE  Safe' /\ returned' = returned
    <2>1. client[c] \in ClientStates
        BY DEF BoardTyped
    <2>2. CommandOf(c) \in BoardLineCommands
        BY <2>1 DEF ClientStates, BoardLineCommands, CommandOf
    <2>3. toBoard' = <<CommandOf(c)>> /\ fromBoard' = <<>> /\ returned' = returned
        <3>1. toBoard = <<>>
            BY <1>10 DEF Send, BoardTyped
        <3> QED BY <1>10, <3>1, OneOnTheLine DEF Send, CommandOf
    <2>4. \A d \in Clients :
              Reads(d)' => d = c /\ CommandOf(d)' = CommandOf(c) /\ client'[d].lines = <<>>
        BY <1>10, <2>1 DEF Send, LineIsFree, Reads, CommandOf, BoardTyped, ClientStates, OneTaskEach,
           NothingReadYet
    <2> QED BY <2>2, <2>3, <2>4 DEF Carries
<1>11. ASSUME NEW c \in Clients, client' = [client EXCEPT ![c] = Idling]
       PROVE  \A d \in Clients : Reads(d)' => Reads(d) /\ client'[d] = client[d]
    BY <1>11 DEF Reads, BoardTyped, Idling
<1>12. ASSUME NEW c \in Clients, SendFails(c)
       PROVE  Safe' /\ returned' = returned
    <2>1. \A d \in Clients : Reads(d)' => Reads(d) /\ client'[d] = client[d]
        BY <1>11, <1>12 DEF SendFails
    <2> QED BY <1>2, <1>3, <1>12, <2>1 DEF SendFails, Carries, CommandOf
<1>13. ASSUME NEW c \in Clients, ReadsLine(c)
       PROVE  Safe' /\ Own'
    <2>1. /\ toBoard = <<>> /\ fromBoard = <<[line |-> "OK", of |-> client[c].id]>>
          /\ toBoard' = <<>> /\ fromBoard' = <<>>
        <3>1. Carries(CommandOf(c)) /\ fromBoard # <<>>
            BY <1>3, <1>13 DEF ReadsLine, Reads
        <3>2. toBoard = <<>> /\ fromBoard = <<[line |-> "OK", of |-> client[c].id]>>
            BY <3>1 DEF Carries, CommandOf
        <3> QED BY <1>13, <3>2, OneOnTheLine DEF ReadsLine
    <2>2. Return(c, client[c].id)
        BY <1>13, <2>1, OneOnTheLine DEF ReadsLine
    <2>3. \A d \in Clients : Reads(d)' => Reads(d) /\ client'[d] = client[d]
        BY <1>11, <2>2 DEF Return
    <2>4. Safe'
        BY <1>2, <1>3, <2>1, <2>3 DEF Carries
    <2>5. Own'
        <3>1. returned' = returned \cup {[id |-> client[c].id, of |-> client[c].id, made |-> "reported"]}
            BY <2>2 DEF Return, Reading
        <3> QED BY <1>3, <3>1
    <2> QED BY <2>4, <2>5
<1>14. ASSUME NEW c \in Clients, TimesUp(c)
       PROVE  Safe' /\ returned' = returned
    <2>1. client' = [client EXCEPT ![c] = Idling] /\ returned' = returned
        BY <1>3, <1>14 DEF TimesUp, Reads
    <2>2. \A d \in Clients : Reads(d)' => Reads(d) /\ client'[d] = client[d]
        BY <1>11, <2>1
    <2> QED BY <1>2, <1>3, <1>14, <2>1, <2>2 DEF TimesUp, Carries, CommandOf
<1>15. CASE UNCHANGED arduinoVars
    BY <1>2, <1>3, <1>15 DEF arduinoVars, Carries, Reads, CommandOf
<1> QED BY <1>3, <1>4, <1>5, <1>6, <1>7, <1>8, <1>9, <1>10, <1>12, <1>13, <1>14, <1>15,
           <1>16 DEF ArduinoNext

\* A command that did not reach the board, or whose answer is read: nothing is
\* on the line then, and the door is the one that is remembered.
LEMMA WindowKept ==
    ASSUME BoardTyped, OneTaskEach, WindowInvariant, [ArduinoNext]_arduinoVars
    PROVE  WindowInvariant'
<1> SUFFICES ASSUME ~unsure', ~restarted' PROVE WindowInvariant'
    BY DEF WindowInvariant
<1>1. ~unsure /\ ~restarted
    BY OutcomesStick
<1> DEFINE Safe == /\ strays = 0
                   /\ (\A c \in Clients : ~Reads(c)) => toBoard = <<>> /\ DoorRemembered
                   /\ \A c \in Clients : Reads(c) => Owed(c)
<1> SUFFICES Safe'
    BY DEF WindowInvariant
<1>2. Safe
    BY <1>1 DEF WindowInvariant
<1> HIDE DEF Safe
<1>3. CASE OpenPort
    <2>1. \A c \in Clients : ~Reads(c)
        BY <1>3 DEF OpenPort, OneTaskEach, ReadersHavePort
    <2> QED BY <1>2, <1>3, <2>1 DEF OpenPort, Safe, Reads, DoorRemembered
<1>4. CASE ClosePort
    BY <1>2, <1>4 DEF ClosePort, Safe, Reads, DoorRemembered
<1>14. CASE StartWindow
    BY <1>2, <1>14 DEF StartWindow, Safe, Reads, DoorRemembered
<1>5. CASE BoardExecutes
    <2>1. PICK c \in Clients : Reads(c) /\ Owed(c)
        BY <1>2, <1>5 DEF BoardExecutes, Safe
    <2>2. /\ toBoard = <<CommandOf(c)>> /\ fromBoard = <<>> /\ DoorRemembered
          /\ client[c].lines = <<>>
        BY <1>5, <2>1 DEF BoardExecutes, Owed
    <2>3. /\ toBoard' = <<>> /\ fromBoard' = <<[line |-> "OK", of |-> client[c].id]>>
          /\ door' = DoorAfter(client[c].cmd) /\ UNCHANGED <<client, position, strays>>
        BY <1>5, <2>2, OneOnTheLine DEF BoardExecutes, CommandOf
    <2>4. client[c] \in ClientStates /\ client[c].at # "idle"
        BY <2>1 DEF BoardTyped, Reads
    <2>5. Remembered(client[c].cmd) = "open" <=> door'
        BY <2>2, <2>3, <2>4 DEF DoorAfter, Remembered, DoorRemembered, ClientStates, BoardCommands,
           OneTaskEach, SlotsBehindShutWindow
    <2>6. Owed(c)' /\ \A d \in Clients : Reads(d)' => d = c
        BY <2>1, <2>2, <2>3, <2>5 DEF Owed, Remembered, Reads, OneTaskEach, OneReader
    <2> QED BY <1>2, <2>1, <2>3, <2>6 DEF Safe, Reads
<1>6. CASE BoardResets
    BY <1>6 DEF BoardResets
<1>7. CASE StrayReads
    BY <1>2, <1>7 DEF StrayReads, Safe
<1>8. ASSUME NEW c \in Clients, NEW cmd \in BoardCommands, Ask(c, cmd) PROVE Safe'
    <2>1. \A d \in Clients : (Reads(d)' <=> Reads(d)) /\ (Reads(d) => client'[d] = client[d])
        BY <1>8 DEF Ask, Reads, BoardTyped
    <2> QED BY <1>2, <1>8, <2>1 DEF Ask, Safe, Owed, CommandOf, Remembered, DoorRemembered
<1>9. ASSUME NEW c \in Clients, Send(c) PROVE Safe'
    <2>1. toBoard = <<>> /\ DoorRemembered /\ \A d \in Clients : ~Reads(d)
        BY <1>2, <1>9 DEF Send, LineIsFree, Safe, Reads
    <2>2. client[c] \in ClientStates /\ client[c].lines = <<>>
        BY <1>9 DEF BoardTyped, Send, OneTaskEach, NothingReadYet
    <2>3. toBoard' = <<CommandOf(c)>> /\ fromBoard' = <<>>
        BY <1>9, <2>1, OneOnTheLine DEF Send, CommandOf
    <2>4. \A d \in Clients : Reads(d)' => d = c
        BY <1>9, <2>1 DEF Send, Reads, BoardTyped
    <2>5. Reads(c)' /\ CommandOf(c)' = CommandOf(c) /\ client'[c].lines = <<>>
        BY <1>9, <2>2 DEF Send, Reads, CommandOf, BoardTyped, ClientStates
    <2>6. Owed(c)'
        BY <1>9, <2>1, <2>3, <2>5 DEF Send, Owed, DoorRemembered
    <2> QED BY <1>2, <1>9, <2>4, <2>5, <2>6 DEF Send, Safe
<1>10. ASSUME NEW c \in Clients, SendFails(c) PROVE Safe'
    <2>1. \A d \in Clients : ~Reads(d) /\ ~Reads(d)'
        BY <1>10 DEF SendFails, LineIsFree, Reads, BoardTyped, Idling
    <2> QED BY <1>2, <1>10, <2>1 DEF SendFails, Safe, DoorRemembered
<1>11. ASSUME NEW c \in Clients, ReadsLine(c) PROVE Safe'
    <2>1. /\ toBoard = <<>> /\ fromBoard = <<[line |-> "OK", of |-> client[c].id]>>
          /\ Remembered(client[c].cmd) = "open" <=> door
        BY <1>2, <1>11 DEF ReadsLine, Safe, Reads, Owed
    <2>2. Return(c, client[c].id)
        BY <1>11, <2>1, OneOnTheLine DEF ReadsLine
    <2>3. \A d \in Clients : ~Reads(d)'
        BY <1>11, <2>2 DEF ReadsLine, Return, OneTaskEach, OneReader, Reads, BoardTyped, Idling
    <2>4. DoorRemembered'
        BY <1>11, <2>1, <2>2 DEF ReadsLine, Return, DoorRemembered
    <2> QED BY <1>2, <1>11, <2>1, <2>3, <2>4 DEF ReadsLine, Safe
<1>12. ASSUME NEW c \in Clients, TimesUp(c) PROVE FALSE
    BY <1>12 DEF TimesUp
<1>13. CASE UNCHANGED arduinoVars
    BY <1>2, <1>13 DEF arduinoVars, Safe, Owed, Reads, CommandOf, DoorRemembered, Remembered
<1> QED BY <1>3, <1>4, <1>5, <1>6, <1>7, <1>8, <1>9, <1>10, <1>11, <1>12, <1>13, <1>14 DEF ArduinoNext

LEMMA BoardKept == BoardInvariant /\ [ArduinoNext]_arduinoVars => BoardInvariant'
BY BoardTypedKept, OneTaskKept, LineStaysOwn, WindowKept DEF BoardInvariant

LEMMA BoardHolds == ArduinoSpec => []BoardInvariant
BY BoardStarts, BoardKept, PTL DEF ArduinoSpec

\* A command that returned took the board's answer to that very command, however
\* many tasks ask and whatever is given up on, unless one was sent over another or
\* the board restarted.
THEOREM AnswersAreOwn == ArduinoSpec => []OwnAnswers
BY BoardHolds, PTL DEF BoardInvariant

\* With nothing under way, the window class remembers the door the board has,
\* however many tasks, refused writes and closed ports there were, until a command
\* is given up on, the board restarts or the class begins with the door open.
THEOREM DoorIsRemembered == ArduinoSpec => []WindowRemembered
<1>1. BoardInvariant => WindowRemembered
    BY DEF BoardInvariant, WindowInvariant, WindowRemembered, Reads, DoorRemembered
<1> QED BY <1>1, BoardHolds, PTL

(***************************************************************************)
(* The bill validator.  While nothing has disturbed the line one exchange is *)
(* under way at a time, and what was stacked has been announced, or is still *)
(* on its way in a poll, its answer or the queue: as many of each.           *)
(***************************************************************************)

Positions(frame, frames) == {i \in DOMAIN frames : frames[i] = frame}

LEMMA CountIs ==
    ASSUME NEW frame, NEW frames
    PROVE  Count(frame, frames) = Cardinality(Positions(frame, frames))
BY DEF Count, Positions

LEMMA PositionsFinite ==
    ASSUME NEW S, NEW frames \in Seq(S), NEW frame
    PROVE  /\ IsFiniteSet(Positions(frame, frames)) /\ Count(frame, frames) \in Nat
           /\ Positions(frame, frames) \subseteq 1..Len(frames)
           /\ Count(frame, frames) = Cardinality(Positions(frame, frames))
           /\ Count(frame, frames) <= Len(frames)
<1>1. DOMAIN frames = 1..Len(frames) /\ Len(frames) \in Nat
    OBVIOUS
<1>2. IsFiniteSet(1..Len(frames)) /\ Cardinality(1..Len(frames)) = Len(frames)
    BY <1>1, FS_Interval
<1>3. Positions(frame, frames) \in SUBSET (1..Len(frames))
    BY <1>1 DEF Positions
<1>4. /\ IsFiniteSet(Positions(frame, frames))
      /\ Cardinality(Positions(frame, frames)) <= Len(frames)
    BY <1>2, <1>3, FS_Subset
<1> QED BY <1>3, <1>4, FS_CardinalityType DEF Count, Positions

LEMMA CountNone ==
    ASSUME NEW frame
    PROVE  Count(frame, <<>>) = 0
<1>1. Positions(frame, <<>>) = {}
    BY DEF Positions
<1> QED BY <1>1, FS_EmptySet DEF Count, Positions

LEMMA CountAppend ==
    ASSUME NEW S, NEW frames \in Seq(S), NEW last \in S, NEW frame
    PROVE  Count(frame, Append(frames, last)) = Count(frame, frames) + IF last = frame THEN 1 ELSE 0
<1> DEFINE n == Len(frames) + 1
           longer == Append(frames, last)
<1>1. /\ longer \in Seq(S) /\ Len(longer) = n /\ longer[n] = last
      /\ \A i \in 1..Len(frames) : longer[i] = frames[i]
      /\ DOMAIN longer = 1..n /\ DOMAIN frames = 1..Len(frames) /\ Len(frames) \in Nat
    BY AppendProperties, LenProperties
<1>2. Positions(frame, longer) = Positions(frame, frames) \cup IF last = frame THEN {n} ELSE {}
    BY <1>1 DEF Positions
<1>3. IsFiniteSet(Positions(frame, frames)) /\ n \notin Positions(frame, frames)
    BY <1>1, PositionsFinite
<1>4. Cardinality(Positions(frame, frames)) \in Nat
    BY <1>3, FS_CardinalityType
<1>5. CASE last = frame
    BY <1>2, <1>3, <1>4, <1>5, FS_AddElement, CountIs
<1>6. CASE last # frame
    <2>1. Positions(frame, longer) = Positions(frame, frames)
        BY <1>2, <1>6
    <2> QED BY <1>4, <1>6, <2>1, CountIs
<1> QED BY <1>5, <1>6

LEMMA CountConcat ==
    ASSUME NEW S, NEW front \in Seq(S), NEW back \in Seq(S), NEW frame
    PROVE  Count(frame, front \o back) = Count(frame, front) + Count(frame, back)
<1> DEFINE n == Len(front)
           A == Positions(frame, front)
           B == Positions(frame, back)
           C == {i \in n + 1 .. n + Len(back) : back[i - n] = frame}
           shift == [i \in B |-> i + n]
<1>1. /\ DOMAIN front = 1..n /\ DOMAIN back = 1..Len(back)
      /\ DOMAIN (front \o back) = 1 .. n + Len(back)
      /\ n \in Nat /\ Len(back) \in Nat
      /\ \A i \in 1..n : (front \o back)[i] = front[i]
      /\ \A i \in n + 1 .. n + Len(back) : (front \o back)[i] = back[i - n]
    OBVIOUS
<1>2. Positions(frame, front \o back) = A \cup C
    BY <1>1 DEF Positions
<1>3. IsFiniteSet(A) /\ IsFiniteSet(B) /\ A \subseteq 1..n /\ B \subseteq 1..Len(back)
    BY PositionsFinite
<1>4. Cardinality(A) \in Nat /\ Cardinality(B) \in Nat
    BY <1>3, FS_CardinalityType
<1>5. shift \in Bijection(B, C)
    <2>1. shift \in [B -> C]
        BY <1>1, <1>3 DEF Positions
    <2>2. \A i, j \in B : shift[i] = shift[j] => i = j
        BY <1>1, <1>3
    <2>3. \A k \in C : \E i \in B : shift[i] = k
        <3> SUFFICES ASSUME NEW k \in C PROVE k - n \in B /\ shift[k - n] = k
            OBVIOUS
        <3> QED BY <1>1 DEF Positions
    <2> QED BY <2>1, <2>2, <2>3 DEF Bijection, Injection, IsInjective, Surjection
<1>6. IsFiniteSet(C) /\ Cardinality(C) = Cardinality(B)
    BY <1>3, <1>5, FS_Bijection DEF ExistsBijection
<1>7. A \cap C = {}
    BY <1>1, <1>3
<1>8. Cardinality(A \cup C) = Cardinality(A) + Cardinality(B)
    <2> HIDE DEF A, B, C
    <2>1. Cardinality(A \cup C) = Cardinality(A) + Cardinality(C) - Cardinality(A \cap C)
        BY <1>3, <1>6, FS_Union
    <2>2. Cardinality(A \cap C) = 0
        BY <1>7, FS_EmptySet
    <2> QED BY <1>4, <1>6, <2>1, <2>2
<1> QED BY <1>2, <1>8, CountIs

LEMMA CountFront ==
    ASSUME NEW S, NEW frames \in Seq(S), frames # <<>>, NEW frame
    PROVE  Front(frames) \in Seq(S) /\ Count(frame, Front(frames)) <= Count(frame, frames)
<1>1. /\ Front(frames) \in Seq(S) /\ Len(Front(frames)) = Len(frames) - 1
      /\ \A i \in 1 .. Len(frames) - 1 : Front(frames)[i] = frames[i]
    <2>1. /\ Len(frames) - 1 \in Nat
          /\ \A i \in 1 .. Len(frames) - 1 : frames[i] \in S
        BY EmptySeq, ElementOfSeq
    <2>2. /\ SubSeq(frames, 1, Len(frames) - 1) \in Seq(S)
          /\ Len(SubSeq(frames, 1, Len(frames) - 1)) = Len(frames) - 1
          /\ \A i \in 1 .. Len(frames) - 1 :
                 SubSeq(frames, 1, Len(frames) - 1)[i] = frames[i]
        <3>1. 1 \in Int /\ Len(frames) - 1 \in Int
            BY <2>1
        <3> DEFINE m == Len(frames) - 1
        <3>2. /\ SubSeq(frames, 1, m) \in Seq(S)
              /\ Len(SubSeq(frames, 1, m)) = IF 1 <= m THEN m - 1 + 1 ELSE 0
              /\ \A i \in 1 .. m - 1 + 1 : SubSeq(frames, 1, m)[i] = frames[1 + i - 1]
            BY <2>1, <3>1, SubSeqProperties
        <3>3. \A i \in 1..m : i \in 1 .. m - 1 + 1 /\ 1 + i - 1 = i
            BY <2>1
        <3>4. m \in Nat /\ m - 1 + 1 = m
            BY <2>1
        <3> HIDE DEF m
        <3>5. \A i \in 1..m : SubSeq(frames, 1, m)[i] = frames[i]
            BY <3>2, <3>3
        <3>6. Len(SubSeq(frames, 1, m)) = m
            BY <3>2, <3>4, SMT
        <3> QED BY <3>2, <3>5, <3>6 DEF m
    <2> QED BY <2>2 DEF Front
<1>2. Positions(frame, Front(frames)) \in SUBSET Positions(frame, frames)
    BY <1>1, LenProperties DEF Positions
<1> QED BY <1>1, <1>2, PositionsFinite, FS_Subset

LEMMA CountOne ==
    ASSUME NEW frame, NEW x
    PROVE  Count(frame, <<x>>) = IF x = frame THEN 1 ELSE 0
<1>1. Append(<<>>, x) = <<x>> /\ <<>> \in Seq({x})
    BY EmptySeq
<1>2. Count(frame, Append(<<>>, x)) = Count(frame, <<>>) + IF x = frame THEN 1 ELSE 0
    BY <1>1, CountAppend
<1>3. Count(frame, <<>>) = 0
    BY CountNone
<1> QED BY <1>1, <1>2, <1>3

LEMMA CountBills ==
    ASSUME NEW frames \in Seq({"bill"})
    PROVE  /\ frames \in Seq(Frames)
           /\ Count("bill", frames) = Len(frames) /\ Count("error", frames) = 0
<1>1. /\ DOMAIN frames = 1..Len(frames) /\ Len(frames) \in Nat
      /\ \A i \in 1..Len(frames) : frames[i] = "bill"
    BY LenProperties, ElementOfSeq
<1>2. Positions("bill", frames) = 1..Len(frames) /\ Positions("error", frames) = {}
    BY <1>1 DEF Positions
<1>3. Cardinality(1..Len(frames)) = Len(frames) /\ Cardinality({}) = 0
    BY <1>1, FS_Interval, FS_EmptySet
<1>4. frames \in Seq(Frames)
    BY <1>1 DEF Frames
<1> QED BY <1>2, <1>3, <1>4, CountIs

ValidatorTyped ==
    /\ link \in {"off", "on", "stopping", "closing"} /\ line \in Seq(Frames)
    /\ poller \in {"none", "sleeps", "waits", "disables"}
    /\ sender \in [Senders -> [at : {"idle", "asked", "waits"}, on : BOOLEAN]]
    /\ accepting \in BOOLEAN /\ reports \in Seq({"bill"}) /\ disturbed \in BOOLEAN
    /\ taken \in Nat /\ refused \in Nat /\ credited \in Nat /\ admitted \in Nat
    /\ against \in SUBSET AgainstStop

\* While nothing is disturbed there is one exchange at most, that of stop() included,
\* and the line holds its reply and nothing else.
Orderly ==
    /\ poller # "disables"
    /\ poller = "waits" => \A c \in Senders : sender[c].at # "waits"
    /\ \A c, d \in Senders : sender[c].at = "waits" /\ sender[d].at = "waits" => c = d
    /\ \A c \in Senders : sender[c].at = "waits" => line \in {<<"ack">>, <<"error">>}
    /\ link # "on" => poller = "none"
    /\ link \in {"closing", "off"} => \A c \in Senders : sender[c].at # "waits"
    /\ link = "closing" => line = <<"ack">>
    /\ InExchange = {} => line = <<>>

\* Once stop() has written its switch, an enable can only come from a command that
\* had not written it before, or that was asked for since.
Late(c) == sender[c].at = "asked" /\ sender[c].on

SwitchedOff ==
    /\ link \in {"stopping", "closing"} /\ (\E c \in Senders : Late(c)) => "enable" \in against
    /\ link \in {"closing", "off"} /\ accepting => against # {}

ValidatorInvariant ==
    ValidatorTyped /\ BillsAnnouncedOnce /\ (~disturbed => Orderly) /\ SwitchedOff

LEMMA ValidatorStarts == LinkInit => ValidatorInvariant
<1> SUFFICES ASSUME LinkInit PROVE ValidatorInvariant
    OBVIOUS
<1>1. ValidatorTyped
    BY EmptySeq DEF LinkInit, ValidatorTyped, Unengaged, AgainstStop
<1>2. BillsAnnouncedOnce
    BY CountNone, EmptySeq DEF LinkInit, BillsAnnouncedOnce
<1>3. Orderly
    BY DEF LinkInit, Orderly, Unengaged
<1>4. SwitchedOff
    BY DEF LinkInit, SwitchedOff
<1> QED BY <1>1, <1>2, <1>3, <1>4 DEF ValidatorInvariant

LEMMA ValidatorTypedKept == ValidatorTyped /\ [LinkNext]_linkVars => ValidatorTyped'
<1> SUFFICES ASSUME ValidatorTyped, [LinkNext]_linkVars PROVE ValidatorTyped'
    OBVIOUS
<1> USE EmptySeq DEF ValidatorTyped
<1>0. <<>> \in Seq(Frames) /\ <<>> \in Seq({"bill"}) /\ <<"ack">> \in Seq(Frames)
    BY DEF Frames
<1>1. Append(line, "ack") \in Seq(Frames) /\ Append(line, "error") \in Seq(Frames)
    BY AppendProperties DEF Frames
<1>2. ASSUME NEW frames \in Arrived
      PROVE  /\ Count("bill", frames) \in Nat /\ Count("error", frames) \in Nat
    <2>1. CASE frames = line
        BY <2>1, PositionsFinite
    <2>2. CASE line # <<>> /\ frames = Front(line)
        <3>1. frames \in Seq(Frames)
            BY <2>2, CountFront
        <3> QED BY <3>1, PositionsFinite
    <2> QED BY <2>1, <2>2 DEF Arrived
<1> HIDE EmptySeq
<1>16. ASSUME NEW on \in BOOLEAN, AnswerSwitch(line, on)
       PROVE  line' \in Seq(Frames) /\ accepting' \in BOOLEAN /\ refused' \in Nat
    <2>1. CASE line' = Append(line, "ack") /\ accepting' = on /\ refused' = refused
        BY <1>1, <2>1
    <2>2. CASE line' = Append(line, "error") /\ accepting' = accepting /\ refused' = refused + 1
        BY <1>1, <2>2
    <2> QED BY <1>16, <2>1, <2>2 DEF AnswerSwitch
<1>3. CASE StackABill
    <2>1. Append(reports, "bill") \in Seq({"bill"})
        BY AppendProperties
    <2> QED BY <1>3, <2>1 DEF StackABill
<1>4. CASE PollWrites
    <2>1. line' \in Seq(Frames)
        <3>1. reports \in Seq(Frames)
            BY CountBills
        <3> QED BY <1>0, <1>4, <3>1, ConcatProperties DEF PollWrites, AnswerPoll
    <2> QED BY <1>0, <1>4, <2>1 DEF PollWrites, AnswerPoll, Writes
<1>5. CASE PollReads
    BY <1>0, <1>2, <1>5 DEF PollReads, ReadLine, Translate
<1>6. CASE PollFails
    BY <1>6, <1>16 DEF PollFails
<1>7. CASE PollDisables
    BY <1>0, <1>7 DEF PollDisables, ReadLine
<1>8. ASSUME NEW c \in Senders, NEW on \in BOOLEAN, AskCommand(c, on) PROVE ValidatorTyped'
    <2>1. against' \in SUBSET AgainstStop
        BY <1>8 DEF AskCommand, AgainstStop
    <2> QED BY <1>8, <2>1 DEF AskCommand
<1>9. ASSUME NEW c \in Senders, SendCommand(c) PROVE ValidatorTyped'
    <2>1. sender[c].on \in BOOLEAN /\ AnswerSwitch(line, sender[c].on)
        BY <1>9 DEF SendCommand
    <2>2. disturbed' \in BOOLEAN
        BY <1>9 DEF SendCommand, Writes
    <2>3. sender' \in [Senders -> [at : {"idle", "asked", "waits"}, on : BOOLEAN]]
        BY <1>9 DEF SendCommand
    <2> QED BY <1>9, <1>16, <2>1, <2>2, <2>3 DEF SendCommand
<1>10. ASSUME NEW c \in Senders, CommandReads(c) PROVE ValidatorTyped'
    BY <1>0, <1>10 DEF CommandReads, ReadLine, JudgeReply, Unengaged
<1>11. ASSUME NEW c \in Senders, CommandGivenUp(c) PROVE ValidatorTyped'
    BY <1>0, <1>11 DEF CommandGivenUp, Unengaged
<1>12. CASE StartLink
    <2>1. disturbed' \in BOOLEAN
        BY <1>12 DEF StartLink
    <2>2. accepting' \in BOOLEAN
        BY <1>12 DEF StartLink
    <2>3. link' \in {"off", "on"} /\ poller' \in {"none", "sleeps", "waits", "disables"}
        BY <1>12 DEF StartLink
    <2>5. refused' \in {refused, refused + 1}
        BY <1>12 DEF StartLink
    <2>6. admitted' = admitted + (refused' - refused)
        BY <1>12 DEF StartLink
    <2>7. refused' \in Nat /\ admitted' \in Nat
        <3>1. refused \in Nat /\ admitted \in Nat
            OBVIOUS
        <3>2. CASE refused' = refused
            BY <2>6, <3>1, <3>2
        <3>3. CASE refused' = refused + 1
            BY <2>6, <3>1, <3>3
        <3> QED BY <2>5, <3>2, <3>3
    <2>4. UNCHANGED <<sender, taken, credited, against>> /\ line' = <<>> /\ reports' = <<>>
        BY <1>12 DEF StartLink
    <2> QED BY <1>0, <2>1, <2>2, <2>3, <2>4, <2>7
<1>13. CASE StopLink
    <2>1. disturbed' \in BOOLEAN /\ line' \in {line, <<>>}
        BY <1>13 DEF StopLink
    <2>2. against' \in SUBSET AgainstStop
        BY <1>13 DEF StopLink, AgainstStop
    <2> QED BY <1>0, <1>13, <2>1, <2>2 DEF StopLink
<1>17. CASE ShutDown
    <2>1. disturbed' \in BOOLEAN /\ against' \in SUBSET AgainstStop
        BY <1>17 DEF ShutDown, AgainstStop
    <2>2. line' \in Seq(Frames) /\ accepting' \in BOOLEAN /\ refused' \in Nat
        BY <1>16, <1>17 DEF ShutDown
    <2>3. link' = "closing" /\ UNCHANGED <<poller, sender, reports, taken, credited, admitted>>
        BY <1>17 DEF ShutDown
    <2> QED BY <2>1, <2>2, <2>3
<1>14. CASE PortCloses
    BY <1>0, <1>14 DEF PortCloses
<1>15. CASE UNCHANGED linkVars
    BY <1>15 DEF linkVars
<1> QED BY <1>3, <1>4, <1>5, <1>6, <1>7, <1>8, <1>9, <1>10, <1>11, <1>12, <1>13, <1>14, <1>15,
           <1>17 DEF LinkNext

LEMMA DisturbedStays ==
    ASSUME ValidatorTyped, [LinkNext]_linkVars, ~disturbed'
    PROVE  ~disturbed
<1>1. ASSUME NEW c \in Senders,
             SendCommand(c) \/ CommandReads(c) \/ CommandGivenUp(c) \/ \E on \in BOOLEAN : AskCommand(c, on)
      PROVE  ~disturbed
    BY <1>1 DEF SendCommand, Writes, CommandReads, ReadLine, CommandGivenUp, AskCommand
<1>2. CASE StackABill \/ PollWrites \/ PollReads \/ PollFails \/ PollDisables
    BY <1>2 DEF StackABill, PollWrites, Writes, PollReads, ReadLine, PollFails, PollDisables
<1>3. CASE StartLink \/ StopLink \/ ShutDown \/ PortCloses \/ UNCHANGED linkVars
    BY <1>3 DEF StartLink, StopLink, ShutDown, PortCloses, linkVars
<1> QED BY <1>1, <1>2, <1>3 DEF LinkNext

\* The frames of a reply to a switch.
LEMMA SwitchCounts ==
    ASSUME ValidatorTyped, NEW on, AnswerSwitch(line, on)
    PROVE  /\ Count("bill", line') = Count("bill", line)
           /\ \/ refused' = refused /\ Count("error", line') = Count("error", line)
              \/ refused' = refused + 1 /\ Count("error", line') = Count("error", line) + 1
           /\ line' \in {Append(line, "ack"), Append(line, "error")}
           /\ refused' = refused => line' = Append(line, "ack") /\ accepting' = on
<1>1. /\ line \in Seq(Frames) /\ "ack" \in Frames /\ "error" \in Frames
      /\ refused \in Nat
    BY DEF ValidatorTyped, Frames
<1>2. /\ Count("bill", line) \in Nat /\ Count("error", line) \in Nat
    BY <1>1, PositionsFinite
<1>3. /\ Count("bill", Append(line, "ack")) = Count("bill", line) + 0
      /\ Count("error", Append(line, "ack")) = Count("error", line) + 0
      /\ Count("bill", Append(line, "error")) = Count("bill", line) + 0
      /\ Count("error", Append(line, "error")) = Count("error", line) + 1
    <2>1. "ack" # "bill" /\ "ack" # "error" /\ "error" # "bill"
        OBVIOUS
    <2> QED BY <1>1, <2>1, CountAppend
<1>4. CASE line' = Append(line, "ack") /\ accepting' = on /\ refused' = refused
    BY <1>2, <1>3, <1>4
<1>5. CASE line' = Append(line, "error") /\ accepting' = accepting /\ refused' = refused + 1
    BY <1>1, <1>2, <1>3, <1>5
<1> QED BY <1>4, <1>5 DEF AnswerSwitch

LEMMA BillsKept ==
    ASSUME ValidatorTyped, BillsAnnouncedOnce, ~disturbed => Orderly, [LinkNext]_linkVars
    PROVE  BillsAnnouncedOnce'
<1> DEFINE B == Count("bill", line)
           E == Count("error", line)
           R == Len(reports)
           Bills == credited + (B + R) <= taken
           InStep == credited + (B + R) = taken /\ admitted + E = refused
<1> SUFFICES Bills' /\ (~disturbed' => InStep')
    BY DEF BillsAnnouncedOnce
<1>1. ~disturbed' => ~disturbed /\ Orderly
    BY DisturbedStays
<1>2. /\ B \in Nat /\ E \in Nat /\ R \in Nat
      /\ taken \in Nat /\ refused \in Nat /\ credited \in Nat /\ admitted \in Nat
    BY PositionsFinite DEF ValidatorTyped
<1>3. Bills /\ (~disturbed => InStep)
    BY DEF BillsAnnouncedOnce
<1>4. Count("bill", <<>>) = 0 /\ Count("error", <<>>) = 0 /\ Len(<<>>) = 0
    BY CountNone
<1>5. CASE StackABill
    <2>1. R' = R + 1
        BY <1>5, AppendProperties DEF StackABill, ValidatorTyped
    <2> HIDE DEF R
    <2> QED BY <1>1, <1>2, <1>3, <1>5, <2>1 DEF StackABill
<1>6. CASE PollWrites
    <2>1. R' = 0 /\ B' = B + R /\ E' = E
        <3>1. CASE reports = <<>>
            <4>1. line' = Append(line, "ack")
                BY <1>6, <3>1 DEF PollWrites, AnswerPoll, ValidatorTyped
            <4>2. "ack" # "bill" /\ "ack" # "error" /\ "ack" \in Frames
                BY DEF Frames
            <4>3. B' = B + 0 /\ E' = E + 0
                BY <4>1, <4>2, CountAppend DEF ValidatorTyped
            <4> QED BY <1>2, <1>4, <1>6, <3>1, <4>3 DEF PollWrites, AnswerPoll
        <3>2. CASE reports # <<>>
            <4>1. line' = line \o reports /\ reports' = <<>>
                BY <1>6, <3>2 DEF PollWrites, AnswerPoll
            <4>2. B' = B + Count("bill", reports) /\ E' = E + Count("error", reports)
                BY <4>1, CountConcat, CountBills DEF ValidatorTyped
            <4> QED BY <1>2, <1>4, <4>1, <4>2, CountBills DEF ValidatorTyped
        <3> QED BY <3>1, <3>2
    <2> HIDE DEF B, E, R
    <2> QED BY <1>1, <1>2, <1>3, <1>6, <2>1 DEF PollWrites
<1>7. CASE PollReads
    <2>1. PICK frames \in Arrived : PollReads!(frames)
        BY <1>7 DEF PollReads
    <2>2. /\ Count("bill", frames) \in Nat /\ Count("error", frames) \in Nat
          /\ Count("bill", frames) <= B
        <3>1. frames \in Seq(Frames) /\ Count("bill", frames) <= B
            BY <1>2, <2>1, CountFront DEF Arrived, ValidatorTyped
        <3> QED BY <3>1, PositionsFinite
    <2>3. B' = 0 /\ E' = 0 /\ R' = R
        BY <1>4, <2>1 DEF ReadLine
    <2>4. /\ credited' = credited + Count("bill", frames)
          /\ admitted' = admitted + Count("error", frames)
          /\ ~disturbed' => frames = line
          /\ UNCHANGED <<taken, refused>>
        BY <2>1 DEF Translate, ReadLine
    <2>5. ~disturbed' => Count("bill", frames) = B /\ Count("error", frames) = E
        BY <2>4
    <2> HIDE DEF B, E, R
    <2> QED BY <1>1, <1>2, <1>3, <2>2, <2>3, <2>4, <2>5
<1>8. CASE PollFails
    <2>1. B' = B
        BY <1>8, SwitchCounts DEF PollFails
    <2>2. R' = R /\ disturbed' /\ UNCHANGED <<taken, credited>>
        BY <1>8 DEF PollFails
    <2> HIDE DEF B, E, R
    <2> QED BY <1>2, <1>3, <2>1, <2>2
<1>9. CASE PollDisables
    <2>1. B' = 0 /\ R' = R /\ UNCHANGED <<taken, credited>>
        BY <1>4, <1>9 DEF PollDisables, ReadLine
    <2>2. disturbed'
        BY <1>1, <1>9 DEF PollDisables, Orderly
    <2> HIDE DEF B, E, R
    <2> QED BY <1>2, <1>3, <2>1, <2>2
<1>10. ASSUME NEW c \in Senders, NEW on \in BOOLEAN, AskCommand(c, on)
       PROVE  Bills' /\ (~disturbed' => InStep')
    BY <1>3, <1>10 DEF AskCommand
<1>11. ASSUME NEW c \in Senders, SendCommand(c)
       PROVE  Bills' /\ (~disturbed' => InStep')
    <2>1. /\ B' = B
          /\ \/ refused' = refused /\ E' = E
             \/ refused' = refused + 1 /\ E' = E + 1
        BY <1>11, SwitchCounts DEF SendCommand
    <2>2. R' = R /\ UNCHANGED <<taken, credited, admitted>>
        BY <1>11 DEF SendCommand
    <2> HIDE DEF B, E, R
    <2> QED BY <1>1, <1>2, <1>3, <2>1, <2>2
<1>12. ASSUME NEW c \in Senders, CommandReads(c)
       PROVE  Bills' /\ (~disturbed' => InStep')
    <2>1. B' = 0 /\ E' = 0 /\ R' = R /\ UNCHANGED <<taken, credited, refused>>
        BY <1>4, <1>12 DEF CommandReads, ReadLine
    <2>2. ASSUME ~disturbed' PROVE B = 0 /\ admitted' = admitted + E
        <3>1. line \in {<<"ack">>, <<"error">>} /\ JudgeReply(line)
            BY <1>1, <1>12, <2>2 DEF CommandReads, ReadLine, Orderly
        <3>2. Head(<<"ack">>) = "ack" /\ Head(<<"error">>) = "error" /\ <<"ack">> # <<>> /\ <<"error">> # <<>>
            OBVIOUS
        <3>3. B = 0
            BY <3>1, CountOne
        <3>4. CASE line = <<"ack">>
            <4>1. E = 0
                BY <3>4, CountOne
            <4> QED BY <1>2, <3>1, <3>2, <3>3, <3>4, <4>1 DEF JudgeReply
        <3>5. CASE line = <<"error">>
            <4>1. E = 1
                BY <3>5, CountOne
            <4> QED BY <1>2, <3>1, <3>2, <3>3, <3>5, <4>1 DEF JudgeReply
        <3> QED BY <3>1, <3>4, <3>5
    <2>3. disturbed' \in BOOLEAN
        BY ValidatorTypedKept DEF ValidatorTyped
    <2> HIDE DEF B, E, R
    <2> QED BY <1>1, <1>2, <1>3, <2>1, <2>2, <2>3
<1>13. ASSUME NEW c \in Senders, CommandGivenUp(c)
       PROVE  Bills' /\ (~disturbed' => InStep')
    <2>1. (B' = B \/ B' = 0) /\ R' = R /\ disturbed' /\ UNCHANGED <<taken, credited>>
        BY <1>4, <1>13 DEF CommandGivenUp
    <2> HIDE DEF B, E, R
    <2> QED BY <1>2, <1>3, <2>1
<1>14. CASE StartLink
    <2>1. /\ B' = 0 /\ E' = 0 /\ R' = 0 /\ UNCHANGED <<taken, credited>>
          /\ admitted' = admitted + (refused' - refused)
          /\ disturbed' = (disturbed \/ Count("bill", reports) > 0)
        BY <1>4, <1>14 DEF StartLink
    <2>2. Count("bill", reports) = R
        BY CountBills DEF ValidatorTyped
    <2>3. ~disturbed' => B = 0 /\ E = 0
        <3>1. ~disturbed' => line = <<>>
            BY <1>1, <1>14 DEF StartLink, Orderly, InExchange
        <3> QED BY <1>4, <3>1
    <2>4. refused' = refused \/ refused' = refused + 1
        BY <1>14 DEF StartLink
    <2> HIDE DEF B, E, R
    <2>5. ASSUME ~disturbed' PROVE InStep'
        <3>1. R = 0 /\ B = 0 /\ E = 0 /\ InStep
            <4>1. ~(R > 0)
                BY <2>1, <2>2, <2>5
            <4> QED BY <1>1, <1>2, <1>3, <2>3, <2>5, <4>1
        <3> QED BY <1>2, <2>1, <2>4, <3>1
    <2>6. Bills'
        BY <1>2, <1>3, <2>1
    <2> QED BY <2>5, <2>6
<1>15. CASE StopLink
    <2>1. /\ B' = B \/ B' = 0
          /\ ~disturbed' => line' = line
        BY <1>4, <1>15 DEF StopLink
    <2>2. R' = R /\ UNCHANGED <<taken, refused, credited, admitted>>
        BY <1>15 DEF StopLink
    <2>3. ~disturbed' => B' = B /\ E' = E
        BY <2>1
    <2> HIDE DEF B, E, R
    <2> QED BY <1>1, <1>2, <1>3, <2>1, <2>2, <2>3
<1>18. CASE ShutDown
    <2>1. R' = R /\ UNCHANGED <<taken, credited, admitted>>
        BY <1>18 DEF ShutDown
    <2>2. CASE AnswerSwitch(line, FALSE)
        <3>1. /\ B' = B
              /\ \/ refused' = refused /\ E' = E
                 \/ refused' = refused + 1 /\ E' = E + 1
            BY <2>2, SwitchCounts
        <3> HIDE DEF B, E, R
        <3> QED BY <1>1, <1>2, <1>3, <2>1, <3>1
    <2>3. CASE UNCHANGED <<line, accepting, refused>> /\ disturbed'
        <3>1. B' = B /\ E' = E
            BY <2>3
        <3> HIDE DEF B, E, R
        <3> QED BY <1>2, <1>3, <2>1, <2>3, <3>1
    <2> QED BY <1>18, <2>2, <2>3 DEF ShutDown
<1>16. CASE PortCloses
    <2>1. B' = 0 /\ E' = 0 /\ R' = R /\ UNCHANGED <<taken, credited, admitted, refused>>
        BY <1>4, <1>16 DEF PortCloses
    <2>2. ~disturbed' => B = 0 /\ E = 0
        <3>1. ~disturbed' => line = <<"ack">>
            BY <1>1, <1>16 DEF PortCloses, Orderly
        <3> QED BY <3>1, CountOne
    <2> HIDE DEF B, E, R
    <2> QED BY <1>1, <1>2, <1>3, <2>1, <2>2
<1>17. CASE UNCHANGED linkVars
    BY <1>3, <1>17 DEF linkVars
<1> QED BY <1>5, <1>6, <1>7, <1>8, <1>9, <1>10, <1>11, <1>12, <1>13, <1>14, <1>15, <1>16, <1>17,
           <1>18 DEF LinkNext

\* What the exchange that just wrote will read.
LEMMA OneReply ==
    ASSUME NEW x
    PROVE  Append(<<>>, x) = <<x>>
OBVIOUS

LEMMA OrderKept ==
    ASSUME ValidatorTyped, ~disturbed => Orderly, [LinkNext]_linkVars, ~disturbed'
    PROVE  Orderly'
<1> USE DEF ValidatorTyped
<1>1. ~disturbed /\ Orderly
    BY DisturbedStays
<1>2. CASE StackABill \/ UNCHANGED linkVars
    BY <1>1, <1>2 DEF StackABill, linkVars, Orderly, InExchange
<1>3. CASE PollWrites
    <2>1. InExchange = {}
        BY <1>3 DEF PollWrites, Writes
    <2>2. \A c \in Senders : sender[c].at # "waits"
        BY <2>1 DEF InExchange
    <2>3. poller' = "waits" /\ UNCHANGED <<link, sender>> /\ link = "on"
        BY <1>3 DEF PollWrites
    <2> QED BY <2>2, <2>3 DEF Orderly, InExchange
<1>4. CASE PollReads
    <2>1. line' = <<>> /\ poller' = "sleeps" /\ UNCHANGED <<link, sender, accepting>>
        BY <1>4 DEF PollReads, ReadLine
    <2>2. link = "on" /\ \A c \in Senders : sender[c].at # "waits"
        BY <1>1, <1>4 DEF PollReads, Orderly
    <2> QED BY <2>1, <2>2 DEF Orderly
<1>5. CASE PollFails
    BY <1>5 DEF PollFails
<1>6. CASE PollDisables
    BY <1>1, <1>6 DEF PollDisables, Orderly
<1>7. ASSUME NEW c \in Senders, NEW on \in BOOLEAN, AskCommand(c, on) PROVE Orderly'
    <2>1. \A d \in Senders : sender'[d].at = "waits" <=> sender[d].at = "waits"
        BY <1>7 DEF AskCommand
    <2>2. InExchange' = InExchange
        BY <1>7, <2>1 DEF AskCommand, InExchange
    <2> QED BY <1>1, <1>7, <2>1, <2>2 DEF AskCommand, Orderly
<1>8. ASSUME NEW c \in Senders, SendCommand(c) PROVE Orderly'
    <2>1. InExchange = {}
        BY <1>8 DEF SendCommand, Writes
    <2>2. poller # "waits" /\ \A d \in Senders : sender[d].at # "waits"
        BY <2>1 DEF InExchange
    <2>3. link \in {"on", "stopping"} /\ line = <<>>
        BY <1>1, <1>8, <2>1 DEF SendCommand, Orderly, InExchange
    <2>4. AnswerSwitch(line, sender[c].on)
        BY <1>8 DEF SendCommand
    <2>5. line' \in {<<"ack">>, <<"error">>}
        BY <2>3, <2>4, SwitchCounts, OneReply
    <2>6. \A d \in Senders : sender'[d].at = "waits" <=> d = c
        BY <1>8, <2>2 DEF SendCommand
    <2>7. UNCHANGED <<link, poller>>
        BY <1>8 DEF SendCommand
    <2> QED BY <1>1, <2>2, <2>3, <2>5, <2>6, <2>7 DEF Orderly, InExchange
<1>9. ASSUME NEW c \in Senders, CommandReads(c) PROVE Orderly'
    <2>1. line' = <<>> /\ UNCHANGED <<link, poller, accepting>>
        BY <1>9 DEF CommandReads, ReadLine
    <2>2. link \in {"on", "stopping"}
        BY <1>1, <1>9 DEF CommandReads, Orderly
    <2>3. \A d \in Senders : sender'[d].at # "waits"
        BY <1>1, <1>9 DEF CommandReads, Orderly, Unengaged
    <2> QED BY <1>1, <2>1, <2>2, <2>3 DEF Orderly
<1>10. ASSUME NEW c \in Senders, CommandGivenUp(c) PROVE Orderly'
    BY <1>10 DEF CommandGivenUp
<1>11. CASE StartLink
    <2>1. link = "off" /\ poller = "none" /\ \A c \in Senders : sender[c].at # "waits"
        BY <1>1, <1>11 DEF StartLink, Orderly
    <2>2. /\ line' = <<>> /\ sender' = sender
          /\ \/ link' = "on" /\ poller' = "sleeps"
             \/ link' = "off" /\ poller' = poller
        BY <1>11, <2>1 DEF StartLink
    <2> QED BY <2>1, <2>2 DEF Orderly
<1>12. CASE StopLink
    <2>1. /\ link' = "stopping" /\ poller' = "none" /\ sender' = sender
          /\ link = "on" /\ "poller" \notin InExchange /\ line' = line
        BY <1>12 DEF StopLink
    <2>2. InExchange' = {} => InExchange = {}
        BY <2>1 DEF InExchange
    <2> QED BY <1>1, <2>1, <2>2 DEF Orderly
<1>14. CASE ShutDown
    <2>1. /\ InExchange = {} /\ ~(refused' > refused) /\ AnswerSwitch(line, FALSE)
          /\ link = "stopping" /\ link' = "closing" /\ UNCHANGED <<poller, sender>>
        BY <1>14 DEF ShutDown
    <2>2. poller = "none" /\ \A c \in Senders : sender[c].at # "waits"
        BY <1>1, <2>1 DEF InExchange, Orderly
    <2>3. refused' = refused /\ line = <<>>
        <3>1. refused' = refused \/ refused' = refused + 1
            BY <2>1, SwitchCounts
        <3> QED BY <1>1, <2>1, <3>1 DEF Orderly
    <2>4. line' = <<"ack">>
        BY <2>1, <2>3, SwitchCounts, OneReply
    <2>5. InExchange' # {}
        BY <2>1 DEF InExchange
    <2> QED BY <2>1, <2>2, <2>4, <2>5 DEF Orderly
<1>13. CASE PortCloses
    <2>1. /\ link = "closing" /\ link' = "off" /\ line' = <<>>
          /\ UNCHANGED <<poller, sender>>
        BY <1>13 DEF PortCloses
    <2> QED BY <1>1, <2>1 DEF Orderly
<1> QED BY <1>2, <1>3, <1>4, <1>5, <1>6, <1>7, <1>8, <1>9, <1>10, <1>11, <1>12, <1>13, <1>14
        DEF LinkNext

\* What stop() has switched off stays off, unless one of the exceptions was met.
LEMMA OffKept ==
    ASSUME ValidatorTyped, SwitchedOff, [LinkNext]_linkVars
    PROVE  SwitchedOff'
<1> USE DEF ValidatorTyped
<1>1. CASE \/ StackABill \/ PollWrites \/ PollReads \/ PollDisables \/ UNCHANGED linkVars
    <2>1. UNCHANGED <<link, sender, accepting, against>>
        BY <1>1 DEF StackABill, PollWrites, PollReads, PollDisables, linkVars
    <2> QED BY <2>1 DEF SwitchedOff, Late
<1>2. CASE PollFails
    <2>1. UNCHANGED <<link, sender, against>> /\ (accepting' => accepting)
        BY <1>2 DEF PollFails, AnswerSwitch
    <2> QED BY <2>1 DEF SwitchedOff, Late
<1>3. ASSUME NEW c \in Senders, NEW on \in BOOLEAN, AskCommand(c, on) PROVE SwitchedOff'
    <2>1. /\ UNCHANGED <<link, accepting>> /\ against \subseteq against'
          /\ on /\ link # "on" => "enable" \in against'
          /\ \A d \in Senders \ {c} : sender'[d] = sender[d]
          /\ sender'[c].on = on
        BY <1>3 DEF AskCommand
    <2>2. (\E d \in Senders : Late(d)') => (\E d \in Senders : Late(d)) \/ on
        BY <2>1 DEF Late
    <2> QED BY <2>1, <2>2 DEF SwitchedOff
<1>4. ASSUME NEW c \in Senders, SendCommand(c) PROVE SwitchedOff'
    <2>1. /\ UNCHANGED <<link, against>> /\ link # "off" /\ sender[c].at = "asked"
          /\ \A d \in Senders : Late(d)' => Late(d)
        BY <1>4 DEF SendCommand, Late
    <2>2. accepting' => accepting \/ sender[c].on
        BY <1>4 DEF SendCommand, AnswerSwitch
    <2>3. link = "closing" /\ sender[c].on => "enable" \in against
        BY <2>1 DEF SwitchedOff, Late
    <2> QED BY <2>1, <2>2, <2>3 DEF SwitchedOff
<1>5. ASSUME NEW c \in Senders, CommandReads(c) \/ CommandGivenUp(c) PROVE SwitchedOff'
    <2>1. /\ UNCHANGED <<link, accepting, against>>
          /\ \A d \in Senders : Late(d)' => Late(d)
        BY <1>5 DEF CommandReads, CommandGivenUp, Late, Unengaged
    <2> QED BY <2>1 DEF SwitchedOff
<1>6. CASE StartLink
    <2>1. link' \in {"off", "on"} /\ link = "off" /\ against' = against
        BY <1>6 DEF StartLink
    <2>2. accepting' = FALSE \/ accepting' \in {accepting, FALSE}
        BY <1>6 DEF StartLink
    <2>3. accepting' => accepting
        BY <2>2
    <2> QED BY <2>1, <2>3 DEF SwitchedOff
<1>7. CASE StopLink
    <2>1. link' = "stopping" /\ sender' = sender
          /\ ((\E c \in Senders : Late(c)) => "enable" \in against')
        BY <1>7 DEF StopLink, Late
    <2> QED BY <2>1 DEF SwitchedOff, Late
<1>8. CASE ShutDown
    <2>1. /\ link = "stopping" /\ link' = "closing" /\ sender' = sender
          /\ against \subseteq against'
        BY <1>8 DEF ShutDown
    <2>2. accepting' => against' # {}
        <3>1. CASE AnswerSwitch(line, FALSE) /\ against' = against \cup {r \in {"refused"} : refused' > refused}
            <4>1. accepting' => refused' = refused + 1
                BY <3>1 DEF AnswerSwitch
            <4> QED BY <3>1, <4>1
        <3>2. CASE against' = against \cup {"unwritten"}
            BY <3>2
        <3> QED BY <1>8, <3>1, <3>2 DEF ShutDown
    <2> QED BY <2>1, <2>2 DEF SwitchedOff, Late
<1>9. CASE PortCloses
    <2>1. link = "closing" /\ link' = "off" /\ UNCHANGED <<sender, accepting, against>>
        BY <1>9 DEF PortCloses
    <2> QED BY <2>1 DEF SwitchedOff
<1> QED BY <1>1, <1>2, <1>3, <1>4, <1>5, <1>6, <1>7, <1>8, <1>9 DEF LinkNext

LEMMA ValidatorHolds == LinkSpec => []ValidatorInvariant
<1>1. ValidatorInvariant /\ [LinkNext]_linkVars => ValidatorInvariant'
    BY ValidatorTypedKept, BillsKept, OrderKept, OffKept DEF ValidatorInvariant
<1> QED BY <1>1, ValidatorStarts, PTL DEF LinkSpec

\* No bill is announced more often than it was stacked, whoever reads whose reply;
\* and while nothing disturbs the line none is lost, nor is a refusal.
THEOREM BillsAreAnnouncedOnce == LinkSpec => []BillsAnnouncedOnce
BY ValidatorHolds, PTL DEF ValidatorInvariant

\* A stopped validator takes no bill, however its commands and polls overlapped,
\* failed or were given up on, unless an enable was late, the switch was refused or
\* not written, or it was left accepting by a crash.
THEOREM StoppedIsOff == LinkSpec => []StoppedMeansOff
<1>1. ValidatorInvariant => StoppedMeansOff
    BY DEF ValidatorInvariant, SwitchedOff, StoppedMeansOff
<1> QED BY <1>1, ValidatorHolds, PTL

-----------------------------------------------------------------------------
(* Sums along a sequence.                                                  *)

\* Any element of a set may be the one that is added last.
LEMMA EverySumSplits ==
    ASSUME NEW D, IsFiniteSet(D), NEW f \in [D -> Int], NEW s, SumsUp(s, f, D)
    PROVE  \A T \in SUBSET D :
              s[T] \in Int /\ \A x \in T : s[T \ {x}] \in Int /\ s[T] = f[x] + s[T \ {x}]
<1> DEFINE Good == {T \in SUBSET D :
                      /\ s[T] \in Int
                      /\ \A x \in T : s[T \ {x}] \in Int /\ s[T] = f[x] + s[T \ {x}]}
<1>1. ASSUME NEW T \in SUBSET D, \A x \in T : T \ {x} \in Good PROVE T \in Good
  <2>1. CASE T = {}
    BY <2>1 DEF SumsUp
  <2>2. CASE T # {}
    <3> DEFINE c == Some(T)
    <3>1. c \in T /\ s[T] = f[c] + s[T \ {c}] /\ T \ {c} \in Good
      BY <1>1, <2>2 DEF SumsUp
    <3> HIDE DEF c
    <3>2. s[T] \in Int
      BY <3>1
    <3>3. ASSUME NEW x \in T, x # c PROVE s[T \ {x}] \in Int /\ s[T] = f[x] + s[T \ {x}]
      <4>1. T \ {x} \in Good /\ c \in T \ {x} /\ x \in T \ {c}
        BY <1>1, <3>1, <3>3
      <4> DEFINE U == (T \ {x}) \ {c}
      <4>2. s[T \ {x}] = f[c] + s[U] /\ s[T \ {x}] \in Int /\ s[U] \in Int
        BY <4>1
      <4>3. U = (T \ {c}) \ {x}
        OBVIOUS
      <4>4. s[T \ {c}] = f[x] + s[U]
        BY <3>1, <4>1, <4>3
      <4>5. f[c] \in Int /\ f[x] \in Int
        BY <3>1
      <4> HIDE DEF U
      <4>. QED
        BY <3>1, <4>2, <4>4, <4>5
    <3>. QED
      BY <3>1, <3>2, <3>3
  <2>. QED
    BY <2>1, <2>2
<1> HIDE DEF Good
<1>2. \A T \in SUBSET D : T \in Good
  BY <1>1, AllSubsets
<1>. QED
  BY <1>2 DEF Good

LEMMA SumSplits ==
    ASSUME NEW D, IsFiniteSet(D), NEW f \in [D -> Int], NEW s, SumsUp(s, f, D),
           NEW T \in SUBSET D, NEW x \in T
    PROVE  s[T] \in Int /\ s[T] = f[x] + s[T \ {x}]
<1>1. \A U \in SUBSET D : s[U] \in Int /\ \A y \in U : s[U \ {y}] \in Int /\ s[U] = f[y] + s[U \ {y}]
  BY ONLY EverySumSplits, IsFiniteSet(D), f \in [D -> Int], SumsUp(s, f, D)
<1>. QED
  BY <1>1

LEMMA SumsAreNumbers ==
    ASSUME NEW D, IsFiniteSet(D), NEW f \in [D -> Int], NEW s, SumsUp(s, f, D)
    PROVE  s[D] \in Int
<1>1. \A U \in SUBSET D : s[U] \in Int /\ \A y \in U : s[U \ {y}] \in Int /\ s[U] = f[y] + s[U \ {y}]
  BY EverySumSplits
<1>. QED
  BY <1>1

LEMMA FoldIsSum ==
    ASSUME NEW s
    PROVE  FoldSeq(LAMBDA hits, sum : hits + sum, 0, s) = SumFunction(s)
BY DEF FoldSeq, FoldFunction, FoldFunctionOnSet, MapThenFoldSet, SumFunction, SumFunctionOnSet

LEMMA SumOfNone == SumFunction(<< >>) = 0
<1>1. << >> \in [{} -> Int] /\ IsFiniteSet({})
  BY FS_EmptySet
<1>. QED
  BY <1>1, SumOfZeros

LEMMA SumIsANumber ==
    ASSUME NEW s \in Seq(Int)
    PROVE  SumFunction(s) \in Int
<1> DEFINE D == 1 .. Len(s)
<1>1. IsFiniteSet(D) /\ s \in [D -> Int]
  BY FS_Interval
<1> HIDE DEF D
<1>2. PICK r : SumsUp(r, s, D)
  BY <1>1, SumIsRecursive
<1>3. r[D] \in Int
  BY <1>1, <1>2, SumsAreNumbers
<1>. QED
  BY <1>2, <1>3 DEF SumsUp

LEMMA SumAppended ==
    ASSUME NEW s \in Seq(Int), NEW h \in Int
    PROVE  SumFunction(Append(s, h)) = SumFunction(s) + h
<1> DEFINE last == Len(s) + 1
           D == 1 .. Len(s)
           E == 1 .. last
           g == Append(s, h)
<1>1. /\ last \in E /\ last \notin D /\ E \ {last} = D /\ D \subseteq E
  OBVIOUS
<1>0. IsFiniteSet(D) /\ IsFiniteSet(E)
  BY FS_Interval
<1>2. s \in [D -> Int] /\ g \in [E -> Int]
  <2>1. g \in Seq(Int) /\ Len(g) = last
    OBVIOUS
  <2> HIDE DEF g
  <2>. QED
    BY <2>1
<1>3. g[last] = h /\ \A i \in D : g[i] = s[i]
  OBVIOUS
<1> HIDE DEF last, D, E, g
<1>4. PICK r : SumsUp(r, s, D)
  BY <1>0, <1>2, SumIsRecursive
<1>5. PICK q : SumsUp(q, g, E)
  BY <1>0, <1>2, SumIsRecursive
<1> DEFINE Good == {T \in SUBSET D : q[T] = r[T]}
<1>6. ASSUME NEW T \in SUBSET D, \A x \in T : T \ {x} \in Good PROVE T \in Good
  <2>1. CASE T = {}
    BY <1>4, <1>5, <2>1 DEF SumsUp
  <2>2. CASE T # {}
    <3> DEFINE c == Some(T)
    <3>1. T \in SUBSET E
      BY <1>1
    <3>2. c \in T /\ r[T] = s[c] + r[T \ {c}] /\ q[T] = g[c] + q[T \ {c}] /\ T \ {c} \in Good
      BY <1>4, <1>5, <1>6, <2>2, <3>1 DEF SumsUp
    <3>. QED
      BY <1>3, <3>2
  <2>. QED
    BY <2>1, <2>2
<1>7. D \in Good
  <2> HIDE DEF Good
  <2>. QED
    BY <1>0, <1>6, AllSubsets
<1>8. q[E] = g[last] + q[D]
  BY <1>0, <1>1, <1>2, <1>5, SumSplits
<1>9. r[D] \in Int
  BY <1>0, <1>2, <1>4, SumsAreNumbers
<1>. QED
  BY <1>3, <1>4, <1>5, <1>7, <1>8, <1>9 DEF SumsUp, g

LEMMA SumOfTail ==
    ASSUME NEW s \in Seq(Int), s # << >>
    PROVE  SumFunction(s) = Head(s) + SumFunction(Tail(s))
<1> DEFINE D == 1 .. Len(s)
           E == 1 .. Len(s) - 1
           g == Tail(s)
           Up(T) == {i + 1 : i \in T}
<1>0. IsFiniteSet(D) /\ IsFiniteSet(E)
  BY FS_Interval
<1>1. 1 \in D /\ E \subseteq Int
  OBVIOUS
<1>2. s \in [D -> Int] /\ g \in [E -> Int]
  <2>1. g \in Seq(Int) /\ Len(g) = Len(s) - 1
    OBVIOUS
  <2> HIDE DEF g
  <2>. QED
    BY <2>1
<1>3. Head(s) = s[1] /\ \A i \in E : g[i] = s[i + 1]
  OBVIOUS
<1>4. (\A i \in E : i + 1 \in D) /\ Up(E) = D \ {1}
  <2>1. \A i \in D \ {1} : i - 1 \in E /\ i = (i - 1) + 1
    OBVIOUS
  <2>2. \A i \in E : i + 1 \in D /\ i + 1 # 1
    OBVIOUS
  <2> HIDE DEF D, E
  <2>. QED
    BY <2>1, <2>2
<1> HIDE DEF D, E, g
<1>5. PICK r : SumsUp(r, s, D)
  BY <1>0, <1>2, SumIsRecursive
<1>6. PICK q : SumsUp(q, g, E)
  BY <1>0, <1>2, SumIsRecursive
<1> DEFINE Good == {T \in SUBSET E : q[T] = r[Up(T)]}
<1>7. ASSUME NEW T \in SUBSET E, \A x \in T : T \ {x} \in Good PROVE T \in Good
  <2>1. CASE T = {}
    <3>1. Up(T) = {}
      BY <2>1
    <3>. QED
      BY <1>5, <1>6, <2>1, <3>1 DEF SumsUp
  <2>2. CASE T # {}
    <3> DEFINE c == Some(T)
    <3>1. c \in T /\ q[T] = g[c] + q[T \ {c}] /\ T \ {c} \in Good
      BY <1>6, <1>7, <2>2 DEF SumsUp
    <3> HIDE DEF c
    <3>2. Up(T) \in SUBSET D /\ c + 1 \in Up(T) /\ Up(T) \ {c + 1} = Up(T \ {c})
      BY <1>1, <1>4, <3>1
    <3>3. r[Up(T)] = s[c + 1] + r[Up(T) \ {c + 1}]
      <4> HIDE DEF Up
      <4>. QED
        BY <1>0, <1>2, <1>5, <3>2, SumSplits
    <3>. QED
      BY <1>3, <3>1, <3>2, <3>3
  <2>. QED
    BY <2>1, <2>2
<1>8. E \in Good
  <2> HIDE DEF Good
  <2>. QED
    BY <1>0, <1>7, AllSubsets
<1>9. r[D] = s[1] + r[D \ {1}]
  <2>1. D \in SUBSET D /\ 1 \in D
    BY <1>1
  <2>. QED
    BY ONLY <1>0, <1>2, <1>5, <2>1, SumSplits
<1>. QED
  BY <1>3, <1>4, <1>5, <1>6, <1>8, <1>9 DEF SumsUp, g

-----------------------------------------------------------------------------
(* Hits of the simulator.                                                  *)

Positive(hits) == \A i \in 1 .. Len(hits) : hits[i] > 0

LEMMA HitsAreSummed ==
    ASSUME NEW p
    PROVE  Hits(p) = SumFunction(plans[p])
BY FoldIsSum DEF Hits

LEMMA WhatIsAsked ==
    ASSUME NEW o \in DOMAIN Operations
    PROVE  Operations[o].of \in Simulated /\ DOMAIN Operations[o].asks \subseteq Nat
<1> DEFINE Codes == {"command_timeout", "transient_command_failure", "ambiguous_physical_result",
                     "validator_unavailable", "bill_jam", "bill_rejected", "motor_fault",
                     "power_loss_during_motion", "window_fault", "payout_unavailable",
                     "partial_payout", "watchdog_fault"}
           Asked == Seq(Codes)
<1>1. << >> \in Asked
  BY EmptySeq
<1>2. ASSUME NEW s \in Asked, NEW t \in Asked PROVE s \o t \in Asked
  BY ConcatProperties
<1>3. ASSUME NEW s \in Asked, NEW x \in Codes PROVE Append(s, x) \in Asked
  BY AppendProperties
<1>4. ASSUME NEW x \in Codes, NEW y \in Codes, NEW z \in Codes
      PROVE  <<x, y>> \in Asked /\ <<x, y, z>> \in Asked
  OBVIOUS
<1>5. Passing \in Asked
  BY <1>4 DEF Passing
<1>6. Unclear \in Asked
  BY <1>3, <1>5 DEF Unclear
<1>7. Operations[o].of \in Simulated
  BY DEF Operations, Simulated
<1>8. Operations[o].asks \in Asked
  <2>1. "watchdog_fault" \in Codes /\ "validator_unavailable" \in Codes /\ "window_fault" \in Codes
    OBVIOUS
  <2>2. /\ <<"bill_jam", "bill_rejected">> \in Asked
        /\ <<"motor_fault", "power_loss_during_motion">> \in Asked
        /\ <<"payout_unavailable", "ambiguous_physical_result", "partial_payout">> \in Asked
    BY <1>4
  <2> HIDE DEF Codes, Asked
  <2>. QED
    <3>1. o \in {"enable", "disable", "bill", "vend", "open", "close", "dispense", "arm", "kick", "disarm"}
      BY DEF Operations
    <3>2. CASE o = "enable"
      BY <1>3, <1>6, <2>1, <3>2 DEF Operations
    <3>3. CASE o = "open"
      BY <1>3, <1>6, <2>1, <3>3 DEF Operations
    <3>4. CASE o = "close"
      BY <1>3, <1>6, <2>1, <3>4 DEF Operations
    <3>5. CASE o = "disable"
      BY <1>6, <3>5 DEF Operations
    <3>6. CASE o = "bill"
      BY <2>2, <3>6 DEF Operations
    <3>7. CASE o = "kick"
      BY <1>5, <3>7 DEF Operations
    <3>8. CASE o = "disarm"
      BY <1>1, <3>8 DEF Operations
    <3>9. CASE o = "vend"
      BY <1>2, <1>6, <2>2, <3>9 DEF Operations
    <3>10. CASE o = "dispense"
      BY <1>2, <1>5, <2>2, <3>10 DEF Operations
    <3>11. CASE o = "arm"
      BY <1>3, <1>5, <2>1, <3>11 DEF Operations
    <3>. QED
      BY <3>1, <3>2, <3>3, <3>4, <3>5, <3>6, <3>7, <3>8, <3>9, <3>10, <3>11
<1>9. \A s \in Asked : DOMAIN s \subseteq Nat
  OBVIOUS
<1>. QED
  BY <1>7, <1>8, <1>9

\* A code that strikes has a hit to take.
LEMMA StruckBites ==
    ASSUME NEW o \in Played, Struck(o) # "none"
    PROVE  /\ PlanOf(o, Struck(o)) \in Plans /\ Bites(PlanOf(o, Struck(o)))
           /\ PlanOf(o, Struck(o))[1] = Operations[o].of
<1> DEFINE asks == Operations[o].asks
           biting == {i \in DOMAIN asks : /\ asks[i] \in PlayedCodes /\ Bites(PlanOf(o, asks[i]))
                                          /\ PayoutRefused(o) => asks[i] \in Retried}
<1>1. DOMAIN asks \subseteq Nat
  BY WhatIsAsked, SimulatorAssumption
<1>2. biting # {} /\ Struck(o) = asks[Min(biting)]
  BY DEF Struck
<1>3. biting \in SUBSET Nat
  <2> HIDE DEF asks
  <2>. QED
    BY <1>1
<1>4. Min(biting) \in biting
  <2> HIDE DEF biting
  <2>. QED
    BY <1>2, <1>3, LeastOf
<1>5. Struck(o) \in PlayedCodes /\ Bites(PlanOf(o, Struck(o)))
  <2> HIDE DEF asks
  <2>. QED
    BY <1>2, <1>4
<1>. QED
  BY <1>5 DEF Plans, PlanOf

LEMMA SpendingAHit ==
    ASSUME NEW hits \in Seq(Int), hits # << >>, Head(hits) # 0
    PROVE  /\ Spent(hits) \in Seq(Int)
           /\ Positive(hits) => Positive(Spent(hits)) /\ SumFunction(Spent(hits)) = SumFunction(hits) - 1
<1>1. CASE Head(hits) = 1
  <2>1. Spent(hits) = Tail(hits) /\ Tail(hits) \in Seq(Int)
    BY <1>1 DEF Spent
  <2>2. Positive(hits) => Positive(Tail(hits))
    BY DEF Positive
  <2>3. SumFunction(hits) = 1 + SumFunction(Tail(hits))
    BY <1>1, SumOfTail
  <2>4. SumFunction(Tail(hits)) \in Int
    BY <2>1, SumIsANumber
  <2>. QED
    BY <2>1, <2>2, <2>3, <2>4
<1>2. CASE Head(hits) # 1
  <2> DEFINE rest == [hits EXCEPT ![1] = IF @ > 0 THEN @ - 1 ELSE @]
  <2>1. Spent(hits) = rest
    BY <1>2 DEF Spent
  <2>2. rest \in Seq(Int) /\ Len(rest) = Len(hits) /\ rest # << >>
    OBVIOUS
  <2>3. ASSUME Positive(hits) PROVE Positive(rest) /\ SumFunction(rest) = SumFunction(hits) - 1
    <3>1. Head(hits) > 1 /\ hits[1] = Head(hits) /\ hits[1] \in Int
      BY <1>2, <2>3 DEF Positive
    <3>2. Head(rest) = Head(hits) - 1 /\ rest[1] = Head(hits) - 1
      BY <3>1
    <3>3. \A i \in 1 .. Len(hits) : i # 1 => rest[i] = hits[i]
      OBVIOUS
    <3>4. Tail(rest) = Tail(hits)
      BY <2>2, <3>3
    <3> HIDE DEF rest
    <3>5. SumFunction(rest) = Head(rest) + SumFunction(Tail(rest))
      BY <2>2, SumOfTail
    <3>6. SumFunction(hits) = Head(hits) + SumFunction(Tail(hits))
      BY SumOfTail
    <3>7. SumFunction(Tail(hits)) \in Int
      <4>1. Tail(hits) \in Seq(Int)
        OBVIOUS
      <4>. QED
        BY <4>1, SumIsANumber
    <3>8. Positive(rest)
      BY <2>2, <2>3, <3>1, <3>2, <3>3 DEF Positive
    <3>9. SumFunction(rest) = SumFunction(hits) - 1
      <4>1. SumFunction(rest) = (Head(hits) - 1) + SumFunction(Tail(hits))
        BY <3>2, <3>4, <3>5, Zenon
      <4>. QED
        BY <3>1, <3>6, <3>7, <4>1
    <3>. QED
      BY <3>8, <3>9
  <2>. QED
    BY <2>1, <2>2, <2>3
<1>. QED
  BY <1>1, <1>2

\* What was told of each code is what was taken, given up and is to come.
Tallied ==
    \A p \in Plans \ endless :
        Positive(plans[p]) /\ given[p] = bitten[p] + dropped[p] + SumFunction(plans[p])
Blamed == \A d \in Simulated : condition[d] = "FAULT" => d \in since
\* A bill is no command: it is never tried again.
Attempted == \A o \in Played : attempt[o] > 0 => o # "bill"
SimulatorInv == SimulatorTypeOK /\ Tallied /\ Blamed /\ Attempted

LEMMA SimulatorStarts == SimulatorInit => SimulatorInv
<1> SUFFICES ASSUME SimulatorInit PROVE SimulatorInv
  OBVIOUS
<1>1. << >> \in Seq(Int) /\ Positive(<< >>)
  BY EmptySeq DEF Positive
<1>2. SimulatorTypeOK
  <2>1. world \in Worlds
    BY DEF SimulatorInit, AtRest, Worlds
  <2>2. plans \in [Plans -> Seq(Int)]
    BY <1>1 DEF SimulatorInit
  <2>3. attempt \in [Played -> 0 .. SimulatorRetries + 1]
    BY SimulatorAssumption DEF SimulatorInit
  <2>4. given \in [Plans -> Int] /\ bitten \in [Plans -> Nat] /\ dropped \in [Plans -> Int]
    BY DEF SimulatorInit
  <2>. QED
    BY <2>1, <2>2, <2>3, <2>4 DEF SimulatorInit, SimulatorTypeOK
<1>3. Tallied
  BY <1>1, SumOfNone DEF SimulatorInit, Tallied
<1>4. Blamed
  BY DEF SimulatorInit, Blamed
<1>5. Attempted
  BY DEF SimulatorInit, Attempted
<1>. QED
  BY <1>2, <1>3, <1>4, <1>5 DEF SimulatorInv

\* An attempt that is struck takes one hit of one code, and blames its device.
LEMMA HitIsTallied ==
    ASSUME SimulatorInv, NEW o \in Played, Struck(o) # "none", TakesHit(o, Struck(o)),
           UNCHANGED <<told, dropped>>
    PROVE  /\ plans' \in [Plans -> Seq(Int)] /\ bitten' \in [Plans -> Nat]
           /\ since' = since \cup {Operations[o].of} /\ Tallied'
<1> DEFINE h == PlanOf(o, Struck(o))
<1>1. h \in Plans /\ h[1] = Operations[o].of /\ plans[h] # << >> /\ Head(plans[h]) # 0
  BY StruckBites DEF Bites
<1>2. /\ plans' = [plans EXCEPT ![h] = Spent(plans[h])] /\ bitten' = [bitten EXCEPT ![h] = bitten[h] + 1]
      /\ since' = since \cup {h[1]}
  BY DEF TakesHit
<1> HIDE DEF h
<1>3. plans \in [Plans -> Seq(Int)] /\ bitten \in [Plans -> Nat]
  BY DEF SimulatorInv, SimulatorTypeOK
<1>4. /\ Spent(plans[h]) \in Seq(Int)
      /\ Positive(plans[h]) => /\ Positive(Spent(plans[h]))
                               /\ SumFunction(Spent(plans[h])) = SumFunction(plans[h]) - 1
  BY <1>1, <1>3, SpendingAHit
<1>5. plans' \in [Plans -> Seq(Int)] /\ bitten' \in [Plans -> Nat]
  <2>1. plans' \in [Plans -> Seq(Int)]
    BY <1>2, <1>3, <1>4
  <2>2. bitten' \in [Plans -> Nat]
    <3>1. bitten[h] + 1 \in Nat
      BY <1>1, <1>3
    <3>. QED
      BY <1>2, <1>3, <3>1
  <2>. QED
    BY <2>1, <2>2
<1>6. ASSUME NEW p \in Plans \ endless'
      PROVE  Positive(plans'[p]) /\ given'[p] = bitten'[p] + dropped'[p] + SumFunction(plans'[p])
  <2>1. /\ p \in Plans \ endless /\ given'[p] = given[p] /\ dropped'[p] = dropped[p]
        /\ dropped[p] \in Int /\ bitten[p] \in Int
    BY <1>6 DEF told, SimulatorInv, SimulatorTypeOK
  <2>2. Positive(plans[p]) /\ given[p] = bitten[p] + dropped[p] + SumFunction(plans[p])
    BY <2>1 DEF SimulatorInv, Tallied
  <2>3. SumFunction(plans[p]) \in Int
    BY <1>3, <2>1, SumIsANumber
  <2>4. CASE p = h
    <3>1. plans'[p] = Spent(plans[h]) /\ bitten'[p] = bitten[p] + 1
      BY <1>2, <1>3, <2>1, <2>4
    <3>2. SumFunction(plans'[p]) = SumFunction(plans[p]) - 1 /\ Positive(plans'[p])
      BY <1>4, <2>2, <2>4, <3>1
    <3>. QED
      BY <2>1, <2>2, <2>3, <3>1, <3>2
  <2>5. CASE p # h
    <3>1. plans'[p] = plans[p] /\ bitten'[p] = bitten[p]
      BY <1>2, <1>3, <2>1, <2>5
    <3>. QED
      BY <2>1, <2>2, <3>1
  <2>. QED
    BY <2>4, <2>5
<1>7. Tallied'
  BY <1>6 DEF Tallied
<1>. QED
  BY <1>1, <1>2, <1>5, <1>7

\* Where no hit is told, taken or given up the tally stands.
LEMMA TallyStands ==
    ASSUME Tallied, UNCHANGED <<plans, told, bitten, dropped>>
    PROVE  Tallied'
BY DEF Tallied, told

LEMMA WhatIsDone ==
    ASSUME NEW o \in DOMAIN Operations, o # "bill", NEW w \in Worlds
    PROVE  Done(o, w) \in Worlds
<1>1. o \in {"enable", "disable", "vend", "open", "close", "dispense", "arm", "kick", "disarm"}
  BY DEF Operations
<1>2. w.vends + 1 \in Nat /\ w.payouts + 1 \in Nat
  BY DEF Worlds
<1>3. CASE o = "enable"
  BY <1>2, <1>3 DEF Done, Worlds
<1>4. CASE o = "disable"
  BY <1>2, <1>4 DEF Done, Worlds
<1>5. CASE o = "vend"
  BY <1>2, <1>5 DEF Done, Worlds
<1>6. CASE o = "open"
  BY <1>2, <1>6 DEF Done, Worlds
<1>7. CASE o = "close"
  BY <1>2, <1>7 DEF Done, Worlds
<1>8. CASE o = "dispense"
  BY <1>2, <1>8 DEF Done, Worlds
<1>9. CASE o = "arm"
  BY <1>2, <1>9 DEF Done, Worlds
<1>10. CASE o = "kick"
  BY <1>2, <1>10 DEF Done, Worlds
<1>11. CASE o = "disarm"
  BY <1>2, <1>11 DEF Done, Worlds
<1>. QED
  BY <1>1, <1>3, <1>4, <1>5, <1>6, <1>7, <1>8, <1>9, <1>10, <1>11

LEMMA TallyOfPlan ==
    ASSUME SimulatorInv, NEW p \in Plans, NEW hits \in Int, AddPlan(p, hits)
    PROVE  SimulatorInv'
<1>1. plans \in [Plans -> Seq(Int)] /\ plans[p] \in Seq(Int) /\ given \in [Plans -> Int]
  BY DEF SimulatorInv, SimulatorTypeOK
<1>2. Append(plans[p], hits) \in Seq(Int)
  BY <1>1, AppendProperties
<1>3. SimulatorTypeOK'
  <2>1. plans' \in [Plans -> Seq(Int)]
    BY <1>1, <1>2 DEF AddPlan
  <2>2. given' \in [Plans -> Int]
    BY <1>1 DEF AddPlan, SimulatorInv, SimulatorTypeOK
  <2>3. endless' \subseteq Plans /\ injected' \in Nat
    BY DEF AddPlan, SimulatorInv, SimulatorTypeOK
  <2>. QED
    BY <2>1, <2>2, <2>3 DEF AddPlan, SimulatorInv, SimulatorTypeOK
<1>4. ASSUME NEW q \in Plans \ endless'
      PROVE  Positive(plans'[q]) /\ given'[q] = bitten'[q] + dropped'[q] + SumFunction(plans'[q])
  <2>1. q \in Plans \ endless /\ (q = p => hits > 0)
    BY <1>4 DEF AddPlan
  <2>2. /\ bitten'[q] = bitten[q] /\ dropped'[q] = dropped[q] /\ dropped[q] \in Int /\ bitten[q] \in Int
        /\ plans[q] \in Seq(Int) /\ given[q] \in Int
    BY <2>1 DEF AddPlan, SimulatorInv, SimulatorTypeOK
  <2>3. Positive(plans[q]) /\ given[q] = bitten[q] + dropped[q] + SumFunction(plans[q])
    BY <2>1 DEF SimulatorInv, Tallied
  <2>4. CASE q = p
    <3>1. plans'[q] = Append(plans[q], hits) /\ given'[q] = given[q] + hits
      BY <1>1, <2>4 DEF AddPlan
    <3>2. SumFunction(Append(plans[q], hits)) = SumFunction(plans[q]) + hits
      BY <2>2, SumAppended
    <3>3. SumFunction(plans[q]) \in Int
      BY <2>2, SumIsANumber
    <3>4. Positive(Append(plans[q], hits))
      BY <2>1, <2>2, <2>3, <2>4 DEF Positive
    <3>. QED
      BY <2>2, <2>3, <3>1, <3>2, <3>3, <3>4
  <2>5. CASE q # p
    <3>1. plans'[q] = plans[q] /\ given'[q] = given[q]
      BY <1>1, <2>1, <2>5 DEF AddPlan
    <3>. QED
      BY <2>2, <2>3, <3>1
  <2>. QED
    BY <2>4, <2>5
<1>5. Tallied'
  BY <1>4 DEF Tallied
<1>6. Blamed'
  BY DEF AddPlan, SimulatorInv, Blamed
<1>7. Attempted'
  BY DEF AddPlan, SimulatorInv, Attempted
<1>. QED
  BY <1>3, <1>5, <1>6, <1>7 DEF SimulatorInv

LEMMA SimulatorKept == SimulatorInv /\ [SimulatorNext]_simulatorVars => SimulatorInv'
<1> SUFFICES ASSUME SimulatorInv, [SimulatorNext]_simulatorVars PROVE SimulatorInv'
  OBVIOUS
<1> USE DEF SimulatorInv
<1>0. /\ \A o \in Played : o \in DOMAIN Operations /\ Operations[o].of \in Simulated
      /\ SimulatorRetries \in Nat
  BY WhatIsAsked, SimulatorAssumption
<1>1. ASSUME NEW o \in Played, Begin(o) PROVE SimulatorInv'
  <2>1. attempt' \in [Played -> 0 .. SimulatorRetries + 1]
    BY <1>0, <1>1 DEF Begin, SimulatorTypeOK
  <2>2. SimulatorTypeOK'
    BY <1>1, <2>1 DEF Begin, Calls, told, SimulatorTypeOK
  <2>3. Tallied'
    BY <1>1, TallyStands DEF Begin
  <2>4. Blamed'
    BY <1>1 DEF Begin, Blamed
  <2>5. Attempted'
    BY <1>1 DEF Begin, Attempted, SimulatorTypeOK
  <2>. QED
    BY <2>2, <2>3, <2>4, <2>5
<1>2. ASSUME NEW o \in Played, ReplayAnswer(o) PROVE SimulatorInv'
  <2>1. SimulatorTypeOK'
    BY <1>0, <1>2 DEF ReplayAnswer, Sets, told, SimulatorTypeOK
  <2>2. Tallied'
    BY <1>2, TallyStands DEF ReplayAnswer
  <2>3. Blamed'
    BY <1>2 DEF ReplayAnswer, Sets, Blamed, SimulatorTypeOK
  <2>4. Attempted'
    BY <1>2 DEF ReplayAnswer, Attempted
  <2>. QED
    BY <2>1, <2>2, <2>3, <2>4
<1>3. ASSUME NEW o \in Played, AttemptGoesWell(o) PROVE SimulatorInv'
  <2>1. world' \in Worlds
    BY <1>0, <1>3, WhatIsDone DEF AttemptGoesWell, Attempted, SimulatorTypeOK
  <2>2. attempt' \in [Played -> 0 .. SimulatorRetries + 1]
    BY <1>0, <1>3 DEF AttemptGoesWell, EndsAttempt, SimulatorTypeOK
  <2>3. condition' \in [Simulated -> {"UNKNOWN", "READY", "DISABLED", "DEGRADED", "FAULT"}]
    BY <1>0, <1>3 DEF AttemptGoesWell, Sets, After, SimulatorTypeOK
  <2>4. SimulatorTypeOK'
    BY <1>3, <2>1, <2>2, <2>3 DEF AttemptGoesWell, TakesNone, told, SimulatorTypeOK
  <2>5. Tallied'
    BY <1>3, TallyStands DEF AttemptGoesWell, TakesNone
  <2>6. Blamed'
    BY <1>0, <1>3 DEF AttemptGoesWell, TakesNone, Sets, After, Blamed, SimulatorTypeOK
  <2>7. Attempted'
    BY <1>3 DEF AttemptGoesWell, EndsAttempt, Attempted, SimulatorTypeOK
  <2>. QED
    BY <2>4, <2>5, <2>6, <2>7
<1>4. ASSUME NEW o \in Played, AttemptIsStruck(o) PROVE SimulatorInv'
  <2> DEFINE code == Struck(o)
             d == Operations[o].of
  <2>1. /\ attempt[o] > 0 /\ code # "none" /\ TakesHit(o, code)
        /\ \/ /\ code \in Retried /\ attempt[o] <= SimulatorRetries
              /\ attempt' = [attempt EXCEPT ![o] = attempt[o] + 1] /\ Sets(d, "DEGRADED")
           \/ /\ attempt' = [attempt EXCEPT ![o] = 0]
              /\ Sets(d, "READY") \/ Sets(d, "FAULT")
        /\ world' \in {Done(o, world), world} /\ answered' \in {answered \cup {o}, answered}
        /\ UNCHANGED <<started, panel, polled, played, told, dropped>>
    BY <1>4 DEF AttemptIsStruck, EndsAttempt
  <2>2. /\ plans' \in [Plans -> Seq(Int)] /\ bitten' \in [Plans -> Nat]
        /\ since' = since \cup {d} /\ Tallied'
    BY <2>1, HitIsTallied
  <2>3. d \in Simulated
    BY <1>0
  <2> HIDE DEF code, d
  <2>4. world' \in Worlds
    <3>1. o \in DOMAIN Operations /\ o # "bill" /\ world \in Worlds
      BY <1>0, <2>1 DEF Attempted, SimulatorTypeOK
    <3>2. Done(o, world) \in Worlds
      BY <3>1, WhatIsDone
    <3>. QED
      BY <2>1, <3>1, <3>2
  <2>5. attempt' \in [Played -> 0 .. SimulatorRetries + 1]
    <3>1. /\ attempt \in [Played -> 0 .. SimulatorRetries + 1]
          /\ 0 \in 0 .. SimulatorRetries + 1
          /\ attempt[o] <= SimulatorRetries => attempt[o] + 1 \in 0 .. SimulatorRetries + 1
      BY <1>0 DEF SimulatorTypeOK
    <3>. QED
      BY <2>1, <3>1
  <2>6. condition' \in [Simulated -> {"UNKNOWN", "READY", "DISABLED", "DEGRADED", "FAULT"}]
    BY <2>1, <2>3 DEF Sets, SimulatorTypeOK
  <2>7. SimulatorTypeOK'
    BY <2>1, <2>2, <2>3, <2>4, <2>5, <2>6 DEF told, SimulatorTypeOK
  <2>8. Blamed'
    BY <2>1, <2>2, <2>3 DEF Sets, Blamed, SimulatorTypeOK
  <2>9. Attempted'
    BY <2>1 DEF Attempted, SimulatorTypeOK
  <2>. QED
    BY <2>2, <2>7, <2>8, <2>9
<1>5. ASSUME InsertBill PROVE SimulatorInv'
  <2>1. /\ "bill" \in Played /\ played' = played + 1
        /\ UNCHANGED <<started, attempt, answered, panel, polled, told, dropped>>
    BY <1>5 DEF InsertBill, Calls
  <2>2. Operations["bill"].of = "validator" /\ "validator" \in Simulated
    BY DEF Operations, Simulated
  <2>3. CASE Struck("bill") \in {"bill_jam", "bill_rejected"}
    <3>1. /\ TakesHit("bill", Struck("bill"))
          /\ condition' \in {condition, [condition EXCEPT !["validator"] = "FAULT"]}
          /\ world' \in {world, [world EXCEPT !.accepting = FALSE]}
      BY <1>5, <2>3 DEF InsertBill, Sets
    <3>2. /\ plans' \in [Plans -> Seq(Int)] /\ bitten' \in [Plans -> Nat]
          /\ since' = since \cup {"validator"} /\ Tallied'
      BY <2>1, <2>2, <2>3, <3>1, HitIsTallied
    <3>3. world' \in Worlds
      BY <3>1 DEF Worlds, SimulatorTypeOK
    <3>4. SimulatorTypeOK'
      BY <2>1, <2>2, <3>1, <3>2, <3>3 DEF told, SimulatorTypeOK
    <3>5. Blamed'
      BY <2>2, <3>1, <3>2 DEF Blamed, SimulatorTypeOK
    <3>6. Attempted'
      BY <2>1 DEF Attempted
    <3>. QED
      BY <3>2, <3>4, <3>5, <3>6
  <2>4. CASE Struck("bill") \notin {"bill_jam", "bill_rejected"}
    <3>1. UNCHANGED <<plans, bitten, since, world, condition>>
      BY <1>5, <2>4 DEF InsertBill, TakesNone
    <3>2. SimulatorTypeOK' /\ Attempted' /\ Blamed'
      BY <2>1, <3>1 DEF told, SimulatorTypeOK, Attempted, Blamed
    <3>3. Tallied'
      BY <2>1, <3>1, TallyStands
    <3>. QED
      BY <3>2, <3>3
  <2>. QED
    BY <2>3, <2>4
<1>6. ASSUME StartDevices PROVE SimulatorInv'
  <2>1. SimulatorTypeOK' /\ Attempted'
    BY <1>6 DEF StartDevices, told, SimulatorTypeOK, Attempted
  <2>2. Tallied'
    BY <1>6, TallyStands DEF StartDevices
  <2>3. Blamed'
    BY <1>6 DEF StartDevices, Blamed
  <2>. QED
    BY <2>1, <2>2, <2>3
<1>7. ASSUME StopDevices PROVE SimulatorInv'
  <2>1. SimulatorTypeOK' /\ Attempted'
    BY <1>7 DEF StopDevices, told, SimulatorTypeOK, Attempted
  <2>2. Tallied'
    BY <1>7, TallyStands DEF StopDevices
  <2>3. Blamed'
    BY <1>7 DEF StopDevices, Blamed
  <2>. QED
    BY <2>1, <2>2, <2>3
<1>8. ASSUME NEW p \in Plans, Inject(p) PROVE SimulatorInv'
  BY <1>8, TallyOfPlan DEF Inject
<1>9. ASSUME NEW p \in Plans, ConfiguredFault(p) PROVE SimulatorInv'
  BY <1>9, TallyOfPlan, SimulatorAssumption DEF ConfiguredFault
<1>10. ASSUME SetSensor PROVE SimulatorInv'
  <2>1. /\ UNCHANGED <<started, plans, attempt, answered, world, told, bitten, dropped, since, condition>>
        /\ \E on \in BOOLEAN : panel' \in {[panel EXCEPT !.door = on], [panel EXCEPT !.hot = on],
                                           [panel EXCEPT !.present = on]}
        /\ PollHealth \/ UNCHANGED polled
    BY <1>10 DEF SetSensor
  <2>2. panel' \in [door : BOOLEAN, hot : BOOLEAN, present : BOOLEAN]
    BY <2>1 DEF SimulatorTypeOK
  <2>3. polled' \subseteq Simulated \cup {"door", "temperature"}
    BY <2>1 DEF PollHealth, ShownFor, SimulatorTypeOK
  <2>4. SimulatorTypeOK' /\ Attempted' /\ Blamed'
    BY <2>1, <2>2, <2>3 DEF told, SimulatorTypeOK, Attempted, Blamed
  <2>5. Tallied'
    BY <2>1, TallyStands
  <2>. QED
    BY <2>4, <2>5
<1>11. ASSUME ClearSimulatorFaults PROVE SimulatorInv'
  <2>1. \A p \in Plans : /\ Hits(p) = SumFunction(plans[p]) /\ SumFunction(plans[p]) \in Int
                         /\ dropped[p] \in Int /\ bitten[p] \in Int
    BY HitsAreSummed, SumIsANumber DEF SimulatorTypeOK
  <2>2. /\ plans' = [p \in Plans |-> << >>] /\ dropped' = [p \in Plans |-> dropped[p] + Hits(p)]
        /\ UNCHANGED <<started, attempt, answered, world, played, panel, told, bitten>>
        /\ condition' = [d \in Simulated |-> "READY"] /\ since' = {} /\ PollHealth
    BY <1>11 DEF ClearSimulatorFaults
  <2>3. << >> \in Seq(Int) /\ Positive(<< >>)
    BY EmptySeq DEF Positive
  <2>4. dropped' \in [Plans -> Int] /\ plans' \in [Plans -> Seq(Int)]
    BY <2>1, <2>2, <2>3
  <2>5. polled' \subseteq Simulated \cup {"door", "temperature"}
    BY <2>2 DEF PollHealth, ShownFor
  <2>6. SimulatorTypeOK' /\ Attempted' /\ Blamed'
    BY <2>2, <2>4, <2>5 DEF told, SimulatorTypeOK, Attempted, Blamed
  <2>7. ASSUME NEW p \in Plans \ endless'
        PROVE  Positive(plans'[p]) /\ given'[p] = bitten'[p] + dropped'[p] + SumFunction(plans'[p])
    <3>1. p \in Plans \ endless /\ given'[p] = given[p] /\ bitten'[p] = bitten[p]
      BY <2>2 DEF told
    <3>2. dropped'[p] = dropped[p] + SumFunction(plans[p]) /\ plans'[p] = << >>
      BY <2>1, <2>2
    <3>3. given[p] = bitten[p] + dropped[p] + SumFunction(plans[p])
      BY <3>1 DEF Tallied
    <3>. QED
      BY <2>1, <2>3, <3>1, <3>2, <3>3, SumOfNone
  <2>8. Tallied'
    BY <2>7 DEF Tallied
  <2>. QED
    BY <2>6, <2>8
<1>12. ASSUME UNCHANGED simulatorVars PROVE SimulatorInv'
  BY <1>12 DEF simulatorVars, SimulatorTypeOK, Tallied, Blamed, Attempted
<1>. QED
  BY <1>1, <1>2, <1>3, <1>4, <1>5, <1>6, <1>7, <1>8, <1>9, <1>10, <1>11, <1>12 DEF SimulatorNext

\* A fault that was injected bites exactly as often as it was told to: of the
\* hits of a code each was taken by one attempt, given up by a clear, or is
\* still to come; and no device is at fault that was not struck since it was
\* last cleared or started (faults.py:45-73, base.py:92-182,
\* command_policy.py:120).  For any commands, codes, hits, retries and plans.
THEOREM FaultsBiteAsTold == SimulatorSpec => []HitsAreSpent
<1>1. SimulatorInv => HitsAreSpent
  BY HitsAreSummed DEF SimulatorInv, Tallied, Blamed, HitsAreSpent
<1>. QED
  BY <1>1, SimulatorStarts, SimulatorKept, PTL DEF SimulatorSpec

(***************************************************************************)
(* Types.  What the module of each device says of its variables, of any    *)
(* number of callers, clients, senders and plans, and for any bounds.      *)
(***************************************************************************)

\* The device command runner.
LEMMA KeysMove ==
    ASSUME recent \in Seq(Keys), NEW k \in Keys
    PROVE  /\ ToEnd(k) \in Seq(Keys) /\ ToEnd(k) # << >>
<1> DEFINE found == {i \in 1 .. Len(recent) : recent[i] = k}
           at == Min(found)
<1>1. RemoveFirst(recent, k) = IF found = {} THEN recent ELSE SubSeq(recent, 1, at - 1) \o SubSeq(recent, at + 1, Len(recent))
  BY DEF RemoveFirst, RemoveAt, SelectInSeq
<1>2. RemoveFirst(recent, k) \in Seq(Keys)
  <2>1. CASE found = {}
    BY <1>1, <2>1
  <2>2. CASE found # {}
    <3>1. at \in found
      <4>1. found \in SUBSET Nat
        OBVIOUS
      <4> HIDE DEF found
      <4>. QED
        BY <2>2, <4>1, LeastOf
    <3>2. at \in 1 .. Len(recent)
      BY <3>1
    <3> HIDE DEF at
    <3>3. SubSeq(recent, 1, at - 1) \in Seq(Keys) /\ SubSeq(recent, at + 1, Len(recent)) \in Seq(Keys)
      BY <3>2, SubSeqProperties
    <3>. QED
      BY <1>1, <2>2, <3>3, ConcatProperties
  <2>. QED
    BY <2>1, <2>2
<1>. QED
  BY <1>2, AppendProperties DEF ToEnd

LEMMA CacheIsTyped ==
    ASSUME RunnerTypeOK, NEW k \in Keys, NEW answer \in CachedAnswers, CacheSet(k, answer)
    PROVE  /\ recent' \in Seq(Keys) /\ cachedAnswer' \in [Keys -> CachedAnswers] /\ excused' \subseteq Keys
<1> DEFINE kept == ToEnd(k)
<1>1. kept \in Seq(Keys) /\ kept # << >>
  BY KeysMove DEF RunnerTypeOK
<1>2. Tail(kept) \in Seq(Keys) /\ Head(kept) \in Keys
  BY <1>1, HeadTailProperties
<1> HIDE DEF kept
<1>3. \/ recent' = kept /\ cachedAnswer' = [cachedAnswer EXCEPT ![k] = answer] /\ excused' = excused
      \/ /\ recent' = Tail(kept) /\ excused' = excused \cup {Head(kept)}
         /\ cachedAnswer' = [cachedAnswer EXCEPT ![k] = answer, ![Head(kept)] = "none"]
  BY DEF CacheSet, kept
<1>. QED
  BY <1>1, <1>2, <1>3 DEF RunnerTypeOK, CachedAnswers

LEMMA RunnerTypes == RunnerSpec => []RunnerTypeOK
<1>1. RunnerInit => RunnerTypeOK
  BY EmptySeq, RunnerAssumption DEF RunnerInit, RunnerTypeOK, CachedAnswers, MaxAttempts
<1>2. RunnerTypeOK /\ [RunnerNext]_runnerVars => RunnerTypeOK'
  <2> SUFFICES ASSUME RunnerTypeOK, [RunnerNext]_runnerVars PROVE RunnerTypeOK'
    OBVIOUS
  <2>1. ASSUME NEW c \in Callers, Running(c)
        PROVE  call[c].key \in Keys /\ call[c].attempt \in 1 .. MaxAttempts
               /\ call[c] = [key |-> call[c].key, attempt |-> call[c].attempt]
    BY <2>1 DEF RunnerTypeOK, Running, Idle
  <2>2. ASSUME NEW c \in Callers, Ends(c)
        PROVE  call' \in [Callers -> [key : Keys, attempt : 1 .. MaxAttempts] \cup {Idle}]
    BY <2>2 DEF RunnerTypeOK, Ends
  <2>3. ASSUME NEW c \in Callers, Running(c), ~LastAttempt(c), TryAgain(c)
        PROVE  /\ call' \in [Callers -> [key : Keys, attempt : 1 .. MaxAttempts] \cup {Idle}]
               /\ recent' = recent /\ cachedAnswer' = cachedAnswer /\ health' = "DEGRADED"
    <3>1. MaxAttempts \in Nat
      BY RunnerAssumption DEF MaxAttempts
    <3>. QED
      BY <2>1, <2>3, <3>1 DEF RunnerTypeOK, TryAgain, LastAttempt
  <2>4. ASSUME NEW k \in Keys, MayMove(k) \/ Moves(k) PROVE moves' \in [Keys -> Nat]
    BY <2>4 DEF RunnerTypeOK, MayMove, Moves
  <2>5. ASSUME NEW c \in Callers, NEW k \in Keys, Replay(c, k) PROVE RunnerTypeOK'
    <3>1. recent' \in Seq(Keys)
      BY <2>5, KeysMove DEF RunnerTypeOK, Replay
    <3>. QED
      BY <2>5, <3>1 DEF RunnerTypeOK, Replay
  <2>6. ASSUME NEW c \in Callers, NEW k \in Keys, Execute(c, k) PROVE RunnerTypeOK'
    <3>1. 1 \in 1 .. MaxAttempts
      BY RunnerAssumption DEF MaxAttempts
    <3>. QED
      BY <2>6, <3>1 DEF RunnerTypeOK, Execute
  <2>7. ASSUME NEW c \in Callers, Succeeds(c) PROVE RunnerTypeOK'
    BY <2>1, <2>2, <2>4, <2>7, CacheIsTyped DEF RunnerTypeOK, Succeeds, CachedAnswers
  <2>8. ASSUME NEW c \in Callers, AnswersAmbiguous(c) PROVE RunnerTypeOK'
    BY <2>1, <2>2, <2>4, <2>8, CacheIsTyped DEF RunnerTypeOK, AnswersAmbiguous, CachedAnswers
  <2>9. ASSUME NEW c \in Callers, TimesOut(c) PROVE RunnerTypeOK'
    BY <2>1, <2>2, <2>3, <2>4, <2>9 DEF RunnerTypeOK, TimesOut, UncachedEnd
  <2>10. ASSUME NEW c \in Callers, RaisesAdapterError(c) PROVE RunnerTypeOK'
    BY <2>1, <2>2, <2>4, <2>10 DEF RunnerTypeOK, RaisesAdapterError, UncachedEnd
  <2>11. ASSUME NEW c \in Callers, NEW retryable \in BOOLEAN, AnswersFault(c, retryable) PROVE RunnerTypeOK'
    BY <2>1, <2>2, <2>3, <2>11, CacheIsTyped DEF RunnerTypeOK, AnswersFault, CachedAnswers
  <2>12. ASSUME NEW c \in Callers, NEW retryable \in BOOLEAN, RaisesCommandError(c, retryable) PROVE RunnerTypeOK'
    BY <2>1, <2>2, <2>3, <2>12 DEF RunnerTypeOK, RaisesCommandError, UncachedEnd
  <2>13. CASE UNCHANGED runnerVars
    BY <2>13 DEF RunnerTypeOK, runnerVars
  <2>. QED
    BY <2>5, <2>6, <2>7, <2>8, <2>9, <2>10, <2>11, <2>12, <2>13 DEF RunnerNext, AttemptEnds
<1>. QED
  BY <1>1, <1>2, PTL DEF RunnerSpec

\* The Arduino.
LEMMA ArduinoTypes == ArduinoSpec => []ArduinoTypeOK
<1> DEFINE Numbered == /\ asked \in 0 .. MaxAsked /\ faults \in 0 .. MaxFaults
                       /\ \A c \in Clients : client[c].id \in 0 .. MaxAsked
<1>1. ArduinoInit => Numbered
  BY ArduinoAssumption DEF ArduinoInit, Idling
<1>2. BoardInvariant /\ Numbered /\ [ArduinoNext]_arduinoVars => Numbered'
  <2> SUFFICES ASSUME BoardTyped, Numbered, [ArduinoNext]_arduinoVars PROVE Numbered'
    BY DEF BoardInvariant
  <2>1. CASE \/ StartWindow \/ OpenPort \/ ClosePort \/ BoardExecutes \/ BoardResets \/ StrayReads
             \/ UNCHANGED arduinoVars
    BY <2>1, ArduinoAssumption DEF StartWindow, OpenPort, ClosePort, BoardExecutes, BoardResets, StrayReads, arduinoVars
  <2>2. ASSUME NEW c \in Clients, NEW cmd \in BoardCommands, Ask(c, cmd) PROVE Numbered'
    BY <2>2, ArduinoAssumption DEF Ask, BoardTyped
  <2>3. ASSUME NEW c \in Clients,
               \/ client' = [client EXCEPT ![c] = Idling] \/ client' = [client EXCEPT ![c].at = "reading"]
               \/ client' = [client EXCEPT ![c].lines = Append(@, Head(fromBoard).of)] \/ UNCHANGED client
        PROVE  \A d \in Clients : client'[d].id \in 0 .. MaxAsked
    <3>1. client \in [Clients -> ClientStates] /\ Idling.id \in 0 .. MaxAsked
      BY ArduinoAssumption DEF BoardTyped, Idling
    <3>. QED
      BY <2>3, <3>1 DEF ClientStates
  <2>4. ASSUME NEW c \in Clients, Send(c) \/ SendFails(c) PROVE Numbered'
    <3>1. asked' \in 0 .. MaxAsked /\ faults' \in 0 .. MaxFaults
      BY <2>4, ArduinoAssumption DEF Send, SendFails
    <3>2. client' = [client EXCEPT ![c] = Idling] \/ client' = [client EXCEPT ![c].at = "reading"]
      BY <2>4 DEF Send, SendFails
    <3>. QED
      BY <2>3, <3>1, <3>2
  <2>5. ASSUME NEW c \in Clients, ReadsLine(c) \/ TimesUp(c) PROVE Numbered'
    <3>1. UNCHANGED <<asked, faults>>
      BY <2>5 DEF ReadsLine, TimesUp
    <3>2. \/ client' = [client EXCEPT ![c] = Idling]
          \/ client' = [client EXCEPT ![c].lines = Append(@, Head(fromBoard).of)]
      BY <2>5 DEF ReadsLine, TimesUp, Return
    <3>. QED
      BY <2>3, <3>1, <3>2
  <2>. QED
    BY <2>1, <2>2, <2>4, <2>5 DEF ArduinoNext
<1>3. BoardInvariant /\ Numbered => ArduinoTypeOK
  <2> SUFFICES ASSUME BoardTyped, Numbered PROVE ArduinoTypeOK
    BY DEF BoardInvariant
  <2>1. \A i \in DOMAIN toBoard : toBoard[i] \in BoardLineCommands
    BY DEF BoardTyped
  <2>2. \A i \in DOMAIN fromBoard : fromBoard[i] \in BoardLines
    BY DEF BoardTyped
  <2>. QED
    BY <2>1, <2>2 DEF BoardTyped, ArduinoTypeOK, BoardLineCommands, BoardLines, ClientStates
<1> HIDE DEF Numbered
<1>. QED
  BY <1>1, <1>2, <1>3, BoardHolds, PTL DEF ArduinoSpec

\* The validator.
LEMMA LinkTypes == LinkSpec => []LinkTypeOK
<1> DEFINE Sent == sent \in Nat
<1>1. LinkInit => ValidatorTyped /\ Sent
  BY ValidatorStarts DEF LinkInit, ValidatorInvariant
<1>2. Sent /\ [LinkNext]_linkVars => Sent'
  <2> SUFFICES ASSUME Sent, [LinkNext]_linkVars PROVE Sent'
    OBVIOUS
  <2>1. ASSUME NEW c \in Senders, NEW on \in BOOLEAN, AskCommand(c, on) PROVE Sent'
    BY <2>1 DEF AskCommand
  <2>2. ASSUME NEW c \in Senders, SendCommand(c) \/ CommandReads(c) \/ CommandGivenUp(c) PROVE sent' = sent
    BY <2>2 DEF SendCommand, CommandReads, CommandGivenUp
  <2>3. ASSUME \/ StackABill \/ PollWrites \/ PollReads \/ PollFails \/ PollDisables
               \/ StartLink \/ StopLink \/ ShutDown \/ PortCloses \/ UNCHANGED linkVars
        PROVE  sent' = sent
    BY <2>3 DEF StackABill, PollWrites, PollReads, PollFails, PollDisables, StartLink, StopLink,
                ShutDown, PortCloses, linkVars
  <2>. QED
    BY <2>1, <2>2, <2>3 DEF LinkNext
<1>3. ValidatorTyped /\ Sent => LinkTypeOK
  <2> SUFFICES ASSUME ValidatorTyped, Sent PROVE LinkTypeOK
    OBVIOUS
  <2>1. reports \in Seq(Frames)
    BY DEF ValidatorTyped, Frames
  <2>. QED
    BY <2>1 DEF ValidatorTyped, LinkTypeOK
<1> HIDE DEF Sent
<1>. QED
  BY <1>1, <1>2, <1>3, ValidatorTypedKept, PTL DEF LinkSpec

\* The simulated devices.
LEMMA SimulatorTypes == SimulatorSpec => []SimulatorTypeOK
<1>1. SimulatorInv => SimulatorTypeOK
  BY DEF SimulatorInv
<1>. QED
  BY <1>1, SimulatorStarts, SimulatorKept, PTL DEF SimulatorSpec

=============================================================================
