---------------------------- MODULE ValidatorLink ---------------------------
(***************************************************************************)
(* The serial link of the bill validator: the adapter's poll loop and its  *)
(* commands (devices/dbv300sd/adapter.py), the JCM protocol they speak     *)
(* (protocol/jcm_serial.py) and the port (transport/serial_transport.py).  *)
(*                                                                         *)
(* An exchange writes a frame, sleeps and reads whatever has arrived.  No  *)
(* lock covers it: the poll loop and the commands share the port, and a    *)
(* reader takes the replies of the others as its own.  A command only looks*)
(* at the first frame it read; an empty read counts as success.            *)
(***************************************************************************)
EXTENDS Naturals, Sequences, FiniteSets, SequencesExt

CONSTANTS
    Senders,        \* coroutines that switch acceptance on and off
    MaxBills,       \* bound: bills the device stacks
    MaxRefusals,    \* bound: commands it refuses
    MaxCommands,    \* bound: commands sent
    LineCap         \* bound: frames waiting at the port

ASSUME LinkAssumption == {MaxBills, MaxRefusals, MaxCommands, LineCap} \subseteq Nat

VARIABLES
    link,       \* the adapter: "off", "on"; in stop(): "stopping", then "closing" once
                \* the acceptance was switched off (_started until the port is closed)
    line,        \* frames at the port that nobody has read
    poller,      \* the poll task: "none", "sleeps", "waits", "disables"
    sender,      \* each command: "idle", "asked", "waits", and what it asks for
    sent,        \* commands so far
    accepting,   \* external: the device takes bills
    reports,     \* external: frames the device will answer the next poll with
    taken, refused,        \* history: bills stacked, commands refused
    credited, admitted,    \* history: BILL_STACKED events queued, refusals raised or queued
    disturbed,   \* history: exchanges overlapped, a read was cut, or one was given up
    against      \* history: what worked against the last stop(), see AgainstStop

linkVars == <<link, line, poller, sender, sent, accepting, reports, taken, refused,
              credited, admitted, disturbed, against>>

Frames == {"ack", "bill", "error"}

\* No stop() since a crash that left the device accepting; an enable that was not
\* yet written when stop() began, or asked for during it; its switch refused; a
\* port that raised and did not write it.
AgainstStop == {"crash", "enable", "refused", "unwritten"}

Count(frame, frames) == Cardinality({i \in DOMAIN frames : frames[i] = frame})

Unengaged == [at |-> "idle", on |-> FALSE]

LinkInit ==
    /\ link = "off" /\ line = << >> /\ poller = "none"
    /\ sender = [c \in Senders |-> Unengaged] /\ sent = 0
    /\ accepting \in BOOLEAN /\ against = {c \in {"crash"} : accepting} /\ reports = << >>
    /\ taken = 0 /\ refused = 0 /\ credited = 0 /\ admitted = 0 /\ disturbed = FALSE

-----------------------------------------------------------------------------
(* The device, as the protocol module expects it.                          *)

StackABill ==
    /\ accepting /\ taken < MaxBills
    /\ taken' = taken + 1 /\ reports' = Append(reports, "bill")
    /\ UNCHANGED <<link, line, poller, sender, sent, accepting, refused,
                   credited, admitted, disturbed, against>>

\* A poll is answered with what happened since the last one.
AnswerPoll(arrived) ==
    /\ line' = arrived \o IF reports = << >> THEN <<"ack">> ELSE reports
    /\ reports' = << >>

\* SET_ACCEPTANCE is obeyed, or refused with an error frame.
AnswerSwitch(arrived, on) ==
    \/ /\ line' = Append(arrived, "ack") /\ accepting' = on
       /\ refused' = refused
    \/ /\ refused < MaxRefusals
       /\ line' = Append(arrived, "error") /\ accepting' = accepting
       /\ refused' = refused + 1

-----------------------------------------------------------------------------
(* Exchanges.                                                              *)

InExchange == (IF poller \in {"waits", "disables"} THEN {"poller"} ELSE {})
                 \cup (IF link = "closing" THEN {"stop"} ELSE {})
                 \cup {c \in Senders : sender[c].at = "waits"}

\* transport.read: the frames at the port.  The bytes of a frame that was cut
\* are not kept for the next read: the frame is gone.
Arrived == {line} \cup {Front(l) : l \in {line} \ {<< >>}}

ReadLine(frames) == line' = << >> /\ disturbed' = (disturbed \/ frames # line)

Writes == disturbed' = (disturbed \/ InExchange # {})

PollWrites ==
    /\ poller = "sleeps" /\ link = "on" /\ Len(line) + Len(reports) < LineCap
    /\ Writes /\ AnswerPoll(line) /\ poller' = "waits"
    /\ UNCHANGED <<link, sender, sent, accepting, taken, refused, credited, admitted, against>>

\* Mutant: a poll translates the first frame only.
FirstOf(frames) ==
    /\ credited' = credited + IF frames # << >> /\ Head(frames) = "bill" THEN 1 ELSE 0
    /\ admitted' = admitted + IF frames # << >> /\ Head(frames) = "error" THEN 1 ELSE 0

\* _translate_frame: each bill and each error becomes an event.
Translate(frames) ==
    /\ credited' = credited + Count("bill", frames)
    /\ admitted' = admitted + Count("error", frames)

PollReads ==
    \E frames \in Arrived :
        /\ poller = "waits" /\ ReadLine(frames)
        /\ Translate(frames) /\ poller' = "sleeps"
        /\ UNCHANGED <<link, sender, sent, accepting, reports, taken, refused, against>>

\* The port raises: VALIDATOR_FAULT is queued and the device is switched off,
\* if the port lets it and the device obeys; the reply is read and ignored.
PollFails ==
    /\ poller = "waits" /\ Len(line) < LineCap
    /\ AnswerSwitch(line, FALSE) \/ UNCHANGED <<line, accepting, refused>>
    /\ disturbed' = TRUE
    /\ poller' = "disables"
    /\ UNCHANGED <<link, sender, sent, reports, taken, credited, admitted, against>>

PollDisables ==
    /\ poller = "disables" /\ ReadLine(line) /\ poller' = "sleeps"
    /\ UNCHANGED <<link, sender, sent, accepting, reports, taken, refused,
                   credited, admitted, against>>

\* enable_acceptance and disable_acceptance: _require_started, then the runner
\* schedules the operation; stop() keeps _started set until the port is closed.  A
\* repetition by the runner is a command that is asked for again.
AskCommand(c, on) ==
    /\ link # "off" /\ sender[c].at = "idle" /\ sent < MaxCommands
    /\ sender' = [sender EXCEPT ![c] = [at |-> "asked", on |-> on]]
    /\ sent' = sent + 1
    /\ against' = against \cup {e \in {"enable"} : on /\ link # "on"}
    /\ UNCHANGED <<link, line, poller, accepting, reports, taken, refused,
                   credited, admitted, disturbed>>

SendCommand(c) ==
    /\ sender[c].at = "asked" /\ link # "off" /\ Len(line) < LineCap
    /\ Writes /\ AnswerSwitch(line, sender[c].on)
    /\ sender' = [sender EXCEPT ![c].at = "waits"]
    /\ UNCHANGED <<link, poller, sent, reports, taken, credited, admitted, against>>

\* A first frame other than ACK is raised to the caller.
JudgeReply(frames) ==
    admitted' = admitted + IF frames # << >> /\ Head(frames) = "error" THEN 1 ELSE 0

CommandReads(c) ==
    \E frames \in Arrived :
        /\ sender[c].at = "waits" /\ link # "off" /\ ReadLine(frames)
        /\ JudgeReply(frames)
        /\ sender' = [sender EXCEPT ![c] = Unengaged]
        /\ UNCHANGED <<link, poller, sent, accepting, reports, taken, refused, credited,
                       against>>

\* The command times out, or finds the port closed; a reader thread that was
\* left behind takes what arrives, or not.  (A write that is still in its thread
\* is not given up before it ends.)
CommandGivenUp(c) ==
    /\ sender[c].at # "idle"
    /\ line' \in {line, << >>} /\ disturbed' = TRUE
    /\ sender' = [sender EXCEPT ![c] = Unengaged]
    /\ UNCHANGED <<link, poller, sent, accepting, reports, taken, refused,
                   credited, admitted, against>>

-----------------------------------------------------------------------------
(* start and stop.  start runs under the adapter's lock and nobody else    *)
(* uses the port: flush, a poll whose events are dropped, and the          *)
(* acceptance off.  A silent or refusing device makes it fail, and the     *)
(* port is shut down again.                                                *)

StartLink ==
    /\ link = "off" /\ line' = << >> /\ reports' = << >>
    /\ disturbed' = (disturbed \/ Count("bill", reports) > 0)
    /\ \/ accepting' = FALSE /\ refused' = refused /\ link' = "on" /\ poller' = "sleeps"
       \/ /\ refused < MaxRefusals /\ refused' = refused + 1
          /\ accepting' \in {accepting, FALSE}
          /\ UNCHANGED <<link, poller>>
    /\ admitted' = admitted + (refused' - refused)
    /\ UNCHANGED <<sender, sent, taken, credited, against>>

\* stop cancels the poll task wherever it is; the thread that reads for it may
\* still take what is on the line.
StopLink ==
    /\ link = "on" /\ link' = "stopping" /\ poller' = "none"
    /\ line' \in {line} \cup {l \in {<< >>} : "poller" \in InExchange}
    /\ disturbed' = (disturbed \/ "poller" \in InExchange)
    /\ against' = {e \in {"enable"} : \E c \in Senders : sender[c].at = "asked" /\ sender[c].on}
    /\ UNCHANGED <<sender, sent, accepting, reports, taken, refused, credited, admitted>>

\* Mutant: stop closes the port and leaves the device as it is.
JustCloses ==
    /\ link = "stopping" /\ link' = "closing"
    /\ UNCHANGED <<line, poller, sender, sent, accepting, reports, taken, refused,
                   credited, admitted, disturbed, against>>

\* shutdown writes the switch, whatever is on the line and whoever waits for it; a
\* refusal and an error of the port are swallowed.
ShutDown ==
    /\ link = "stopping" /\ link' = "closing"
    /\ \/ /\ AnswerSwitch(line, FALSE) /\ Len(line) < LineCap
          /\ disturbed' = (disturbed \/ InExchange # {} \/ refused' > refused)
          /\ against' = against \cup {r \in {"refused"} : refused' > refused}
       \/ /\ UNCHANGED <<line, accepting, refused>> /\ disturbed' = TRUE
          /\ against' = against \cup {"unwritten"}
    /\ UNCHANGED <<poller, sender, sent, reports, taken, credited, admitted>>

\* The rest of the shutdown: the reply is read, the input flushed, the port
\* closed.  Until then the commands of others go on.
PortCloses ==
    /\ link = "closing" /\ link' = "off" /\ line' = << >>
    /\ disturbed' = (disturbed \/ Count("bill", line) + Len(reports) > 0)
    /\ UNCHANGED <<poller, sender, sent, accepting, reports, taken, refused,
                   credited, admitted, against>>

LinkNext ==
    \/ StackABill \/ PollWrites \/ PollReads \/ PollFails \/ PollDisables
    \/ \E c \in Senders :
          \/ \E on \in BOOLEAN : AskCommand(c, on)
          \/ SendCommand(c) \/ CommandReads(c) \/ CommandGivenUp(c)
    \/ StartLink \/ StopLink \/ ShutDown \/ PortCloses

LinkSpec == LinkInit /\ [][LinkNext]_linkVars

-----------------------------------------------------------------------------
(* Properties.                                                             *)

LinkTypeOK ==
    /\ link \in {"off", "on", "stopping", "closing"} /\ line \in Seq(Frames)
    /\ poller \in {"none", "sleeps", "waits", "disables"}
    /\ sender \in [Senders -> [at : {"idle", "asked", "waits"}, on : BOOLEAN]]
    /\ accepting \in BOOLEAN /\ reports \in Seq(Frames) /\ disturbed \in BOOLEAN
    /\ against \subseteq AgainstStop /\ {sent, taken, refused, credited, admitted} \subseteq Nat

\* No bill is announced twice, whoever reads whose reply.  And as long as no
\* two exchanges overlap, no read is cut and nobody gives up, every bill is
\* announced and every refusal raised or announced: what is missing is still
\* on its way.  (Where exchanges do overlap, a command reads the frame of a
\* bill and drops it, or takes another's ACK for its own.)
BillsAnnouncedOnce ==
    LET underWay == Count("bill", line) + Len(reports)
    IN  /\ credited + underWay <= taken
        /\ ~disturbed => /\ credited + underWay = taken
                         /\ admitted + Count("error", line) = refused

\* A stopped validator takes no bills, however commands, polls and stop() were
\* interleaved before: exchanges overlapped, reads cut or left to a thread,
\* commands given up after they were written, replies still on the line, polls
\* that failed.  The exceptions are an enable that was not yet written when
\* stop() began or came during it (nothing keeps it from being written between
\* the switch and the closing of the port), a switch that the device refuses or
\* the port does not write, and a device that a crash left accepting.
StoppedMeansOff == link = "off" /\ accepting => against # {}

=============================================================================
