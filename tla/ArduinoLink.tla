---- MODULE ArduinoLink ----
(* The line to the ESP32 board: ArduinoSerialTransport, under its lock, and  *)
(* the motor, window, sensor and cooling classes that ask through it. The    *)
(* board (firmware/esp32_vending) works its commands off one by one and      *)
(* answers each with a line. The transport gives a command cmd_timeout_s;    *)
(* the thread that reads for it is not stopped and may swallow a later line. *)
EXTENDS Naturals, Sequences, FiniteSets

CONSTANTS
  Clients,   \* tasks that use the board: the sale, the health loop, an operator
  MaxAsked,  \* bound: commands asked for in a behaviour
  MaxFaults  \* bound: failed writes and board resets

ASSUME ArduinoAssumption ==
  MaxAsked \in Nat /\ MaxFaults \in Nat /\ IsFiniteSet(Clients)

VARIABLES
  port,      \* "closed", "open": ArduinoSerialTransport._serial
  client,    \* the command each client is in
  toBoard,   \* commands the board has received and not executed
  fromBoard, \* lines in the host's input buffer
  strays,    \* reader threads of commands given up on (at most one matters)
  door,      \* the firmware's door_is_open
  position,  \* ArduinoWindowController._position
  asked,     \* number of commands so far, the identity of each
  returned,  \* the commands that returned, each with the answer it took
  faults,
  overlapped,\* a command was sent while the board still owed an answer
  restarted, \* the board restarted: its boot line is in nobody's protocol
  unsure     \* a command was given up on after it was sent, or the window class
             \* began while the door was open

arduinoVars == <<port, client, toBoard, fromBoard, strays, door, position, asked,
                 returned, faults, overlapped, restarted, unsure>>

BoardCommands == {"VEND_SLOT", "DOOR_OPEN", "DOOR_CLOSE", "STATUS"}
Idling == [at |-> "idle", cmd |-> "STATUS", id |-> 0, lines |-> <<>>]
BootLine == [line |-> "text", of |-> 0]

ArduinoTypeOK ==
  /\ port \in {"closed", "open"} /\ strays \in {0, 1}
  /\ DOMAIN client = Clients
  /\ \A c \in Clients : /\ client[c].at \in {"idle", "queued", "reading"}
                        /\ client[c].cmd \in BoardCommands
                        /\ client[c].id \in 0..MaxAsked
  /\ asked \in 0..MaxAsked /\ faults \in 0..MaxFaults
  /\ \A i \in DOMAIN toBoard : toBoard[i].cmd \in BoardCommands
  /\ \A i \in DOMAIN fromBoard : fromBoard[i].line \in {"OK", "text"}
  /\ door \in BOOLEAN /\ position \in {"open", "closed"}
  /\ {overlapped, restarted, unsure} \subseteq BOOLEAN

ArduinoInit ==
  /\ port = "closed" /\ client = [c \in Clients |-> Idling]
  /\ toBoard = <<>> /\ fromBoard = <<>> /\ strays = 0
  /\ door \in BOOLEAN /\ position = "closed"
  /\ asked = 0 /\ returned = {} /\ faults = 0
  /\ overlapped = FALSE /\ restarted = FALSE /\ unsure = door

\* The window class begins, and begins again, with CLOSED: nothing asks the board.
StartWindow ==
  /\ \A c \in Clients : client[c].at = "idle"
  /\ position' = "closed" /\ unsure' = (unsure \/ door)
  /\ UNCHANGED <<port, client, toBoard, fromBoard, strays, door, asked, returned, faults,
                 overlapped, restarted>>

\* A board that does not answer the ping leaves the port open all the same, so
\* that opening it again succeeds at once: both outcomes are this step.
OpenPort ==
  /\ port = "closed" /\ port' = "open" /\ fromBoard' = <<>>
  /\ UNCHANGED <<client, toBoard, strays, door, position, asked, returned, faults,
                 overlapped, restarted, unsure>>

ClosePort ==
  /\ port = "open" /\ port' = "closed" /\ fromBoard' = <<>> /\ toBoard' = <<>>
  /\ \A c \in Clients : client[c].at # "reading"
  /\ UNCHANGED <<client, strays, door, position, asked, returned, faults,
                 overlapped, restarted, unsure>>

\* One sale or operator moves things at a time, and a sale asks for a slot only
\* with the window shut; the transport requires neither. The others read.
Moving(c) == client[c].at # "idle" /\ client[c].cmd # "STATUS"

Ask(c, cmd) ==
  /\ client[c].at = "idle" /\ asked < MaxAsked
  /\ cmd # "STATUS" => \A other \in Clients : ~Moving(other)
  /\ cmd = "VEND_SLOT" => position = "closed"
  /\ asked' = asked + 1
  /\ client' = [client EXCEPT ![c] = [at |-> "queued", cmd |-> cmd,
                                      id |-> asked + 1, lines |-> <<>>]]
  /\ UNCHANGED <<port, toBoard, fromBoard, strays, door, position, returned, faults,
                 overlapped, restarted, unsure>>

NoLock == TRUE
LineIsFree == \A c \in Clients : client[c].at # "reading"

Send(c) ==
  /\ client[c].at = "queued" /\ LineIsFree /\ port = "open"
  /\ client' = [client EXCEPT ![c].at = "reading"]
  /\ overlapped' = (overlapped \/ toBoard # <<>>)
  /\ fromBoard' = <<>>
  /\ toBoard' = Append(toBoard, [cmd |-> client[c].cmd, id |-> client[c].id])
  /\ UNCHANGED <<port, strays, door, position, asked, returned, faults,
                 restarted, unsure>>

\* The window class remembers the last command that returned. The door the board
\* reports is looked up as "OPEN" or "CLOSED", which no WindowPosition is, so
\* reading the status never changes what it remembers.
Remembered(cmd) == CASE cmd = "DOOR_OPEN" -> "open"
                     [] cmd = "DOOR_CLOSE" -> "closed"
                     [] OTHER -> position

MovedBeforeSent(c) ==
  /\ client[c].at = "queued" /\ LineIsFree /\ port = "closed"
  /\ client' = [client EXCEPT ![c] = Idling]
  /\ position' = Remembered(client[c].cmd)
  /\ UNCHANGED <<port, toBoard, fromBoard, strays, door, asked, returned, faults,
                 overlapped, restarted, unsure>>

\* DeviceNotStartedError, or TransportIOError of the write: nothing was sent.
SendFails(c) ==
  /\ client[c].at = "queued" /\ LineIsFree
  /\ \/ port = "closed" /\ UNCHANGED faults
     \/ port = "open" /\ faults < MaxFaults /\ faults' = faults + 1
  /\ client' = [client EXCEPT ![c] = Idling]
  /\ UNCHANGED <<port, toBoard, fromBoard, strays, door, position, asked, returned,
                 overlapped, restarted, unsure>>

\* The firmware: VEND_SLOT turns the drum, opens the door and closes it again.
DoorAfter(cmd) == CASE cmd = "DOOR_OPEN" -> TRUE
                    [] cmd \in {"DOOR_CLOSE", "VEND_SLOT"} -> FALSE
                    [] OTHER -> door

BoardExecutes ==
  /\ toBoard # <<>>
  /\ door' = DoorAfter(Head(toBoard).cmd)
  /\ toBoard' = Tail(toBoard)
  /\ fromBoard' = Append(fromBoard, [line |-> "OK", of |-> Head(toBoard).id])
  /\ UNCHANGED <<port, client, strays, position, asked, returned, faults,
                 overlapped, restarted, unsure>>

BoardResets ==
  /\ port = "open" /\ faults < MaxFaults /\ faults' = faults + 1
  /\ restarted' = TRUE /\ door' = FALSE /\ toBoard' = <<>>
  /\ fromBoard' = Append(fromBoard, BootLine)
  /\ UNCHANGED <<port, client, strays, position, asked, returned, overlapped, unsure>>

\* What the asking class makes of the answer: a STATUS answer without the field
\* it wants (any other command's OK) reads as a shut service door and a drum at
\* 0, a TEMP answer as 25.0 degrees. None of them tells that from a real reading.
Reading(cmd, answer, id) ==
  IF cmd = "STATUS" /\ answer # id THEN "default" ELSE "reported"

Return(c, answer) ==
  /\ returned' = returned \cup {[id |-> client[c].id, of |-> answer,
                     made |-> Reading(client[c].cmd, answer, client[c].id)]}
  /\ position' = Remembered(client[c].cmd)
  /\ client' = [client EXCEPT ![c] = Idling]

ReadsLine(c) ==
  /\ client[c].at = "reading" /\ fromBoard # <<>>
  /\ fromBoard' = Tail(fromBoard)
  /\ \/ Head(fromBoard).line = "OK" /\ Return(c, Head(fromBoard).of)
     \/ /\ Head(fromBoard).line # "OK"
        /\ client' = [client EXCEPT ![c].lines = Append(@, Head(fromBoard).of)]
        /\ UNCHANGED <<returned, position>>
  /\ UNCHANGED <<port, toBoard, strays, door, asked, faults, overlapped, restarted,
                 unsure>>

\* The reader of a command given up on takes a line meant for the next one.
StrayReads ==
  /\ strays = 1 /\ strays' = 0
  /\ fromBoard' = IF fromBoard = <<>> THEN <<>> ELSE Tail(fromBoard)
  /\ UNCHANGED <<port, client, toBoard, door, position, asked, returned, faults,
                 overlapped, restarted, unsure>>

\* Lines without an OK or an ERR count as success when the time is up.
TimesUp(c) ==
  /\ client[c].at = "reading" /\ strays' \in {strays, 1} /\ unsure' = TRUE
  /\ \/ client[c].lines # <<>> /\ Return(c, Head(client[c].lines))
     \/ /\ client[c].lines = <<>>
        /\ client' = [client EXCEPT ![c] = Idling]
        /\ UNCHANGED <<returned, position>>
  /\ UNCHANGED <<port, toBoard, fromBoard, door, asked, faults, overlapped, restarted>>

ArduinoNext ==
  \/ StartWindow \/ OpenPort \/ ClosePort \/ BoardExecutes \/ BoardResets \/ StrayReads
  \/ \E c \in Clients : \/ \E cmd \in BoardCommands : Ask(c, cmd)
                        \/ Send(c) \/ SendFails(c) \/ ReadsLine(c) \/ TimesUp(c)

ArduinoSpec == ArduinoInit /\ [][ArduinoNext]_arduinoVars

(***************************************************************************)
(* What the line promises                                                  *)
(***************************************************************************)

\* A command that returned took the board's answer to that very command, and a
\* sensor made its reading of it: with several tasks asking, a caller never takes
\* another's OK, nor one left over from a command given up on. The two ways it
\* fails in the code are excused by name: a command sent while the board still
\* owed an earlier answer, and the boot line of a board that restarted.
OwnAnswers ==
  overlapped \/ restarted
    \/ \A r \in returned : r.of = r.id /\ r.made = "reported"

\* While no command is under way, the window class remembers the door the board
\* has: no failed write, refused or interleaved command leaves it wrong. A command
\* given up on, a restarted board or a door found open at the start does, for good,
\* since no status corrects it.
WindowRemembered ==
  (/\ \A c \in Clients : client[c].at # "reading"
   /\ ~unsure /\ ~restarted) => (position = "open" <=> door)
====
