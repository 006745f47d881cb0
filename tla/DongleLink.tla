----------------------------- MODULE DongleLink -----------------------------
(***************************************************************************)
(* The serial link between the gateway on the PC (serial_transport.py) and *)
(* the ESP-NOW dongle (espnow_usb_bridge/src/main.cpp).  A control command *)
(* of the gateway is a request with an answer: the caller clears an event, *)
(* forgets the last answer, writes the command and waits for the event, a  *)
(* second at most; the reader thread stores whatever answer comes and sets *)
(* the event.  Nothing in an answer says which request it is for.  On the  *)
(* dongle two tasks write to the line: the loop, which executes commands,  *)
(* and the receive callback of ESP-NOW, each a frame in several pieces.    *)
(*                                                                         *)
(* External: the line loses and reorders nothing, one Serial.write is not  *)
(* interrupted, and a CRC tells a frame with foreign pieces in it.         *)
(***************************************************************************)
EXTENDS Naturals, Sequences

CONSTANTS
  MaxCalls,    \* bound: the control commands of the gateway
  MaxPackets   \* bound: the radio packets the dongle receives

ASSUME DongleAssumption == MaxCalls \in Nat /\ MaxPackets \in Nat

VARIABLES
  calls,      \* the commands begun; the last of them may be in progress
  stage,      \* where send_ctrl_cmd is
  event,      \* _ctrl_response_event
  last,       \* _last_ctrl_response: the command it answers, or NoAnswer
  down,       \* the commands under way to the dongle
  up,         \* the pieces under way to the gateway
  answering,  \* the next piece the dongle's loop writes
  relaying,   \* the next piece the dongle's receive callback writes
  packets,    \* the radio packets received
  expected,   \* the piece _reader_loop expects to come next
  posting,    \* it has stored an answer and not yet set the event
  executed,   \* history: the commands the dongle has executed
  results,    \* history: what the commands returned, in order
  late        \* history: a command timed out

gateway == <<calls, stage, event, last, results, late>>
bridge == <<answering, relaying, packets, executed>>
line == <<down, up>>
readerThread == <<expected, posting>>
dongleVars == <<gateway, bridge, line, readerThread>>

Command == 1..MaxCalls
NoAnswer == 0

\* A response is written in 3 pieces, a packet in 5.
Pieces == [answer |-> 3, packet |-> 5]
Frame == [kind : {"answer"}, id : Command] \cup [kind : {"packet"}, id : 1..MaxPackets]
NoPiece == [kind |-> "none", id |-> 0, part |-> 0]
Swallowed == [kind |-> "lost", id |-> 0, part |-> 0]
Piece(kind, id, part) == [kind |-> kind, id |-> id, part |-> part]
Following(p) == IF p.part = Pieces[p.kind] THEN NoPiece ELSE [p EXCEPT !.part = @ + 1]
-----------------------------------------------------------------------------
InitDongle ==
  /\ calls = 0 /\ stage = "idle" /\ event = FALSE /\ last = NoAnswer
  /\ down = <<>> /\ up = <<>>
  /\ answering = NoPiece /\ relaying = NoPiece /\ packets = 0
  /\ expected = NoPiece /\ posting = FALSE
  /\ executed = {} /\ results = <<>> /\ late = FALSE

\* Mutant of CallBegins: the event of an earlier answer is left set.
CallKeepsEvent ==
  /\ stage = "idle" /\ calls < MaxCalls
  /\ calls' = calls + 1 /\ stage' = "clear"
  /\ UNCHANGED <<event, last, results, late, bridge, line, readerThread>>

\* send_ctrl_cmd clears the event ...
CallBegins ==
  /\ stage = "idle" /\ calls < MaxCalls
  /\ calls' = calls + 1 /\ stage' = "clear" /\ event' = FALSE
  /\ UNCHANGED <<last, results, late, bridge, line, readerThread>>

\* ... forgets the last answer and writes the command.
CallSends ==
  /\ stage = "clear" /\ stage' = "wait"
  /\ last' = NoAnswer /\ down' = Append(down, calls)
  /\ UNCHANGED <<calls, event, results, late, bridge, up, readerThread>>

CallReturns ==
  /\ stage = "wait" /\ event /\ stage' = "idle"
  /\ results' = Append(results, last)
  /\ UNCHANGED <<calls, event, last, late, bridge, line, readerThread>>

CallTimesOut ==
  /\ stage = "wait" /\ ~event /\ stage' = "idle"
  /\ results' = Append(results, NoAnswer) /\ late' = TRUE
  /\ UNCHANGED <<calls, event, last, bridge, line, readerThread>>
-----------------------------------------------------------------------------
\* The loop of the dongle executes a command (process_ctrl_command) and begins to answer.
LoopExecutes ==
  /\ answering = NoPiece /\ down # <<>>
  /\ down' = Tail(down)
  /\ executed' = executed \cup {Head(down)}
  /\ answering' = Piece("answer", Head(down), 1)
  /\ UNCHANGED <<gateway, relaying, packets, up, readerThread>>

LoopWrites ==
  /\ answering # NoPiece
  /\ up' = Append(up, answering) /\ answering' = Following(answering)
  /\ UNCHANGED <<gateway, relaying, packets, executed, down, readerThread>>

\* A radio packet arrives (onDataRecv) and is written to the line, piece by piece.
PacketArrives ==
  /\ relaying = NoPiece /\ packets < MaxPackets
  /\ packets' = packets + 1 /\ relaying' = Piece("packet", packets', 1)
  /\ UNCHANGED <<gateway, answering, executed, line, readerThread>>

CallbackWrites ==
  /\ relaying # NoPiece
  /\ up' = Append(up, relaying) /\ relaying' = Following(relaying)
  /\ UNCHANGED <<gateway, answering, packets, executed, down, readerThread>>
-----------------------------------------------------------------------------
\* A whole frame has come.  A packet goes to on_packet_cb, an answer is stored.
Takes(p) ==
  /\ expected' = NoPiece
  /\ last' = IF p.kind = "answer" THEN p.id ELSE last
  /\ posting' = (p.kind = "answer")

\* The reader thread takes the next piece.  It looks for a header; after that it
\* counts bytes.  A frame with a foreign piece in it may end before or after the
\* pieces that belonged to it, and its CRC is wrong.
ReaderTakes ==
  /\ ~posting /\ up # <<>> /\ up' = Tail(up)
  /\ LET p == Head(up)
     IN \/ /\ expected = NoPiece /\ p.part > 1
           /\ UNCHANGED <<expected, last, posting>>
        \/ /\ expected = NoPiece /\ p.part = 1
           /\ expected' = Following(p) /\ UNCHANGED <<last, posting>>
        \/ /\ expected = p /\ Following(p) = NoPiece /\ Takes(p)
        \/ /\ expected = p /\ Following(p) # NoPiece
           /\ expected' = Following(p) /\ UNCHANGED <<last, posting>>
        \/ /\ expected \notin {p, NoPiece}
           /\ expected' \in {Swallowed, NoPiece} /\ UNCHANGED <<last, posting>>
  /\ UNCHANGED <<calls, stage, event, results, late, bridge, down>>

ReaderSets ==
  /\ posting /\ posting' = FALSE /\ event' = TRUE
  /\ UNCHANGED <<calls, stage, last, results, late, bridge, line, expected>>

NextDongle ==
  \/ CallBegins \/ CallSends \/ CallReturns \/ CallTimesOut
  \/ LoopExecutes \/ LoopWrites \/ PacketArrives \/ CallbackWrites
  \/ ReaderTakes \/ ReaderSets

SpecDongle == InitDongle /\ [][NextDongle]_dongleVars
-----------------------------------------------------------------------------
(* Properties *)

\* Every variable has the type of what it stands for.
DongleTypeOK ==
  /\ calls \in 0..MaxCalls /\ stage \in {"idle", "clear", "wait"}
  /\ event \in BOOLEAN /\ posting \in BOOLEAN /\ late \in BOOLEAN
  /\ last \in Command \cup {NoAnswer} /\ executed \subseteq Command /\ packets \in 0..MaxPackets
  /\ \A i \in DOMAIN down : down[i] \in Command
  /\ \A i \in DOMAIN results : results[i] \in Command \cup {NoAnswer}

\* As long as no command has timed out, each one returns its own answer, and the
\* dongle has executed it, whatever radio traffic comes in between (send_ctrl_cmd).
AnswersMatch == ~late => \A c \in DOMAIN results : results[c] = c /\ c \in executed

\* serial_transport.py:71 promises a command sent "con garantía de ACK": a command
\* that returned an answer has been executed by the dongle.
AckedMeansExecuted == \A c \in DOMAIN results : results[c] # NoAnswer => c \in executed
=============================================================================
