------------------------------ MODULE UsbPort -------------------------------
(***************************************************************************)
(* The way of a frame from the USB dongle to the mesh engine of the P4:    *)
(* the callback of the host driver appends what arrives to a buffer        *)
(* (usb_cdc_loader_port.cpp), and the receive task of the transport        *)
(* (hal_mesh_p4.cpp) takes it out, byte by byte or a payload at a time,    *)
(* looks for the magic bytes and hands payloads on: those of packets to    *)
(* the engine, those of answers to the transport itself.  Callback and     *)
(* task share the buffer and its length without a lock; and with a second  *)
(* receive task, when stop gave up on the first and init made another.     *)
(*                                                                         *)
(* On the dongle two tasks write frames, each in several pieces            *)
(* (espnow_usb_bridge/src/main.cpp).  Frames that came whole on the line   *)
(* have numbers; the pieces of others are tokens without a meaning.        *)
(*                                                                         *)
(* A token is one byte, or bytes that are treated alike: token 1 of a      *)
(* frame is the magic, 2 stands for direction and length, then come the    *)
(* payload and the CRC.                                                    *)
(***************************************************************************)
EXTENDS Naturals, Sequences

CONSTANTS
  Capacity,    \* the size of s_rx_buf (1024)
  Lengths,     \* bound: the lengths of the payloads in whole frames, in order
  MaxPayload,  \* bound: the length of a payload (300)
  MaxBurst,    \* bound: the bytes of one callback
  MaxStrays    \* bound: the callbacks with mixed pieces and the reads of a second task

ASSUME PortAssumption ==
  /\ Capacity \in Nat \ {0} /\ MaxPayload \in Nat \ {0} /\ MaxBurst \in Nat \ {0}
  /\ MaxStrays \in Nat
  /\ Lengths \in Seq(1..MaxPayload)

VARIABLES
  outFrame,   \* the frame the dongle is sending
  outAt,      \* the next token of it
  buf,        \* s_rx_buf
  len,        \* s_rx_data_len
  callback,   \* the callback in progress: where it copied, how much, all of it or not
  reading,    \* loader_port_read in progress: available and to_copy
  parser,     \* where rxTaskLoop is
  missing,    \* the bytes of the payload still to be read
  ours,       \* dir == 0x02 or 0x04: the frame is one the task hands on
  payload,    \* those read
  twice,      \* there is a second receive task
  other,      \* its loader_port_read in progress
  strays,     \* the callbacks with mixed pieces and its reads
  delivered,  \* history: the frames whose payload was handed on, in order
  invented,   \* history: something else was handed on
  damaged,    \* history: a byte was lost, moved or overwritten, frames were mixed
              \* on the line, or a second task took bytes
  fresh       \* history: the frames begun in silence and not damaged since

dongle == <<outFrame, outAt>>
buffer == <<buf, len>>
outcome == <<delivered, invented>>
taking == <<parser, missing, ours, payload>>
second == <<twice, other, strays>>
portVars == <<dongle, buffer, callback, reading, taking, second, outcome, damaged, fresh>>

FrameNo == DOMAIN Lengths
Cell == 1..Capacity
Junk == [frame |-> 0, at |-> 0]
Token == [frame : FrameNo, at : 1..(MaxPayload + 3)] \cup {Junk}
NoCallback == [pos |-> 0, n |-> 0, cut |-> FALSE]
NoReading == [avail |-> 0, copy |-> 0]

Body(k) == [i \in 1..Lengths[k] |-> [frame |-> k, at |-> i + 2]]
Silence == outAt = 1 /\ len = 0 /\ callback = NoCallback /\ reading = NoReading
Least(a, b) == IF a < b THEN a ELSE b
-----------------------------------------------------------------------------
InitPort ==
  /\ outFrame = 1 /\ outAt = 1
  /\ buf = [c \in Cell |-> Junk] /\ len = 0
  /\ callback = NoCallback /\ reading = NoReading
  /\ parser = "hunt" /\ missing = 0 /\ ours = FALSE /\ payload = <<>>
  /\ twice = FALSE /\ other = NoReading /\ strays = 0
  /\ delivered = <<>> /\ invented = FALSE /\ damaged = FALSE /\ fresh = {}

\* The dongle begins a frame that comes whole, but for other pieces in it.
FrameBegins ==
  /\ outFrame <= Len(Lengths) /\ outAt = 1
  /\ outAt' = 2
  /\ fresh' = IF Silence /\ parser = "hunt" /\ ~twice THEN fresh \cup {outFrame} ELSE fresh
  /\ UNCHANGED <<outFrame, buffer, callback, reading, taking, second, outcome, damaged>>

\* cdc_rx_callback copies what has arrived, up to n bytes of one frame, behind the
\* data it finds.  What does not fit is dropped.  (Token outAt - 1 is the next.)
CallbackCopies ==
  /\ callback = NoCallback /\ outAt > 1 /\ len <= Capacity
  /\ \E n \in 1..MaxBurst :
       LET last == Lengths[outFrame] + 3
           room == Capacity - len
       IN /\ outAt - 2 + n <= last
          /\ buf' = [c \in Cell |-> IF c \in (len + 1)..(len + n)
                                      THEN [frame |-> outFrame, at |-> outAt - 2 + c - len]
                                      ELSE buf[c]]
          /\ callback' = [pos |-> len, n |-> Least(n, room), cut |-> n > room]
          /\ IF outAt - 2 + n = last
               THEN outFrame' = outFrame + 1 /\ outAt' = 1
               ELSE outFrame' = outFrame /\ outAt' = outAt + n
          /\ damaged' = (damaged \/ n > room) /\ fresh' = IF n > room THEN {} ELSE fresh
  /\ UNCHANGED <<len, reading, taking, second, outcome>>

\* It copies up to n bytes of pieces that two tasks of the dongle have mixed: between
\* the bytes of a frame, or of a frame that has others between its own.
PiecesArrive ==
  /\ callback = NoCallback /\ len <= Capacity
  /\ strays < MaxStrays /\ strays' = strays + 1
  /\ \E n \in 1..MaxBurst :
       LET room == Capacity - len
       IN /\ buf' = [c \in Cell |-> IF c \in (len + 1)..(len + n) THEN Junk ELSE buf[c]]
          /\ callback' = [pos |-> len, n |-> Least(n, room), cut |-> n > room]
  /\ damaged' = TRUE /\ fresh' = {}
  /\ UNCHANGED <<dongle, len, reading, taking, twice, other, outcome>>

\* Mutant of CallbackStores: the length is that of the burst.
CallbackStoresBurst ==
  /\ callback # NoCallback
  /\ len' = callback.n
  /\ callback' = NoCallback
  /\ damaged' = (damaged \/ len # callback.pos)
  /\ fresh' = IF len # callback.pos THEN {} ELSE fresh
  /\ UNCHANGED <<dongle, buf, reading, taking, second, outcome>>

\* ... and stores the new length: of what it copied to, of what the task has left
\* since, or the capacity when something was dropped.  When nothing fitted, the length
\* stays.  (A length behind the end of the buffer, which only a second task can bring
\* about, is as far as the buffer is followed.)
CallbackStores ==
  /\ callback # NoCallback
  /\ \E old \in {len, callback.pos} :
       len' = IF ~callback.cut THEN old + callback.n
              ELSE IF callback.n = 0 THEN len ELSE Capacity
  /\ callback' = NoCallback
  /\ damaged' = (damaged \/ len # callback.pos)
  /\ fresh' = IF len # callback.pos THEN {} ELSE fresh
  /\ UNCHANGED <<dongle, buf, reading, taking, second, outcome>>
-----------------------------------------------------------------------------
\* The task looks for the next frame.
HuntAgain == parser' = "hunt" /\ missing' = 0 /\ ours' = FALSE /\ payload' = <<>>
Hunt == HuntAgain /\ UNCHANGED outcome

\* It is done with a frame: the payload goes to the engine when it is for it.
Finish ==
  /\ HuntAgain
  /\ LET given == {k \in FrameNo : ours /\ payload = Body(k)}
     IN /\ delivered' = IF given = {} THEN delivered
                        ELSE Append(delivered, CHOOSE k \in given : TRUE)
        /\ invented' = (invented \/ (ours /\ given = {}))

\* What rxTaskLoop does with a byte it has read.  A byte that is not of the magic,
\* or not the length of a frame, may have any value.
TakesMagic(t) ==
  /\ parser = "hunt"
  /\ \/ parser' = "head" /\ UNCHANGED <<missing, ours, payload, outcome>>
     \/ t.at # 1 /\ Hunt

\* A length of 0 or more than 300 is refused (0 here).
TakesHead(t) ==
  /\ parser = "head"
  /\ \E n \in 0..MaxPayload, o \in BOOLEAN :
       /\ t.at = 2 => n = Lengths[t.frame] /\ o
       /\ IF n = 0 THEN Hunt
          ELSE /\ parser' = "body" /\ missing' = n /\ ours' = o
               /\ UNCHANGED <<payload, outcome>>

TakesBody(ts) ==
  /\ parser = "body"
  /\ payload' = payload \o ts /\ missing' = missing - Len(ts)
  /\ parser' = IF missing = Len(ts) THEN "crc" ELSE "body"
  /\ UNCHANGED <<ours, outcome>>

\* The CRC is read and not compared.
TakesCrc == parser = "crc" /\ Finish

\* A turn of loader_port_read: what is there is copied, as far as it is wanted.
ReadCopies ==
  /\ reading = NoReading /\ len \in Cell
  /\ LET copy == Least(len, IF parser = "body" THEN missing ELSE 1)
     IN /\ reading' = [avail |-> len, copy |-> copy]
        /\ \/ TakesMagic(buf[1])
           \/ TakesHead(buf[1])
           \/ TakesBody([c \in 1..copy |-> buf[c]])
           \/ TakesCrc
  /\ UNCHANGED <<dongle, buffer, callback, second, damaged, fresh>>

\* Mutant of ReadStores: everything that was there is taken as read.
ReadStoresNothing ==
  /\ reading # NoReading
  /\ len' = 0 /\ reading' = NoReading
  /\ damaged' = (damaged \/ len # reading.avail)
  /\ fresh' = IF len # reading.avail THEN {} ELSE fresh
  /\ UNCHANGED <<buf, dongle, callback, taking, second, outcome>>

\* The rest of what a read has found moves to the front, and its length is stored: what
\* the callback has appended in between is forgotten.  (A cell behind those in use is as
\* good as Junk.)
Shift(read, rival) ==
  LET rest == read.avail - read.copy
      used == callback.pos + callback.n
  IN /\ buf' = [c \in Cell |-> IF c <= rest THEN buf[c + read.copy]
                               ELSE IF c <= used \/ c <= rival.avail THEN buf[c] ELSE Junk]
     /\ len' = rest

ReadStores ==
  /\ reading # NoReading
  /\ Shift(reading, other) /\ reading' = NoReading
  /\ damaged' = (damaged \/ len # reading.avail)
  /\ fresh' = IF len # reading.avail THEN {} ELSE fresh
  /\ UNCHANGED <<dongle, callback, taking, second, outcome>>

\* stop, which gives a task in its read 50 ms, and then init: m_running is true again
\* before the task has looked at it, and there is another one.
SecondTask ==
  /\ ~twice /\ twice' = TRUE
  /\ damaged' = TRUE /\ fresh' = {}
  /\ UNCHANGED <<dongle, buffer, callback, reading, taking, other, strays, outcome>>

\* A turn of its loader_port_read.  What it makes of the bytes is not followed: it may
\* want any number of them.
SecondCopies ==
  /\ twice /\ other = NoReading /\ len \in Cell
  /\ strays < MaxStrays /\ strays' = strays + 1
  /\ \E copy \in 1..len : other' = [avail |-> len, copy |-> copy]
  /\ UNCHANGED <<dongle, buffer, callback, reading, taking, twice, outcome, damaged, fresh>>

SecondStores ==
  /\ other # NoReading
  /\ Shift(other, reading) /\ other' = NoReading
  /\ UNCHANGED <<dongle, callback, reading, taking, twice, strays, outcome, damaged, fresh>>

\* The wire is silent and the buffer empty: a read gives up.  A payload that is
\* partly there counts as read, and so does the CRC.
ReadTimesOut ==
  /\ Silence /\ parser # "hunt"
  /\ IF parser = "crc" \/ payload # <<>> THEN Finish ELSE Hunt
  /\ UNCHANGED <<dongle, buffer, callback, reading, second, damaged, fresh>>

NextPort ==
  \/ FrameBegins \/ CallbackCopies \/ PiecesArrive \/ CallbackStores
  \/ ReadCopies \/ ReadStores \/ ReadTimesOut
  \/ SecondTask \/ SecondCopies \/ SecondStores

SpecPort == InitPort /\ [][NextPort]_portVars
-----------------------------------------------------------------------------
(* Properties *)

\* Every variable has the type of what it stands for.
PortTypeOK ==
  /\ outFrame \in 1..(Len(Lengths) + 1) /\ outAt \in 1..(MaxPayload + 4)
  /\ buf \in [Cell -> Token] /\ len \in 0..(IF twice THEN Capacity + MaxBurst ELSE Capacity)
  /\ callback \in [pos : 0..Capacity, n : 0..MaxBurst, cut : BOOLEAN]
  /\ {reading, other} \subseteq [avail : 0..Capacity, copy : 0..Capacity]
  /\ twice \in BOOLEAN /\ strays \in 0..MaxStrays
  /\ parser \in {"hunt", "head", "body", "crc"} /\ missing \in 0..MaxPayload
  /\ ours \in BOOLEAN /\ invented \in BOOLEAN /\ delivered \in Seq(FrameNo)
  /\ \A i \in DOMAIN payload : payload[i] \in Token
  /\ damaged \in BOOLEAN /\ fresh \subseteq FrameNo

\* As long as no byte was lost to the full buffer, to the race of callback and task or
\* to a second task, and no two frames were mixed on the line, every payload is handed
\* on whole, once and in order, however the bytes arrive (cdc_rx_callback,
\* loader_port_read, rxTaskLoop).
FramesFaithful ==
  ~damaged => ~invented /\ \A i \in DOMAIN delivered : delivered[i] = i

\* The link recovers: whatever was lost or mixed before, a frame that begins when the
\* wire was silent, loses no byte and has no foreign piece in it, is handed on whole,
\* while there is one task (rxTaskLoop).
Recovers ==
  \A k \in fresh : outFrame > k /\ Silence /\ parser = "hunt" =>
    \E i \in DOMAIN delivered : delivered[i] = k

\* docs/network/plan_espnow_usb_bridge.md:61: the CRC validates that a frame was
\* not corrupted on the USB; only payloads that were sent reach the engine.
NothingInvented == ~invented
=============================================================================
