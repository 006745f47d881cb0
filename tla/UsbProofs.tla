------------------------------ MODULE UsbProofs -------------------------------
(***************************************************************************)
(* The USB port of the P4 and its users.  For any number of devices        *)
(* plugged in, receive tasks and places in the manager's queue: the        *)
(* terminal's handle is never stale without a word of it on the way, and   *)
(* the radio listens.  For any buffer and any frames: what the engine is   *)
(* given is what the dongle sent, unless bytes were lost, and the parser   *)
(* finds its way back when they were.                                      *)
(***************************************************************************)
EXTENDS UsbHost, UsbPort, TLAPS

LEMMA HostLimits == MaxPlugs \in Nat /\ MaxLoops \in Nat /\ QueueSize \in Nat
BY HostAssumption

HostFlagsOK ==
  /\ portOpen \in BOOLEAN /\ overtaken \in BOOLEAN /\ running \in BOOLEAN
  /\ ready \in BOOLEAN /\ stopping \in BOOLEAN

LEMMA HostFlagsStep == HostFlagsOK /\ [NextHost]_hostVars => HostFlagsOK'
BY DEF HostFlagsOK, NextHost, Plug, Unplug, DriverAnnounces, DriverDisconnects, ManagerTakes,
  OpenBegins, OpenClaims, OpenEnds, ClosePort, RadioInit, RadioStops, RadioStopped, LoopRuns,
  Told, hostVars, manager, port, transport

\* The types, without the flags.
HostPlacesOK ==
  /\ plugs \in Nat /\ plugs <= MaxPlugs /\ plugged \in {0, plugs}
  /\ news \in Seq(News) /\ queue \in Seq(Device) /\ Len(queue) <= QueueSize
  /\ missed \subseteq Device
  /\ active \in Device \cup {0} /\ portHandle \in Device \cup {0} /\ radioHandle \in Device \cup {0}
  /\ opening \in {"no", "claim", "opened"}
  /\ rxTask \in RxLoop \cup {0} /\ loop \in [RxLoop -> {"none", "test", "read", "done"}]

LEMMA Handles ==
  /\ HostPlacesOK => plugged \in Device \cup {0}
  /\ \A x : x \in Device \cup {0} <=> x \in 0..MaxPlugs
  /\ \A x : x \in RxLoop \cup {0} <=> x \in 0..MaxLoops
  /\ \A x : x \in 0..MaxPlugs <=> x \in Nat /\ x <= MaxPlugs
BY HostLimits DEF HostPlacesOK, Device, RxLoop

LEMMA HostTypesSplit == HostTypeOK <=> HostFlagsOK /\ HostPlacesOK
<1>1. HostTypeOK => HostFlagsOK
  BY DEF HostTypeOK, HostFlagsOK
<1>2. HostTypeOK => HostPlacesOK
  BY Handles DEF HostTypeOK, HostPlacesOK
<1>3. HostFlagsOK /\ HostPlacesOK => HostTypeOK
  BY Handles DEF HostTypeOK, HostPlacesOK, HostFlagsOK
<1> QED BY <1>1, <1>2, <1>3

LEMMA HostPlacesStep ==
  ASSUME HostPlacesOK, [NextHost]_hostVars
  PROVE  HostPlacesOK'
<1> USE HostLimits DEF HostPlacesOK, Told, manager, port, transport
<1>1. CASE Plug
  <2>1. plugs' \in Device /\ plugs' \in Nat /\ plugs' <= MaxPlugs
    BY <1>1 DEF Plug, Device
  <2>2. news' \in Seq(News)
    BY <1>1, <2>1 DEF Plug, News
  <2> QED BY <1>1, <2>1, <2>2 DEF Plug
<1>2. CASE Unplug
  <2>1. news' \in Seq(News)
    <3>1. plugged \in Device
      BY <1>2, Handles DEF Unplug
    <3>2. [what |-> "gone", dev |-> plugged] \in News
      BY <3>1 DEF News
    <3> QED BY <1>2, <3>2 DEF Unplug
  <2> QED BY <1>2, <2>1 DEF Unplug
<1>3. CASE DriverAnnounces
  <2>1. news' \in Seq(News) /\ Head(news).dev \in Device
    <3>1. news # <<>> /\ news' = Tail(news)
      BY <1>3 DEF DriverAnnounces
    <3>2. Head(news) \in News /\ Tail(news) \in Seq(News)
      BY <3>1
    <3> QED BY <3>1, <3>2 DEF News
  <2>2. queue' \in Seq(Device) /\ Len(queue') <= QueueSize /\ missed' \subseteq Device
    <3>1. CASE Len(queue) < QueueSize /\ queue' = Append(queue, Head(news).dev) /\ UNCHANGED missed
      BY <2>1, <3>1
    <3>2. CASE missed' = missed \cup {Head(news).dev} /\ UNCHANGED queue
      BY <2>1, <3>2
    <3>3. CASE UNCHANGED <<queue, missed>>
      BY <3>3
    <3> QED BY <1>3, <3>1, <3>2, <3>3 DEF DriverAnnounces
  <2> QED BY <1>3, <2>1, <2>2 DEF DriverAnnounces
<1>4. CASE DriverDisconnects
  BY <1>4 DEF DriverDisconnects
<1>5. CASE ManagerTakes
  <2>1. Head(queue) \in Device /\ Tail(queue) \in Seq(Device) /\ Len(Tail(queue)) <= QueueSize
    BY <1>5 DEF ManagerTakes
  <2> QED BY <1>5, <2>1 DEF ManagerTakes
<1>6. CASE OpenBegins \/ OpenEnds \/ ClosePort
  BY <1>6 DEF OpenBegins, OpenEnds, ClosePort
<1>7. CASE OpenClaims
  BY <1>7, Handles DEF OpenClaims
<1>8. CASE RadioInit
  BY <1>8, Handles DEF RadioInit
<1>9. CASE RadioStops \/ RadioStopped
  BY <1>9 DEF RadioStops, RadioStopped
<1>10. ASSUME NEW k \in RxLoop, LoopRuns(k)
       PROVE  HostPlacesOK'
  BY <1>10 DEF LoopRuns
<1>11. CASE UNCHANGED hostVars
  BY <1>11 DEF hostVars
<1> HIDE DEF HostPlacesOK
<1> QED
  BY <1>1, <1>2, <1>3, <1>4, <1>5, <1>6, <1>7, <1>8, <1>9, <1>10, <1>11 DEF NextHost

LEMMA HostTypesInvariant == SpecHost => [](HostFlagsOK /\ HostPlacesOK)
<1>1. InitHost => HostFlagsOK /\ HostPlacesOK
  <2>1. <<>> \in Seq(News) /\ <<>> \in Seq(Device) /\ Len(<<>>) = 0
    OBVIOUS
  <2>2. InitHost => HostFlagsOK
    BY DEF InitHost, HostFlagsOK
  <2>3. InitHost => HostPlacesOK
    BY <2>1, HostLimits DEF InitHost, HostPlacesOK
  <2> QED BY <2>2, <2>3
<1> QED BY <1>1, HostFlagsStep, HostPlacesStep, PTL DEF SpecHost

\* Every variable of the host port keeps its type.
THEOREM HostTypes == SpecHost => []HostTypeOK
BY HostTypesInvariant, HostTypesSplit, PTL
-----------------------------------------------------------------------------
\* A handle is one of the device in the port, or the driver has its loss to tell.
Gone(d) == \E i \in DOMAIN news : news[i] = [what |-> "gone", dev |-> d]
HandleInv == portHandle # 0 => portHandle = plugged \/ Gone(portHandle)

LEMMA GoneKept ==
  ASSUME HostPlacesOK, NEW d, Gone(d)
  PROVE  /\ \A n \in News : news' = Append(news, n) => Gone(d)'
         /\ news # <<>> /\ Head(news).what # "gone" /\ news' = Tail(news) => Gone(d)'
<1>1. PICK i \in 1..Len(news) : news[i] = [what |-> "gone", dev |-> d]
  BY DEF Gone, HostPlacesOK
<1>2. ASSUME NEW n \in News, news' = Append(news, n)
      PROVE  Gone(d)'
  <2>1. i \in 1..Len(news') /\ DOMAIN news' = 1..Len(news') /\ news'[i] = news[i]
    BY <1>1, <1>2 DEF HostPlacesOK
  <2> QED BY <1>1, <2>1 DEF Gone
<1>3. ASSUME news # <<>>, Head(news).what # "gone", news' = Tail(news)
      PROVE  Gone(d)'
  <2>1. i # 1
    BY <1>1, <1>3 DEF HostPlacesOK
  <2>2. i - 1 \in 1..Len(news') /\ DOMAIN news' = 1..Len(news') /\ news'[i - 1] = news[i]
    BY <1>1, <1>3, <2>1 DEF HostPlacesOK
  <2> QED BY <1>1, <2>2 DEF Gone
<1> QED BY <1>2, <1>3

LEMMA HandleStep ==
  ASSUME HostPlacesOK, HandleInv, [NextHost]_hostVars
  PROVE  HandleInv'
<1> USE DEF HandleInv, manager, port, transport
<1>1. CASE Plug
  <2>1. [what |-> "new", dev |-> plugs'] \in News
    BY <1>1, HostLimits DEF Plug, HostPlacesOK, News, Device
  <2>2. portHandle # 0 => Gone(portHandle)
    BY <1>1 DEF Plug
  <2>3. portHandle' = portHandle /\ news' = Append(news, [what |-> "new", dev |-> plugs'])
    BY <1>1 DEF Plug
  <2>4. ASSUME NEW d, d = portHandle, d # 0
        PROVE  Gone(d)'
    <3>1. Gone(d)
      BY <2>2, <2>4
    <3> QED BY <2>1, <2>3, <3>1, GoneKept
  <2>5. ASSUME portHandle # 0
        PROVE  portHandle' = plugged' \/ Gone(portHandle)'
    BY <2>3, <2>4, <2>5 DEF Gone
  <2> QED BY <2>3, <2>5 DEF Gone
<1>2. CASE Unplug
  <2> DEFINE n == [what |-> "gone", dev |-> plugged]
  <2>1. portHandle' = portHandle /\ plugged # 0
    BY <1>2 DEF Unplug
  <2>2. ASSUME portHandle = plugged
        PROVE  Gone(portHandle)'
    <3>1. news' = Append(news, n)
      BY <1>2, <2>2 DEF Unplug
    <3>2. n \in News
      BY <2>1, Handles DEF News
    <3>3. Len(news) + 1 \in DOMAIN news' /\ news'[Len(news) + 1] = n
      BY <3>1, <3>2 DEF HostPlacesOK
    <3> QED BY <2>1, <2>2, <3>3 DEF Gone
  <2>3. ASSUME portHandle # plugged, portHandle # 0
        PROVE  Gone(portHandle)'
    BY <1>2, <2>1, <2>3 DEF Unplug, Gone
  <2> QED BY <2>1, <2>2, <2>3 DEF Gone
<1>3. CASE DriverAnnounces
  <2>1. /\ news # <<>> /\ Head(news).what # "gone" /\ news' = Tail(news)
        /\ portHandle' = portHandle /\ plugged' = plugged
    BY <1>3 DEF DriverAnnounces, Told
  <2> QED BY <2>1, GoneKept DEF Gone
<1>4. CASE DriverDisconnects
  BY <1>4 DEF DriverDisconnects
<1>5. CASE OpenClaims
  BY <1>5 DEF OpenClaims, Gone
<1>6. ASSUME UNCHANGED <<portHandle, plugged, news>>
      PROVE  HandleInv'
  BY <1>6 DEF Gone
<1>7. ASSUME \/ ManagerTakes \/ OpenBegins \/ OpenEnds \/ ClosePort \/ RadioInit \/ RadioStops
             \/ RadioStopped \/ (\E k \in RxLoop : LoopRuns(k)) \/ UNCHANGED hostVars
      PROVE  UNCHANGED <<portHandle, plugged, news>>
  BY <1>7 DEF ManagerTakes, OpenBegins, OpenEnds, ClosePort, RadioInit, RadioStops, RadioStopped,
    LoopRuns, hostVars
<1> HIDE DEF HandleInv
<1> QED
  BY <1>1, <1>2, <1>3, <1>4, <1>5, <1>6, <1>7 DEF NextHost

\* An open port, and one whose open is on its last steps, has a handle.
OpenInv ==
  ~overtaken =>
    /\ portOpen => portHandle # 0
    /\ opening = "opened" => portHandle # 0

LEMMA OpenStep ==
  ASSUME HostFlagsOK, HostPlacesOK, OpenInv, [NextHost]_hostVars
  PROVE  OpenInv'
<1> USE DEF OpenInv, manager, port, transport
<1>1. CASE DriverDisconnects
  <2>1. ~overtaken' => ~overtaken /\ opening # "opened"
    BY <1>1, Zenon DEF DriverDisconnects
  <2> QED BY <1>1, <2>1 DEF DriverDisconnects
<1>2. CASE OpenBegins \/ OpenEnds \/ ClosePort
  BY <1>2 DEF OpenBegins, OpenEnds, ClosePort, UiFree, HostFlagsOK
<1>3. CASE OpenClaims
  BY <1>3 DEF OpenClaims, HostFlagsOK
<1>4. CASE UNCHANGED port
  BY <1>4
<1>5. ASSUME \/ Plug \/ Unplug \/ DriverAnnounces \/ ManagerTakes \/ RadioInit \/ RadioStops
             \/ RadioStopped \/ (\E k \in RxLoop : LoopRuns(k)) \/ UNCHANGED hostVars
      PROVE  UNCHANGED port
  BY <1>5 DEF Plug, Unplug, DriverAnnounces, ManagerTakes, RadioInit, RadioStops, RadioStopped,
    LoopRuns, hostVars
<1> HIDE DEF OpenInv
<1> QED
  BY <1>1, <1>2, <1>3, <1>4, <1>5 DEF NextHost

\* The terminal never talks to a device that has gone without the driver about to take
\* the handle back, and an open port has one unless open was overtaken.
THEOREM TerminalIsBacked == SpecHost => []SessionBacked
<1>1. InitHost => HandleInv /\ OpenInv
  BY DEF InitHost, HandleInv, OpenInv
<1>2. HandleInv /\ OpenInv => SessionBacked
  BY DEF HandleInv, OpenInv, Gone, SessionBacked
<1> QED BY <1>1, <1>2, HostTypesInvariant, HandleStep, OpenStep, PTL DEF SpecHost
-----------------------------------------------------------------------------
\* A task that is not about to be forgotten lives and has no reason to end.
RadioInv ==
  /\ stopping => ~ready
  /\ rxTask # 0 /\ ~stopping => running /\ loop[rxTask] \in {"test", "read"}

LEMMA RadioStep ==
  ASSUME HostPlacesOK, HostFlagsOK, RadioInv, [NextHost]_hostVars
  PROVE  RadioInv'
<1> USE DEF RadioInv, HostPlacesOK, manager, port, transport
<1>1. CASE RadioInit
  BY <1>1, HostLimits DEF RadioInit, UiFree, RxLoop
<1>2. CASE RadioStops
  BY <1>2 DEF RadioStops
<1>3. CASE RadioStopped
  BY <1>3 DEF RadioStopped
<1>4. ASSUME NEW k \in RxLoop, LoopRuns(k)
      PROVE  RadioInv'
  BY <1>4 DEF LoopRuns
<1>5. CASE UNCHANGED transport
  BY <1>5
<1>6. ASSUME \/ Plug \/ Unplug \/ DriverAnnounces \/ DriverDisconnects \/ ManagerTakes
             \/ OpenBegins \/ OpenClaims \/ OpenEnds \/ ClosePort \/ UNCHANGED hostVars
      PROVE  UNCHANGED transport
  BY <1>6 DEF Plug, Unplug, DriverAnnounces, DriverDisconnects, ManagerTakes, OpenBegins,
    OpenClaims, OpenEnds, ClosePort, hostVars
<1> HIDE DEF RadioInv
<1> QED
  BY <1>1, <1>2, <1>3, <1>4, <1>5, <1>6 DEF NextHost

\* A transport that is ready and has a task is heard: a task that an earlier stop told to
\* end is never taken for a live one (init, stop, rxTaskLoop).
THEOREM ReadyRadioListens == SpecHost => []RadioListens
<1>1. InitHost => RadioInv
  BY DEF InitHost, RadioInv
<1>2. RadioInv => RadioListens
  BY DEF RadioInv, RadioListens
<1> QED BY <1>1, <1>2, HostTypesInvariant, RadioStep, PTL DEF SpecHost
-----------------------------------------------------------------------------
LEMMA PortLimits ==
  /\ Capacity \in Nat /\ Capacity > 0 /\ MaxPayload \in Nat /\ MaxPayload > 0
  /\ MaxBurst \in Nat /\ MaxBurst > 0 /\ MaxStrays \in Nat
  /\ FrameNo = 1..Len(Lengths) /\ Len(Lengths) \in Nat
  /\ \A k \in FrameNo : Lengths[k] \in 1..MaxPayload
BY PortAssumption DEF FrameNo

PortFlagsOK ==
  /\ ours \in BOOLEAN /\ invented \in BOOLEAN /\ damaged \in BOOLEAN /\ twice \in BOOLEAN
  /\ ~twice => other = NoReading

\* The dongle is in a frame it has to send, or between two.
WireOK ==
  /\ outFrame \in 1..(Len(Lengths) + 1) /\ outAt \in 1..(MaxPayload + 4)
  /\ outAt > 1 => outFrame \in FrameNo /\ outAt <= Lengths[outFrame] + 4

\* A read takes away at least one byte and at most what it found.
ReadOK(read) ==
  /\ read \in [avail : Nat, copy : Nat] /\ read.avail <= Capacity
  /\ read # NoReading => 1 <= read.copy /\ read.copy <= read.avail

\* Who is where in the buffer.  While there is one task, the callback copies behind the
\* data, and what the task found is still there.
PlaceOK ==
  /\ len \in 0..(Capacity + MaxBurst) /\ strays \in 0..MaxStrays
  /\ callback \in [pos : Nat, n : 0..MaxBurst, cut : BOOLEAN]
  /\ callback.pos + callback.n <= Capacity /\ (callback # NoCallback => len <= Capacity)
  /\ ReadOK(reading) /\ ReadOK(other)
  /\ ~twice => /\ len <= Capacity
               /\ callback # NoCallback => len <= callback.pos
               /\ reading.avail <= len

ParserOK ==
  /\ parser \in {"hunt", "head", "body", "crc"} /\ missing \in 0..MaxPayload
  /\ parser = "body" => missing > 0
  /\ parser \in {"hunt", "head"} => payload = <<>>
  /\ delivered \in Seq(FrameNo) /\ payload \in Seq(Token)

\* The types, without the flags.
PortPlacesOK ==
  WireOK /\ PlaceOK /\ ParserOK /\ buf \in [Cell -> Token] /\ fresh \subseteq FrameNo

LEMMA PortTypesSplit == PortFlagsOK /\ PortPlacesOK => PortTypeOK
<1> SUFFICES ASSUME PortFlagsOK, PortPlacesOK PROVE PortTypeOK
  OBVIOUS
<1>1. callback \in [pos : 0..Capacity, n : 0..MaxBurst, cut : BOOLEAN]
  BY PortLimits DEF PortPlacesOK, PlaceOK
<1>2. reading \in [avail : 0..Capacity, copy : 0..Capacity]
  BY PortLimits DEF PortPlacesOK, PlaceOK, ReadOK, NoReading
<1>3. other \in [avail : 0..Capacity, copy : 0..Capacity]
  BY PortLimits DEF PortPlacesOK, PlaceOK, ReadOK, NoReading
<1>4. \A i \in DOMAIN payload : payload[i] \in Token
  BY DEF PortPlacesOK, ParserOK
<1>5. len \in 0..(IF twice THEN Capacity + MaxBurst ELSE Capacity)
  BY PortLimits DEF PortPlacesOK, PlaceOK
<1>6. strays \in 0..MaxStrays /\ twice \in BOOLEAN
  BY DEF PortFlagsOK, PortPlacesOK, PlaceOK
<1> QED
  BY <1>1, <1>2, <1>3, <1>4, <1>5, <1>6 DEF PortPlacesOK, WireOK, ParserOK, PortFlagsOK, PortTypeOK

LEMMA PortFlagsStep == PortFlagsOK /\ [NextPort]_portVars => PortFlagsOK'
BY DEF PortFlagsOK, NextPort, FrameBegins, CallbackCopies, PiecesArrive, CallbackStores, ReadCopies,
  ReadStores, ReadTimesOut, SecondTask, SecondCopies, SecondStores, TakesMagic, TakesHead, TakesBody,
  TakesCrc, Hunt, HuntAgain, Finish, portVars, dongle, buffer, outcome, taking, second

LEMMA FinishTypes == ASSUME ParserOK, Finish PROVE ParserOK'
<1> DEFINE given == {k \in FrameNo : ours /\ payload = Body(k)}
<1>1. given # {} => (CHOOSE k \in given : TRUE) \in FrameNo
  OBVIOUS
<1>2. delivered' \in Seq(FrameNo)
  BY <1>1 DEF Finish, ParserOK
<1>3. <<>> \in Seq(Token)
  OBVIOUS
<1> QED BY <1>2, <1>3, PortLimits DEF Finish, HuntAgain, ParserOK

LEMMA HuntTypes == ASSUME ParserOK, Hunt PROVE ParserOK'
BY PortLimits DEF Hunt, HuntAgain, ParserOK, outcome

LEMMA ReadCopiesTypes ==
  ASSUME PortPlacesOK, ReadCopies
  PROVE  /\ ParserOK' /\ 1 <= reading'.copy /\ reading'.copy <= len /\ len \in Cell
         /\ reading' = [avail |-> len, copy |-> reading'.copy] /\ reading'.copy \in Nat
<1> DEFINE copy == Least(len, IF parser = "body" THEN missing ELSE 1)
           ts == [c \in 1..copy |-> buf[c]]
<1>0. ParserOK /\ len \in Cell /\ len \in 1..Capacity /\ buf \in [Cell -> Token]
  BY DEF PortPlacesOK, ReadCopies, Cell
<1>1. copy \in Nat /\ 1 <= copy /\ copy <= len /\ (parser = "body" => copy <= missing)
  BY <1>0, PortLimits DEF ParserOK, ReadCopies, Least
<1>2. reading' = [avail |-> len, copy |-> copy]
  BY DEF ReadCopies
<1>3. ParserOK'
  <2>1. CASE TakesMagic(buf[1])
    BY <1>0, <2>1, HuntTypes DEF TakesMagic, ParserOK, outcome
  <2>2. CASE TakesHead(buf[1])
    <3>1. CASE Hunt
      BY <1>0, <3>1, HuntTypes
    <3>2. ASSUME NEW n \in 1..MaxPayload, parser' = "body", missing' = n,
                 UNCHANGED <<payload, outcome>>
          PROVE  ParserOK'
      BY <1>0, <3>2 DEF ParserOK, outcome
    <3> QED BY <2>2, <3>1, <3>2, PortLimits DEF TakesHead
  <2>3. CASE TakesBody(ts)
    <3>1. ts \in Seq(Token) /\ Len(ts) = copy
      <4>1. \A c \in 1..copy : c \in Cell
        BY <1>0, <1>1, PortLimits DEF Cell
      <4> QED BY <1>0, <1>1, <4>1
    <3>2. payload' \in Seq(Token)
      BY <1>0, <2>3, <3>1 DEF TakesBody, ParserOK
    <3>3. missing' = missing - copy /\ copy <= missing /\ missing \in 0..MaxPayload
      BY <1>0, <1>1, <2>3, <3>1 DEF TakesBody, ParserOK
    <3>4. parser' = IF missing = copy THEN "crc" ELSE "body"
      BY <2>3, <3>1 DEF TakesBody
    <3>5. delivered' = delivered
      BY <2>3 DEF TakesBody, outcome
    <3> HIDE DEF ts, copy
    <3> QED BY <1>0, <1>1, <3>2, <3>3, <3>4, <3>5, PortLimits DEF ParserOK
  <2>4. CASE TakesCrc
    BY <1>0, <2>4, FinishTypes DEF TakesCrc
  <2> QED BY <2>1, <2>2, <2>3, <2>4 DEF ReadCopies
<1> QED BY <1>0, <1>1, <1>2, <1>3

LEMMA CallbackCopiesTypes ==
  ASSUME PortPlacesOK, CallbackCopies
  PROVE  PortPlacesOK'
<1> DEFINE last == Lengths[outFrame] + 3
           room == Capacity - len
<1>0. /\ WireOK /\ PlaceOK /\ ParserOK /\ buf \in [Cell -> Token] /\ fresh \subseteq FrameNo
      /\ len \in 0..Capacity
  <2>1. PlaceOK /\ len <= Capacity
    BY DEF PortPlacesOK, CallbackCopies
  <2>2. len \in 0..Capacity
    BY <2>1, PortLimits DEF PlaceOK
  <2> QED BY <2>2 DEF PortPlacesOK
<1>1. PICK n \in 1..MaxBurst :
         /\ outAt - 2 + n <= last
         /\ buf' = [c \in Cell |-> IF c \in (len + 1)..(len + n)
                                     THEN [frame |-> outFrame, at |-> outAt - 2 + c - len]
                                     ELSE buf[c]]
         /\ callback' = [pos |-> len, n |-> Least(n, room), cut |-> n > room]
         /\ IF outAt - 2 + n = last
              THEN outFrame' = outFrame + 1 /\ outAt' = 1
              ELSE outFrame' = outFrame /\ outAt' = outAt + n
         /\ fresh' = IF n > room THEN {} ELSE fresh
  BY Zenon DEF CallbackCopies
<1>2. outFrame \in FrameNo /\ outAt > 1 /\ last \in 4..(MaxPayload + 3)
  BY <1>0, PortLimits, SMTT(30) DEF CallbackCopies, WireOK
<1>a. outAt \in Nat /\ len \in Nat /\ n \in Nat /\ last \in Nat /\ outAt - 2 + n <= last
  <2>1. outAt - 2 + n <= last
    BY <1>1, Zenon
  <2>2. outAt \in Nat
    BY <1>0, PortLimits DEF WireOK
  <2>3. len \in Nat
    BY <1>0, PortLimits DEF PlaceOK
  <2>4. n \in Nat
    BY PortLimits
  <2> HIDE DEF last
  <2> QED BY <1>2, <2>1, <2>2, <2>3, <2>4, PortLimits
<1>b. \/ outAt - 2 + n = last /\ outFrame' = outFrame + 1 /\ outAt' = 1
      \/ outAt - 2 + n < last /\ outFrame' = outFrame /\ outAt' = outAt + n
  <2>1. outAt - 2 + n = last \/ outAt - 2 + n < last
    BY <1>a
  <2> HIDE DEF last
  <2> QED BY <1>1, <2>1
<1>3. buf' \in [Cell -> Token]
  <2>1. ASSUME NEW c \in Cell, c \in (len + 1)..(len + n)
        PROVE  [frame |-> outFrame, at |-> outAt - 2 + c - len] \in Token
    <3>1. outAt - 2 + c - len \in 1..(MaxPayload + 3)
      <4> HIDE DEF last
      <4>1. c \in Nat /\ MaxPayload \in Nat
        BY PortLimits DEF Cell
      <4> QED BY <1>2, <1>a, <2>1, <4>1
    <3> QED BY <1>2, <3>1 DEF Token
  <2> QED BY <1>0, <1>1, <2>1
<1>4. WireOK'
  <2>1. outFrame \in 1..Len(Lengths) /\ last = Lengths[outFrame] + 3 /\ MaxPayload \in Nat
    BY <1>2, PortLimits
  <2> HIDE DEF last
  <2>2. CASE outFrame' = outFrame + 1 /\ outAt' = 1
    BY <2>1, <2>2, PortLimits DEF WireOK
  <2>3. CASE outAt - 2 + n < last /\ outFrame' = outFrame /\ outAt' = outAt + n
    BY <1>2, <1>a, <2>1, <2>3, PortLimits DEF WireOK
  <2> QED BY <1>b, <2>2, <2>3
<1>5. /\ callback' \in [pos : Nat, n : 0..MaxBurst, cut : BOOLEAN]
      /\ callback'.pos = len /\ callback'.pos + callback'.n <= Capacity
  <2>1. len \in 0..Capacity /\ n \in 1..MaxBurst /\ room \in Nat
    BY <1>0, PortLimits DEF PlaceOK
  <2>2. Least(n, room) \in 0..MaxBurst /\ len + Least(n, room) <= Capacity
    BY <2>1, PortLimits DEF Least
  <2> QED BY <1>1, <2>1, <2>2, PortLimits
<1>6. /\ UNCHANGED <<len, reading, parser, missing, payload, delivered, twice, other, strays>>
      /\ fresh' \subseteq FrameNo
  BY <1>0, <1>1 DEF CallbackCopies, taking, outcome, second
<1>7. PlaceOK' /\ ParserOK'
  <2>1. PlaceOK'
    BY <1>0, <1>5, <1>6, PortLimits DEF PlaceOK, ReadOK
  <2> QED BY <1>0, <1>6, <2>1 DEF ParserOK
<1> QED BY <1>3, <1>4, <1>6, <1>7 DEF PortPlacesOK

LEMMA PiecesArriveTypes ==
  ASSUME PortPlacesOK, PiecesArrive
  PROVE  PortPlacesOK'
<1>0. /\ WireOK /\ PlaceOK /\ ParserOK /\ buf \in [Cell -> Token] /\ Junk \in Token
      /\ len \in 0..Capacity
  <2>1. PlaceOK /\ len <= Capacity
    BY DEF PortPlacesOK, PiecesArrive
  <2>2. len \in 0..Capacity
    BY <2>1, PortLimits DEF PlaceOK
  <2> QED BY <2>2 DEF PortPlacesOK, Token
<1>1. PICK n \in 1..MaxBurst :
         /\ buf' = [c \in Cell |-> IF c \in (len + 1)..(len + n) THEN Junk ELSE buf[c]]
         /\ callback' = [pos |-> len, n |-> Least(n, Capacity - len), cut |-> n > Capacity - len]
  BY Zenon DEF PiecesArrive
<1>2. buf' \in [Cell -> Token]
  BY <1>0, <1>1
<1>3. /\ callback' \in [pos : Nat, n : 0..MaxBurst, cut : BOOLEAN]
      /\ callback'.pos = len /\ callback'.pos + callback'.n <= Capacity
  <2>1. Least(n, Capacity - len) \in 0..MaxBurst /\ len + Least(n, Capacity - len) <= Capacity
    BY <1>0, PortLimits DEF Least
  <2> QED BY <1>0, <1>1, <2>1, PortLimits
<1>4. /\ UNCHANGED <<outFrame, outAt, len, reading, parser, missing, payload, delivered, twice, other>>
      /\ fresh' = {} /\ strays' \in 0..MaxStrays
  BY <1>0, PortLimits DEF PiecesArrive, dongle, taking, outcome, PlaceOK
<1>5. PlaceOK'
  BY <1>0, <1>3, <1>4, PortLimits DEF PlaceOK, ReadOK
<1> QED BY <1>0, <1>2, <1>4, <1>5 DEF PortPlacesOK, WireOK, ParserOK

\* What either task makes of the buffer when it has read.
LEMMA ShiftTypes ==
  ASSUME PlaceOK, buf \in [Cell -> Token], NEW read, NEW rival, ReadOK(read), ReadOK(rival),
         Shift(read, rival)
  PROVE  /\ buf' \in [Cell -> Token] /\ len' = read.avail - read.copy
         /\ read # NoReading => len' \in 0..Capacity /\ len' <= read.avail
<1>1. /\ len' = read.avail - read.copy /\ read.avail \in Nat /\ read.copy \in Nat
      /\ read.avail <= Capacity
  BY DEF Shift, ReadOK
<1>2. read # NoReading => len' \in 0..Capacity /\ len' <= read.avail
  BY <1>1, PortLimits DEF ReadOK
<1>3. buf' \in [Cell -> Token]
  <2>1. \A c \in Cell : c <= len' => c + read.copy \in Cell
    BY <1>1, PortLimits DEF Cell
  <2>2. Junk \in Token
    BY DEF Token
  <2> QED BY <1>1, <2>1, <2>2 DEF Shift
<1> QED BY <1>1, <1>2, <1>3

LEMMA PortPlacesStep ==
  ASSUME PortFlagsOK, PortPlacesOK, [NextPort]_portVars
  PROVE  PortPlacesOK'
<1>0. WireOK /\ PlaceOK /\ ParserOK /\ buf \in [Cell -> Token] /\ fresh \subseteq FrameNo
  BY DEF PortPlacesOK
<1>1. CASE FrameBegins
  <2>1. outFrame \in FrameNo
    BY <1>0, <1>1, PortLimits DEF FrameBegins, WireOK
  <2>2. outAt' = 2 /\ fresh' \subseteq FrameNo
    BY <1>0, <1>1, <2>1 DEF FrameBegins
  <2>3. UNCHANGED <<outFrame, buf, len, callback, reading, parser, missing, payload, delivered,
                    twice, other, strays>>
    BY <1>1 DEF FrameBegins, buffer, taking, outcome, second
  <2>4. WireOK'
    BY <1>0, <2>1, <2>2, <2>3, PortLimits DEF WireOK
  <2>5. PlaceOK'
    BY <1>0, <2>3 DEF PlaceOK, ReadOK
  <2>6. ParserOK'
    BY <1>0, <2>3 DEF ParserOK
  <2> QED BY <1>0, <2>2, <2>3, <2>4, <2>5, <2>6 DEF PortPlacesOK
<1>2. CASE CallbackCopies \/ PiecesArrive
  BY <1>2, CallbackCopiesTypes, PiecesArriveTypes
<1>3. CASE CallbackStores
  <2>1. /\ len' \in 0..(Capacity + MaxBurst) /\ callback' = NoCallback
        /\ ~twice => len <= len' /\ len' <= Capacity
    <3>1. /\ callback.pos \in Nat /\ callback.n \in 0..MaxBurst /\ callback.pos + callback.n <= Capacity
          /\ len \in 0..Capacity /\ (~twice => len <= callback.pos)
      BY <1>0, <1>3, PortLimits DEF CallbackStores, PlaceOK
    <3>2. PICK old \in {len, callback.pos} :
            len' = IF ~callback.cut THEN old + callback.n
                   ELSE IF callback.n = 0 THEN len ELSE Capacity
      BY <1>3 DEF CallbackStores
    <3>3. old \in 0..Capacity /\ (~twice => len <= old /\ old + callback.n <= Capacity)
      BY ONLY <3>1, <3>2, PortLimits
    <3>4. len' \in 0..(Capacity + MaxBurst) /\ (~twice => len <= len' /\ len' <= Capacity)
      BY ONLY <3>1, <3>2, <3>3, PortLimits
    <3>5. callback' = NoCallback
      BY <1>3 DEF CallbackStores
    <3> QED BY ONLY <3>4, <3>5
  <2>2. fresh' \subseteq FrameNo
    BY <1>0, <1>3 DEF CallbackStores
  <2>3. UNCHANGED <<outFrame, outAt, buf, reading, parser, missing, payload, delivered,
                    twice, other, strays>>
    BY <1>3 DEF CallbackStores, dongle, taking, outcome, second
  <2>4. PlaceOK'
    BY <1>0, <2>1, <2>3, PortLimits DEF PlaceOK, ReadOK, NoCallback
  <2> QED BY <1>0, <2>2, <2>3, <2>4 DEF PortPlacesOK, WireOK, ParserOK
<1>4. CASE ReadCopies
  <2>1. UNCHANGED <<outFrame, outAt, buf, len, callback, fresh, twice, other, strays>>
    BY <1>4 DEF ReadCopies, dongle, buffer, second
  <2>2. PlaceOK'
    BY <1>0, <1>4, <2>1, ReadCopiesTypes, PortLimits DEF PlaceOK, ReadOK, Cell
  <2> QED BY <1>0, <1>4, <2>1, <2>2, ReadCopiesTypes DEF PortPlacesOK, WireOK
<1>5. CASE ReadStores
  <2>1. buf' \in [Cell -> Token] /\ len' \in 0..Capacity /\ len' <= reading.avail
    BY <1>0, <1>5, ShiftTypes DEF ReadStores, PlaceOK
  <2>2. reading' = NoReading /\ fresh' \subseteq FrameNo
    BY <1>0, <1>5 DEF ReadStores
  <2>3. UNCHANGED <<outFrame, outAt, callback, parser, missing, payload, delivered, twice, other,
                    strays>>
    BY <1>5 DEF ReadStores, dongle, taking, outcome, second
  <2>4. reading.avail \in Nat /\ len \in Nat /\ (~twice => reading.avail <= len)
    BY <1>0, PortLimits DEF PlaceOK, ReadOK
  <2>5. PlaceOK'
    BY <1>0, <2>1, <2>2, <2>3, <2>4, PortLimits DEF PlaceOK, ReadOK, NoReading
  <2> QED BY <1>0, <2>1, <2>2, <2>3, <2>5 DEF PortPlacesOK, WireOK, ParserOK
<1>6. CASE ReadTimesOut
  <2>1. ParserOK'
    BY <1>0, <1>6, FinishTypes, HuntTypes DEF ReadTimesOut
  <2>2. UNCHANGED <<outFrame, outAt, buf, len, callback, reading, fresh, twice, other, strays>>
    BY <1>6 DEF ReadTimesOut, dongle, buffer, second
  <2> QED BY <1>0, <2>1, <2>2 DEF PortPlacesOK, WireOK, PlaceOK, ReadOK
<1>7. CASE SecondTask
  <2>1. /\ UNCHANGED <<outFrame, outAt, buf, len, callback, reading, parser, missing, payload,
                       delivered, other, strays>>
        /\ fresh' = {} /\ twice'
    BY <1>7 DEF SecondTask, dongle, buffer, taking, outcome
  <2> QED BY <1>0, <2>1 DEF PortPlacesOK, WireOK, PlaceOK, ReadOK, ParserOK
<1>8. CASE SecondCopies
  <2>1. UNCHANGED <<outFrame, outAt, buf, len, callback, reading, parser, missing, payload,
                    delivered, twice, fresh>>
    BY <1>8 DEF SecondCopies, dongle, buffer, taking, outcome
  <2>2. twice /\ len \in Cell /\ strays' \in 0..MaxStrays
    BY <1>0, <1>8, PortLimits DEF SecondCopies, PlaceOK
  <2>3. ReadOK(other)'
    <3>1. PICK copy \in 1..len : other' = [avail |-> len, copy |-> copy]
      BY <1>8 DEF SecondCopies
    <3> QED BY <2>2, <3>1, PortLimits DEF ReadOK, Cell
  <2>4. PlaceOK'
    BY <1>0, <2>1, <2>2, <2>3 DEF PlaceOK, ReadOK
  <2> QED BY <1>0, <2>1, <2>4 DEF PortPlacesOK, WireOK, ParserOK
<1>9. CASE SecondStores
  <2>1. buf' \in [Cell -> Token] /\ len' \in 0..Capacity
    BY <1>0, <1>9, ShiftTypes DEF SecondStores, PlaceOK
  <2>2. UNCHANGED <<outFrame, outAt, callback, reading, parser, missing, payload, delivered,
                    twice, strays, fresh>>
    BY <1>9 DEF SecondStores, dongle, taking, outcome
  <2>3. twice /\ other' = NoReading
    BY <1>9 DEF SecondStores, PortFlagsOK
  <2>4. PlaceOK'
    BY <1>0, <2>1, <2>2, <2>3, PortLimits DEF PlaceOK, ReadOK, NoReading
  <2> QED BY <1>0, <2>1, <2>2, <2>4 DEF PortPlacesOK, WireOK, ParserOK
<1>10. CASE UNCHANGED portVars
  BY <1>0, <1>10, SMTT(30)
     DEF portVars, dongle, buffer, taking, outcome, second, PortPlacesOK, WireOK, PlaceOK, ReadOK, ParserOK
<1> QED BY <1>1, <1>2, <1>3, <1>4, <1>5, <1>6, <1>7, <1>8, <1>9, <1>10 DEF NextPort

LEMMA PortTypesInvariant == SpecPort => [](PortFlagsOK /\ PortPlacesOK)
<1>1. InitPort => PortFlagsOK /\ PortPlacesOK
  <2>1. InitPort => PortFlagsOK
    BY DEF InitPort, PortFlagsOK
  <2>2. Junk \in Token /\ <<>> \in Seq(FrameNo) /\ <<>> \in Seq(Token)
    BY DEF Token
  <2>3. InitPort => PortPlacesOK
    BY <2>2, PortLimits DEF InitPort, PortPlacesOK, WireOK, PlaceOK, ReadOK, ParserOK, NoCallback, NoReading
  <2> QED BY <2>1, <2>3
<1> QED BY <1>1, PortFlagsStep, PortPlacesStep, PTL DEF SpecPort

\* Every variable of the port keeps its type: in particular, while there is one receive
\* task, neither it nor the callback ever writes or reads behind the end of s_rx_buf,
\* whatever their race has done to its length (cdc_rx_callback, loader_port_read).
THEOREM PortTypes == SpecPort => []PortTypeOK
BY PortTypesInvariant, PortTypesSplit, PTL
-----------------------------------------------------------------------------
EndOf(k) == Lengths[k] + 3
NextOut == [frame |-> outFrame, at |-> IF outAt = 1 THEN 1 ELSE outAt - 1]

\* The callback stores a length the task has meanwhile changed, or the other way round:
\* bytes are about to be lost.
Missing == callback # NoCallback /\ callback.pos # len
Overtaken == reading # NoReading /\ reading.avail # len

\* What is unread: places reading.copy + 1 to Top of the buffer, then what the dongle
\* sends next, unless the callback's bytes will be missing.
Top == IF Missing THEN len ELSE len + callback.n
KnownTo == IF Missing THEN len ELSE Top + 1
TokenAt(j) == IF j <= Top THEN buf[j] ELSE NextOut

\* u is d places behind t in what the dongle sends, if that is in the frame of t or the
\* beginning of the next.
Follows(t, d, u) ==
  /\ d <= EndOf(t.frame) - t.at => u = [frame |-> t.frame, at |-> t.at + d]
  /\ d = EndOf(t.frame) - t.at + 1 => u = [frame |-> t.frame + 1, at |-> 1]

Contiguous ==
  /\ \A i \in Cell : reading.copy < i /\ i <= Top =>
       buf[i] # Junk /\ buf[i].at <= EndOf(buf[i].frame)
  /\ \A i, j \in 1..(Capacity + 1) : reading.copy < i /\ i < j /\ j <= KnownTo =>
       Follows(TokenAt(i), j - i, TokenAt(j))

\* The parser is where it must be when t comes next.
Parsed(t) ==
  /\ parser = "hunt" => t.at = 1
  /\ parser = "head" => t.at = 2
  /\ parser = "body" => t.at = Len(payload) + 3 /\ Len(payload) + missing = Lengths[t.frame] /\ ours
  /\ parser = "crc" => t.at = EndOf(t.frame) /\ Len(payload) = Lengths[t.frame] /\ ours
  /\ parser # "hunt" => \A i \in 1..Len(payload) : payload[i] = [frame |-> t.frame, at |-> i + 2]

\* Of the frames before g, none is missing from what was delivered.
Counted(g) ==
  /\ ~damaged => Len(delivered) = g - 1
  /\ \A k \in fresh : k <= g /\ (k < g => \E i \in DOMAIN delivered : delivered[i] = k)

InSync ==
  /\ Contiguous
  /\ reading.copy < KnownTo =>
       /\ Parsed(TokenAt(reading.copy + 1))
       /\ Counted(TokenAt(reading.copy + 1).frame)

PortInv ==
  /\ callback.cut \/ twice => damaged /\ fresh = {}
  /\ FramesFaithful
  /\ ~damaged \/ fresh # {} => Overtaken \/ InSync

\* The numbers behind Top and KnownTo.
LEMMA Tops ==
  ASSUME PortPlacesOK, ~twice
  PROVE  /\ Capacity \in Nat /\ len \in Nat /\ reading.copy \in Nat /\ reading.copy <= len
         /\ callback.n \in Nat /\ callback.pos \in Nat
         /\ Top \in Nat /\ len <= Top /\ Top <= Capacity /\ KnownTo \in {Top, Top + 1}
         /\ callback = NoCallback => ~Missing /\ Top = len /\ KnownTo = len + 1
         /\ reading = NoReading => reading.copy = 0 /\ ~Overtaken
         /\ \A i \in Nat : i > 0 /\ i <= Top => i \in Cell
<1> USE PortLimits DEF PortPlacesOK, PlaceOK, ReadOK
<1>1. len \in Nat /\ callback.n \in Nat /\ callback.pos \in Nat /\ reading.copy \in Nat
  OBVIOUS
<1>2. reading.copy <= len
  BY DEF NoReading
<1>3. Top \in Nat /\ len <= Top /\ Top <= Capacity
  <2>1. CASE Missing
    BY <1>1, <2>1 DEF Top
  <2>2. CASE ~Missing /\ callback # NoCallback
    <3>1. callback.pos = len /\ callback.pos + callback.n <= Capacity
      BY <2>2 DEF Missing
    <3> QED BY <1>1, <2>2, <3>1 DEF Top
  <2>3. CASE ~Missing /\ callback = NoCallback
    <3>1. callback.n = 0
      BY <2>3 DEF NoCallback
    <3> QED BY <1>1, <2>3, <3>1 DEF Top
  <2> QED BY <2>1, <2>2, <2>3
<1>4. callback = NoCallback => ~Missing /\ Top = len /\ KnownTo = len + 1
  BY <1>1 DEF Missing, Top, KnownTo, NoCallback
<1>5. reading = NoReading => reading.copy = 0 /\ ~Overtaken
  BY DEF NoReading, Overtaken
<1>6. KnownTo \in {Top, Top + 1}
  BY DEF KnownTo, Top
<1>7. \A i \in Nat : i > 0 /\ i <= Top => i \in Cell
  BY <1>3 DEF Cell
<1> QED BY <1>1, <1>2, <1>3, <1>4, <1>5, <1>6, <1>7

\* The token a step leaves as the next one, named once for all.
LEMMA SyncNext ==
  ASSUME NEW t, Contiguous',
         reading'.copy < KnownTo' =>
           TokenAt(reading.copy + 1)' = t /\ Parsed(t)' /\ Counted(t.frame)'
  PROVE  InSync'
BY DEF InSync

\* The callback stores its length: no place changes, or the loss is noticed.
LEMMA CallbackStoresSync ==
  ASSUME PortPlacesOK, PortPlacesOK', ~twice, ~twice', PortInv, CallbackStores
  PROVE  PortInv'
<1> DEFINE c == reading.copy
<1>1. ~callback'.cut /\ callback' = NoCallback
  BY DEF CallbackStores, NoCallback
<1>2. FramesFaithful'
  BY DEF CallbackStores, PortInv, FramesFaithful, outcome
<1>3. ASSUME ~damaged' \/ fresh' # {}
      PROVE  Overtaken' \/ InSync'
  <2>1. len = callback.pos /\ fresh' = fresh /\ (damaged' <=> damaged) /\ (~damaged \/ fresh # {})
    BY <1>3, Zenon DEF CallbackStores
  <2>2. ~callback.cut
    BY <2>1 DEF PortInv
  <2>3. len' = len + callback.n
    BY <2>1, <2>2 DEF CallbackStores
  <2>4. UNCHANGED <<buf, reading, parser, missing, ours, payload, delivered, invented, outFrame, outAt>>
    BY DEF CallbackStores, dongle, taking, outcome
  <2>5. ~Missing /\ Top = len + callback.n /\ KnownTo = Top + 1
    BY <2>1 DEF Missing, Top, KnownTo
  <2>6. Top' = Top /\ KnownTo' = KnownTo
    <3>1. ~Missing' /\ callback'.n = 0
      BY <1>1 DEF Missing, NoCallback
    <3> QED BY <2>3, <2>5, <3>1, Tops DEF Top, KnownTo
  <2>7. \A j : TokenAt(j)' = TokenAt(j)
    BY <2>4, <2>6 DEF TokenAt, NextOut
  <2>8. CASE Overtaken
    <3>1. reading # NoReading /\ reading.avail # len /\ reading.avail <= len /\ reading.avail \in Nat
      BY <2>8 DEF Overtaken, PortPlacesOK, PlaceOK, ReadOK
    <3>2. reading'.avail # len'
      BY <2>3, <2>4, <3>1, Tops
    <3> QED BY <2>4, <3>1, <3>2 DEF Overtaken
  <2>9. CASE InSync
    <3>1. Contiguous'
      BY <2>4, <2>6, <2>7, <2>9 DEF InSync, Contiguous
    <3>2. c < KnownTo => Parsed(TokenAt(c + 1)) /\ Counted(TokenAt(c + 1).frame)
      BY <2>9 DEF InSync
    <3>3. ASSUME NEW t, Parsed(t), Counted(t.frame)
          PROVE  Parsed(t)' /\ Counted(t.frame)'
      BY <2>1, <2>4, <3>3 DEF Parsed, Counted
    <3> QED BY <2>4, <2>6, <2>7, <3>1, <3>2, <3>3 DEF InSync
  <2> QED BY <2>1, <2>8, <2>9 DEF PortInv
<1> QED BY <1>1, <1>2, <1>3 DEF PortInv

\* The dongle begins a frame: a fresh one, when nothing is unread and the parser hunts.
LEMMA FrameBeginsSync ==
  ASSUME PortPlacesOK, PortPlacesOK', ~twice, ~twice', PortInv, FrameBegins
  PROVE  PortInv'
<1>1. UNCHANGED <<outFrame, buf, len, callback, reading, parser, missing, ours, payload, delivered,
                  invented, damaged>>
  BY DEF FrameBegins, buffer, taking, outcome
<1>2. UNCHANGED <<Top, KnownTo>> /\ (Overtaken' <=> Overtaken)
  BY <1>1 DEF Top, KnownTo, Missing, Overtaken
<1>3. NextOut' = NextOut /\ NextOut.frame = outFrame /\ NextOut.at = 1
  BY DEF FrameBegins, NextOut
<1>4. \A j : TokenAt(j)' = TokenAt(j)
  BY <1>1, <1>2, <1>3 DEF TokenAt
<1>5. FramesFaithful' /\ (callback'.cut => damaged' /\ fresh' = {})
  <2>1. FramesFaithful'
    BY <1>1 DEF PortInv, FramesFaithful
  <2>2. Silence => ~callback.cut
    BY DEF Silence, NoCallback
  <2> QED BY <1>1, <2>1, <2>2 DEF PortInv, FrameBegins
<1>6. Silence =>
        ~Overtaken /\ reading.copy = 0 /\ Top = 0 /\ KnownTo = 1 /\ TokenAt(1) = NextOut
  BY Tops DEF Silence, TokenAt
<1>7. CASE Overtaken
  <2>1. ~Silence
    BY <1>6, <1>7
  <2>2. fresh' = fresh
    BY <2>1 DEF FrameBegins
  <2> QED BY <1>1, <1>2, <1>5, <1>7 DEF PortInv
<1>8. CASE ~damaged \/ fresh # {}
  <2>1. SUFFICES ASSUME InSync PROVE InSync'
    BY <1>5, <1>7, <1>8 DEF PortInv
  <2>2. Contiguous'
    BY <1>1, <1>2, <1>4, <2>1 DEF InSync, Contiguous
  <2>3. PICK t : t = TokenAt(reading.copy + 1)
    OBVIOUS
  <2>4. reading'.copy < KnownTo' => Parsed(t) /\ Counted(t.frame)
    BY <1>1, <1>2, <2>1, <2>3 DEF InSync
  <2>5. TokenAt(reading.copy + 1)' = t
    BY <1>1, <1>4, <2>3
  <2>6. \A k \in fresh' \ fresh : k = t.frame
    BY <1>3, <1>6, <2>3 DEF FrameBegins
  <2>7. t.frame \in Nat
    <3>1. outFrame \in Nat
      BY DEF PortPlacesOK, WireOK
    <3>2. CASE reading.copy + 1 <= Top
      <4>1. reading.copy + 1 \in Cell
        BY <3>2, Tops
      <4>2. t \in Token
        BY <2>3, <3>2, <4>1 DEF TokenAt, PortPlacesOK
      <4> QED BY <4>2, PortLimits DEF Token, Junk
    <3> QED BY <1>3, <2>3, <3>1, <3>2 DEF TokenAt
  <2>8. Parsed(t) => Parsed(t)'
    BY <1>1 DEF Parsed
  <2>9. Counted(t.frame) => Counted(t.frame)'
    BY <1>1, <2>6, <2>7 DEF Counted
  <2> QED BY <2>2, <2>4, <2>5, <2>8, <2>9, SyncNext
<1>9. CASE damaged /\ fresh = {}
  <2>1. SUFFICES ASSUME fresh' # {} PROVE InSync'
    BY <1>1, <1>5, <1>9 DEF PortInv
  <2>2. Silence /\ parser = "hunt" /\ fresh' = {outFrame}
    BY <1>9, <2>1 DEF FrameBegins
  <2>3. Contiguous'
    BY <1>1, <1>2, <1>6, <2>2 DEF Contiguous, Cell
  <2>4. PICK t : t = NextOut
    OBVIOUS
  <2>5. TokenAt(reading.copy + 1)' = t
    BY <1>1, <1>4, <1>6, <2>2, <2>4
  <2>6. Parsed(t)'
    BY <1>1, <1>3, <2>2, <2>4 DEF Parsed
  <2>7. Counted(t.frame)'
    BY <1>1, <1>3, <1>9, <2>2, <2>4 DEF Counted, PortPlacesOK, WireOK
  <2> QED BY <2>3, <2>5, <2>6, <2>7, SyncNext
<1> QED BY <1>8, <1>9 DEF PortInv

\* The callback copies what has arrived behind what is known: the places stay one run.
LEMMA CallbackCopiesSync ==
  ASSUME PortPlacesOK, PortPlacesOK', ~twice, ~twice', PortInv, CallbackCopies
  PROVE  PortInv'
<1> DEFINE room == Capacity - len
<1>0. PICK l, c, a, f : l = len /\ c = reading.copy /\ a = outAt - 1 /\ f = outFrame
  OBVIOUS
<1>1. PICK n \in 1..MaxBurst :
         /\ outAt - 2 + n <= Lengths[outFrame] + 3
         /\ buf' = [x \in Cell |-> IF x \in (len + 1)..(len + n)
                                     THEN [frame |-> outFrame, at |-> outAt - 2 + x - len]
                                     ELSE buf[x]]
         /\ callback' = [pos |-> len, n |-> Least(n, room), cut |-> n > room]
         /\ IF outAt - 2 + n = Lengths[outFrame] + 3
              THEN outFrame' = outFrame + 1 /\ outAt' = 1
              ELSE outFrame' = outFrame /\ outAt' = outAt + n
         /\ damaged' = (damaged \/ n > room) /\ fresh' = IF n > room THEN {} ELSE fresh
  BY Zenon DEF CallbackCopies
<1>2. /\ UNCHANGED <<len, reading, parser, missing, ours, payload, delivered, invented>>
      /\ len' = l /\ reading'.copy = c
  BY <1>0 DEF CallbackCopies, taking, outcome
<1>3. /\ callback = NoCallback /\ outAt > 1 /\ outAt \in Nat /\ f \in FrameNo /\ n \in Nat
      /\ f \in Nat /\ room \in Nat /\ EndOf(f) \in Nat /\ EndOf(f) > 3 /\ a \in Nat /\ a > 0
      /\ l \in Nat /\ l <= Capacity /\ c \in Nat /\ c <= l /\ Capacity \in Nat
  <2>1. callback = NoCallback /\ outAt > 1 /\ outAt \in Nat /\ f \in FrameNo
    BY <1>0 DEF CallbackCopies, PortPlacesOK, WireOK
  <2>2. EndOf(f) \in Nat /\ EndOf(f) > 3 /\ f \in Nat
    BY <2>1, PortLimits DEF EndOf
  <2>3. n \in Nat
    BY PortLimits
  <2>4. room \in Nat /\ l <= Capacity
    BY <1>0, PortLimits DEF PortPlacesOK, PlaceOK
  <2> QED BY <1>0, <2>1, <2>2, <2>3, <2>4, Tops
<1>4. FramesFaithful' /\ (callback'.cut => damaged' /\ fresh' = {})
  <2>1. ~damaged' => ~damaged
    BY <1>1, Zenon
  <2>2. FramesFaithful'
    BY <1>2, <2>1 DEF PortInv, FramesFaithful
  <2>3. callback'.cut => n > room
    BY <1>1
  <2>4. n > room => damaged' /\ fresh' = {}
    BY <1>1, Zenon
  <2> QED BY <2>2, <2>3, <2>4
<1> SUFFICES ASSUME ~damaged' \/ fresh' # {} PROVE Overtaken' \/ InSync'
  BY <1>4 DEF PortInv
<1>5. ~(n > room) /\ fresh' = fresh /\ (~damaged' => ~damaged) /\ (~damaged \/ fresh # {})
  BY <1>1, Zenon
<1>6. CASE Overtaken
  BY <1>2, <1>6 DEF Overtaken
<1>7. CASE InSync
  <2>1. ~Missing /\ Top = l /\ KnownTo = l + 1
    BY <1>0, <1>3, Tops
  <2>2. callback' # NoCallback /\ callback'.pos = l /\ callback'.n = n /\ n <= room /\ n > 0
    <3>1. Least(n, room) = n /\ n > 0 /\ n <= room
      BY <1>3, <1>5 DEF Least
    <3>2. callback'.n = n /\ callback'.pos = l
      BY <1>0, <1>1, <3>1
    <3> QED BY <3>1, <3>2 DEF NoCallback
  <2>3. ~Missing' /\ Top' = l + n /\ KnownTo' = l + n + 1
    <3>1. ~Missing'
      BY <1>2, <2>2 DEF Missing
    <3> QED BY <1>2, <2>2, <3>1 DEF Top, KnownTo
  <2>4. ASSUME NEW j \in 1..l
        PROVE  TokenAt(j) = buf[j] /\ TokenAt(j)' = buf[j] /\ buf'[j] = buf[j] /\ j \in Cell
    <3>1. j \in Cell /\ j <= l /\ ~(j \in (len + 1)..(len + n))
      BY <1>0, <1>3 DEF Cell
    <3>2. buf'[j] = buf[j]
      BY <1>1, <3>1
    <3>3. j <= Top /\ j <= Top'
      BY <1>3, <2>1, <2>3
    <3> QED BY <3>1, <3>2, <3>3 DEF TokenAt
  <2>5. TokenAt(l + 1) = [frame |-> f, at |-> a]
    BY <1>0, <1>3, <2>1 DEF TokenAt, NextOut
  <2>6. ASSUME NEW j \in (l + 1)..(l + n)
        PROVE  /\ j \in Cell /\ a + (j - l - 1) <= EndOf(f)
               /\ buf'[j] = [frame |-> f, at |-> a + (j - l - 1)]
               /\ TokenAt(j)' = [frame |-> f, at |-> a + (j - l - 1)]
    <3>1. j \in Cell
      BY <1>0, <1>3, <2>2 DEF Cell
    <3>2. outAt - 2 + j - l = a + (j - l - 1)
      BY <1>0, <1>3
    <3>3. buf'[j] = [frame |-> f, at |-> a + (j - l - 1)]
      BY <1>0, <1>1, <3>1, <3>2
    <3>4. outAt - 2 + n <= EndOf(f)
      BY <1>0, <1>1 DEF EndOf
    <3>5. a + (j - l - 1) <= EndOf(f)
      BY <1>0, <1>3, <3>4
    <3> QED BY <1>3, <2>3, <3>1, <3>3, <3>5 DEF TokenAt
  <2>7. \/ TokenAt(l + n + 1)' = [frame |-> f, at |-> a + n] /\ a + n <= EndOf(f)
        \/ TokenAt(l + n + 1)' = [frame |-> f + 1, at |-> 1] /\ a + n = EndOf(f) + 1
    <3>1. TokenAt(l + n + 1)' = NextOut'
      BY <1>3, <2>3 DEF TokenAt
    <3>2. \/ outAt - 2 + n = EndOf(f) /\ outFrame' = f + 1 /\ outAt' = 1
          \/ outAt - 2 + n < EndOf(f) /\ outFrame' = f /\ outAt' = outAt + n
      <4>1. outAt - 2 + n = EndOf(f) \/ outAt - 2 + n < EndOf(f)
        BY <1>0, <1>1, <1>3 DEF EndOf
      <4> QED BY <1>0, <1>1, <4>1 DEF EndOf
    <3>3. CASE outAt - 2 + n = EndOf(f) /\ outFrame' = f + 1 /\ outAt' = 1
      BY <1>0, <1>3, <3>1, <3>3 DEF NextOut
    <3>4. CASE outAt - 2 + n < EndOf(f) /\ outFrame' = f /\ outAt' = outAt + n
      BY <1>0, <1>3, <3>1, <3>4 DEF NextOut
    <3> QED BY <3>2, <3>3, <3>4
  <2>8. Contiguous
    BY <1>7 DEF InSync
  <2>9. \A i \in Cell : c < i /\ i <= l + n => buf'[i] # Junk /\ buf'[i].at <= EndOf(buf'[i].frame)
    <3>1. \A i \in Cell : c < i /\ i <= l => buf'[i] # Junk /\ buf'[i].at <= EndOf(buf'[i].frame)
      BY <1>0, <1>3, <2>1, <2>4, <2>8 DEF Contiguous, Cell
    <3>2. \A i \in Cell : l < i /\ i <= l + n =>
            buf'[i] # Junk /\ buf'[i].at <= EndOf(buf'[i].frame)
      <4>1. ASSUME NEW i \in Cell, l < i, i <= l + n
            PROVE  buf'[i] # Junk /\ buf'[i].at <= EndOf(buf'[i].frame)
        <5>1. i \in (l + 1)..(l + n)
          BY <1>3, <4>1 DEF Cell
        <5>2. f # 0
          BY <1>3, PortLimits
        <5>3. buf'[i] = [frame |-> f, at |-> a + (i - l - 1)] /\ a + (i - l - 1) <= EndOf(f)
          BY <2>6, <5>1, Zenon
        <5> QED BY <5>2, <5>3 DEF Junk, EndOf
      <4> QED BY <4>1
    <3> QED BY <1>3, <3>1, <3>2 DEF Cell
  <2>10. ASSUME NEW i \in 1..(Capacity + 1), NEW j \in 1..(Capacity + 1),
                c < i, i < j, j <= l + n + 1
         PROVE  Follows(TokenAt(i), j - i, TokenAt(j))'
    <3>1. CASE j <= l
      <4>1. Follows(TokenAt(i), j - i, TokenAt(j))
        BY <1>0, <1>3, <2>1, <2>8, <2>10, <3>1 DEF Contiguous
      <4>2. TokenAt(i)' = TokenAt(i) /\ TokenAt(j)' = TokenAt(j)
        BY <1>3, <2>4, <2>10, <3>1
      <4> QED BY <4>1, <4>2 DEF Follows
    <3>2. CASE i <= l /\ l < j
      <4>0. PICK t : t = TokenAt(i)
        OBVIOUS
      <4> DEFINE e == EndOf(t.frame) - t.at
      <4>1. Follows(t, l + 1 - i, [frame |-> f, at |-> a])
        BY <1>0, <1>3, <2>1, <2>5, <2>8, <2>10, <3>2, <4>0 DEF Contiguous
      <4>2. t \in Token /\ t # Junk /\ TokenAt(i)' = t
        <5>1. i \in 1..l
          BY <1>3, <2>10, <3>2
        <5>2. buf[i] # Junk
          BY <1>0, <1>3, <2>1, <2>4, <2>8, <2>10, <5>1 DEF Contiguous
        <5> QED BY <2>4, <4>0, <5>1, <5>2 DEF PortPlacesOK
      <4>3. t.frame \in FrameNo /\ t.at \in Nat /\ EndOf(t.frame) \in Nat
        BY <4>2, PortLimits DEF Token, EndOf
      <4>4. /\ l + 1 - i <= e => f = t.frame /\ a = t.at + (l + 1 - i)
            /\ l + 1 - i = e + 1 => f = t.frame + 1 /\ a = 1
        BY <4>1 DEF Follows
      <4>5. \/ TokenAt(j)' = [frame |-> f, at |-> a + (j - l - 1)] /\ a + (j - l - 1) <= EndOf(f)
            \/ /\ TokenAt(j)' = [frame |-> f + 1, at |-> 1] /\ a + (j - l - 1) = EndOf(f) + 1
               /\ j > l + 1
        <5>1. j = l + n + 1 \/ j \in (l + 1)..(l + n)
          BY <1>3, <2>10, <3>2
        <5>2. CASE j = l + n + 1
          BY <1>3, <2>2, <2>7, <5>2
        <5>3. CASE j \in (l + 1)..(l + n)
          BY <2>6, <5>3
        <5> QED BY <5>1, <5>2, <5>3
      <4>6. PICK u : u = TokenAt(j)'
        OBVIOUS
      <4>7. i \in Nat /\ j \in Nat
        BY <1>3, <2>10
      <4>8. Follows(t, j - i, u)
        <5>1. ASSUME j - i <= e
              PROVE  u = [frame |-> t.frame, at |-> t.at + (j - i)]
          BY <1>3, <3>2, <4>3, <4>4, <4>5, <4>6, <4>7, <5>1
        <5>2. ASSUME j - i = e + 1
              PROVE  u = [frame |-> t.frame + 1, at |-> 1]
          BY <1>3, <3>2, <4>3, <4>4, <4>5, <4>6, <4>7, <5>2
        <5> QED BY <5>1, <5>2 DEF Follows
      <4> QED BY <4>2, <4>6, <4>8 DEF Follows
    <3>3. CASE l < i
      <4>1. i \in (l + 1)..(l + n)
        BY <1>3, <2>10, <3>3
      <4>2. TokenAt(i)' = [frame |-> f, at |-> a + (i - l - 1)]
        BY <2>6, <4>1
      <4>3. \/ TokenAt(j)' = [frame |-> f, at |-> a + (j - l - 1)]
               /\ a + (j - l - 1) <= EndOf(f)
            \/ TokenAt(j)' = [frame |-> f + 1, at |-> 1] /\ a + (j - l - 1) = EndOf(f) + 1
        <5>1. j = l + n + 1 \/ j \in (l + 1)..(l + n)
          BY <1>3, <2>10, <3>3
        <5>2. CASE j = l + n + 1
          BY <1>3, <2>7, <5>2
        <5>3. CASE j \in (l + 1)..(l + n)
          BY <2>6, <5>3
        <5> QED BY <5>1, <5>2, <5>3
      <4>4. i \in Nat /\ j \in Nat
        BY <1>3, <2>10
      <4> QED BY <1>3, <4>2, <4>3, <4>4 DEF Follows
    <3> QED BY <1>3, <2>10, <3>1, <3>2, <3>3
  <2>11. Contiguous'
    BY <1>2, <2>3, <2>9, <2>10 DEF Contiguous
  <2>12. PICK t : t = TokenAt(c + 1)
    OBVIOUS
  <2>13. TokenAt(reading.copy + 1)' = t
    <3>1. c + 1 \in 1..l \/ c + 1 = l + 1
      BY <1>3
    <3>2. CASE c + 1 \in 1..l
      BY <1>2, <2>4, <2>12, <3>2
    <3>3. CASE c + 1 = l + 1
      <4>0. PICK j : j = l + 1
        OBVIOUS
      <4>1. j \in (l + 1)..(l + n) /\ j = reading'.copy + 1
        BY <1>2, <1>3, <2>2, <3>3, <4>0
      <4>2. TokenAt(j)' = [frame |-> f, at |-> a + (j - l - 1)]
        BY <2>6, <4>1
      <4>3. TokenAt(j)' = [frame |-> f, at |-> a]
        BY <1>3, <4>0, <4>2
      <4> QED BY <2>5, <2>12, <3>3, <4>1, <4>3
    <3> QED BY <3>1, <3>2, <3>3
  <2>14. Parsed(t) /\ Counted(t.frame)
    BY <1>0, <1>3, <1>7, <2>1, <2>12 DEF InSync
  <2>15. Parsed(t)' /\ Counted(t.frame)'
    BY <1>2, <1>5, <2>14 DEF Parsed, Counted
  <2> QED BY <2>11, <2>13, <2>15, SyncNext
<1> QED BY <1>5, <1>6, <1>7 DEF PortInv

\* The end of a frame: exactly one payload equals what was read.
LEMMA OneBody ==
  ASSUME ParserOK, NEW t, t.frame \in FrameNo, Len(payload) = Lengths[t.frame],
         \A i \in 1..Len(payload) : payload[i] = [frame |-> t.frame, at |-> i + 2]
  PROVE  {k \in FrameNo : payload = Body(k)} = {t.frame}
<1>1. payload = Body(t.frame)
  <2>1. payload \in Seq(Token) /\ DOMAIN payload = 1..Lengths[t.frame]
    BY DEF ParserOK
  <2>2. payload = [i \in DOMAIN payload |-> payload[i]]
    BY <2>1
  <2> QED BY <2>1, <2>2 DEF Body
<1>2. ASSUME NEW k \in FrameNo, payload = Body(k)
      PROVE  k = t.frame
  <2>1. 1 \in 1..Lengths[k] /\ 1 \in 1..Lengths[t.frame]
    BY PortLimits
  <2>2. Body(k)[1] = [frame |-> k, at |-> 3] /\ Body(t.frame)[1] = [frame |-> t.frame, at |-> 3]
    BY <2>1 DEF Body
  <2>3. [frame |-> k, at |-> 3] = [frame |-> t.frame, at |-> 3]
    BY <1>1, <1>2, <2>2
  <2> QED BY <2>3
<1> QED BY <1>1, <1>2

\* A read: the parser takes what comes next, one byte or a part of the payload, and is
\* then where it must be for what comes after that.
LEMMA ReadCopiesSync ==
  ASSUME PortPlacesOK, PortPlacesOK', ~twice, ~twice', PortInv, ReadCopies
  PROVE  PortInv'
<1>0. PICK t, m : t = buf[1] /\ m = Least(len, IF parser = "body" THEN missing ELSE 1)
  OBVIOUS
<1>1. UNCHANGED <<outFrame, outAt, buf, len, callback, damaged, fresh>>
  BY DEF ReadCopies, dongle, buffer
<1>2. /\ m \in Nat /\ 1 <= m /\ m <= len /\ reading = NoReading /\ len > 0
      /\ reading' = [avail |-> len, copy |-> m] /\ reading'.copy = m
      /\ parser = "body" => m <= missing
      /\ parser # "body" => m = 1
  <2>1. ParserOK /\ len \in Nat /\ len > 0 /\ reading = NoReading
    BY PortLimits DEF PortPlacesOK, PlaceOK, ReadCopies
  <2>2. reading' = [avail |-> len, copy |-> m]
    BY <1>0 DEF ReadCopies
  <2> QED BY <1>0, <2>1, <2>2, PortLimits DEF ParserOK, Least
<1>3. UNCHANGED <<Top, KnownTo>>
  BY <1>1 DEF Top, KnownTo, Missing
<1>4. \A j : TokenAt(j)' = TokenAt(j)
  BY <1>1, <1>3 DEF TokenAt, NextOut
<1>5. TokenAt(1) = t /\ 0 < KnownTo /\ reading.copy = 0 /\ ~Overtaken
  BY <1>0, <1>2, Tops DEF TokenAt
<1>6. CASE damaged /\ fresh = {}
  BY <1>1, <1>6 DEF PortInv, FramesFaithful
<1>7. CASE ~damaged \/ fresh # {}
  <2>1. InSync
    BY <1>5, <1>7 DEF PortInv
  <2>2. Contiguous /\ Parsed(t) /\ Counted(t.frame)
    <3>1. 0 + 1 = 1
      OBVIOUS
    <3> QED BY <1>5, <2>1, <3>1 DEF InSync
  <2>3. Contiguous'
    BY <1>1, <1>2, <1>3, <1>4, <1>5, <2>2, Tops DEF Contiguous, Cell
  <2>4. t \in Token /\ t # Junk /\ 1 \in Cell
    <3>1. 1 \in Cell /\ 1 <= Top
      BY <1>2, Tops DEF Cell
    <3>2. buf[1] # Junk
      BY <1>5, <2>2, <3>1 DEF Contiguous
    <3> QED BY <1>0, <3>1, <3>2 DEF PortPlacesOK
  <2>5. t.frame \in FrameNo /\ t.frame \in Nat /\ t.at \in Nat /\ Lengths[t.frame] \in 1..MaxPayload
        /\ Lengths[t.frame] \in Nat /\ EndOf(t.frame) = Lengths[t.frame] + 3
    BY <2>4, PortLimits DEF Token, EndOf
  <2>6. \A d \in Nat : d > 0 /\ d + 1 <= KnownTo =>
          \E u : u = TokenAt(d + 1) /\ Follows(t, d, u)
    <3>1. ASSUME NEW d \in Nat, d > 0, d + 1 <= KnownTo
          PROVE  Follows(t, d, TokenAt(d + 1))
      <4>1. 1 \in 1..(Capacity + 1) /\ d + 1 \in 1..(Capacity + 1) /\ d + 1 - 1 = d
        BY <3>1, Tops
      <4> QED BY <1>5, <2>2, <3>1, <4>1 DEF Contiguous
    <3> QED BY <3>1
  <2>7. PICK u : u = TokenAt(m + 1)
    OBVIOUS
  <2>8. m < KnownTo => Follows(t, m, u)
    BY <1>2, <2>6, <2>7, Tops
  <2>9. TokenAt(reading.copy + 1)' = u
    <3>1. PICK j : j = m + 1
      OBVIOUS
    <3>2. TokenAt(j)' = u /\ j = reading'.copy + 1
      BY <1>2, <1>4, <2>7, <3>1
    <3> QED BY <3>2
  \* The frame of the next token, and what the parser makes of it.
  <2>10. CASE parser = "hunt"
    <3>1. t.at = 1
      BY <2>2, <2>10 DEF Parsed
    <3>2. parser' = "head" /\ UNCHANGED <<missing, ours, payload, delivered, invented>>
      BY <1>0, <2>10, <3>1 DEF ReadCopies, TakesMagic, TakesHead, TakesBody, TakesCrc, outcome
    <3>3. m < KnownTo => u.frame = t.frame /\ u.at = 2
      BY <1>2, <2>5, <2>8, <2>10, <3>1 DEF Follows
    <3>4. payload = <<>>
      BY <2>10 DEF PortPlacesOK, ParserOK
    <3>5. m < KnownTo => Parsed(u)' /\ Counted(u.frame)'
      BY <1>1, <2>2, <3>2, <3>3, <3>4 DEF Parsed, Counted
    <3>6. FramesFaithful'
      BY <1>1, <3>2 DEF PortInv, FramesFaithful
    <3> QED BY <1>1, <1>2, <1>3, <2>3, <2>9, <3>5, <3>6, SyncNext DEF PortInv
  <2>11. CASE parser = "head"
    <3>1. t.at = 2 /\ payload = <<>>
      BY <2>2, <2>11 DEF Parsed, PortPlacesOK, ParserOK
    <3>2. /\ parser' = "body" /\ missing' = Lengths[t.frame] /\ ours'
          /\ UNCHANGED <<payload, delivered, invented>>
      <4>1. TakesHead(t)
        BY <1>0, <2>11 DEF ReadCopies, TakesMagic, TakesBody, TakesCrc
      <4>2. PICK n \in 0..MaxPayload, o \in BOOLEAN :
              /\ n = Lengths[t.frame] /\ o
              /\ IF n = 0 THEN Hunt
                 ELSE /\ parser' = "body" /\ missing' = n /\ ours' = o
                      /\ UNCHANGED <<payload, outcome>>
        BY <3>1, <4>1, Zenon DEF TakesHead
      <4>3. n # 0
        BY <2>5, <4>2
      <4>4. parser' = "body" /\ missing' = n /\ ours' = o /\ UNCHANGED <<payload, outcome>>
        BY <4>2, <4>3, Zenon
      <4>5. ours'
        BY <4>2, <4>4, Zenon
      <4> QED BY <4>2, <4>4, <4>5 DEF outcome
    <3>3. m < KnownTo => u.frame = t.frame /\ u.at = 3
      BY <1>2, <2>5, <2>8, <2>11, <3>1 DEF Follows
    <3>4. m < KnownTo => Parsed(u)' /\ Counted(u.frame)'
      BY <1>1, <2>2, <2>5, <3>1, <3>2, <3>3 DEF Parsed, Counted
    <3>5. FramesFaithful'
      BY <1>1, <3>2 DEF PortInv, FramesFaithful
    <3> QED BY <1>1, <1>2, <1>3, <2>3, <2>9, <3>4, <3>5, SyncNext DEF PortInv
  <2>12. CASE parser = "body"
    <3> DEFINE ts == [x \in 1..m |-> buf[x]]
    <3>1. /\ t.at = Len(payload) + 3 /\ Len(payload) + missing = Lengths[t.frame] /\ ours
          /\ \A i \in 1..Len(payload) : payload[i] = [frame |-> t.frame, at |-> i + 2]
      BY <2>2, <2>12 DEF Parsed
    <3>2. payload \in Seq(Token) /\ Len(payload) \in Nat /\ missing \in Nat /\ m <= missing
      BY <1>2, <2>12, PortLimits DEF PortPlacesOK, ParserOK
    <3>3. ASSUME NEW x \in 1..m
          PROVE  buf[x] = [frame |-> t.frame, at |-> Len(payload) + x + 2] /\ buf[x] \in Token
      <4>1. x \in Cell /\ x <= Top /\ x \in Nat /\ x <= KnownTo /\ TokenAt(x) = buf[x]
        BY <1>2, Tops DEF Cell, TokenAt
      <4>2. CASE x = 1
        <5>1. t = [frame |-> t.frame, at |-> t.at]
          BY <2>4 DEF Token, Junk
        <5> QED BY <1>0, <2>4, <3>1, <3>2, <4>2, <5>1
      <4>3. CASE x > 1
        <5>1. PICK d \in Nat : x = d + 1 /\ d > 0
          <6>1. x - 1 \in Nat /\ x = (x - 1) + 1 /\ x - 1 > 0
            BY <4>1, <4>3
          <6> QED BY <6>1
        <5>2. Follows(t, d, buf[x])
          BY <2>6, <4>1, <5>1
        <5>3. d <= EndOf(t.frame) - t.at
          BY <1>2, <2>5, <3>1, <3>2, <5>1
        <5>4. buf[x] = [frame |-> t.frame, at |-> t.at + d]
          BY <5>2, <5>3 DEF Follows
        <5>5. t.at + d = Len(payload) + x + 2
          BY <3>1, <3>2, <5>1
        <5> QED BY <4>1, <5>4, <5>5 DEF PortPlacesOK
      <4> QED BY <4>1, <4>2, <4>3
    <3>4. ts \in Seq(Token) /\ Len(ts) = m
      <4>1. \A x \in 1..m : buf[x] \in Token
        BY <3>3
      <4> QED BY <1>2, <4>1
    <3>5. TakesBody(ts)
      <4>1. TakesBody([x \in 1..Least(len, IF parser = "body" THEN missing ELSE 1) |-> buf[x]])
        BY <2>12 DEF ReadCopies, TakesMagic, TakesHead, TakesCrc
      <4> QED BY <1>0, <4>1
    <3> HIDE DEF ts
    <3>6. /\ payload' = payload \o ts /\ missing' = missing - m
          /\ parser' = IF missing = m THEN "crc" ELSE "body"
          /\ UNCHANGED <<ours, delivered, invented>>
      BY <3>4, <3>5 DEF TakesBody, outcome
    <3>7. Len(payload') = Len(payload) + m /\ payload' \in Seq(Token)
      <4>1. payload \o ts \in Seq(Token) /\ Len(payload \o ts) = Len(payload) + Len(ts)
        BY <3>2, <3>4
      <4> QED BY <3>4, <3>6, <4>1
    <3>8. ASSUME NEW i \in 1..Len(payload')
          PROVE  payload'[i] = [frame |-> t.frame, at |-> i + 2]
      <4>1. CASE i <= Len(payload)
        <5>1. payload'[i] = payload[i] /\ i \in 1..Len(payload)
          BY <3>2, <3>4, <3>6, <3>7, <4>1
        <5> QED BY <3>1, <5>1
      <4>2. CASE i > Len(payload)
        <5>1. PICK x \in 1..m : x = i - Len(payload)
          <6>1. i \in Nat /\ i <= Len(payload) + m
            BY <1>2, <3>2, <3>7
          <6>2. i - Len(payload) \in 1..m
            BY <1>2, <3>2, <4>2, <6>1
          <6> QED BY <6>2
        <5>2. payload'[i] = ts[x]
          BY <3>2, <3>4, <3>6, <3>7, <4>2, <5>1
        <5>3. ts[x] = buf[x]
          BY DEF ts
        <5>4. Len(payload) + x + 2 = i + 2
          BY <3>2, <3>7, <5>1
        <5> QED BY <3>3, <5>2, <5>3, <5>4
      <4> QED BY <3>2, <3>7, <4>1, <4>2
    <3>9. m < KnownTo => u.frame = t.frame /\ u.at = t.at + m
      <4>1. m <= EndOf(t.frame) - t.at
        BY <1>2, <2>5, <3>1, <3>2
      <4> QED BY <2>8, <4>1 DEF Follows
    <3>10. m < KnownTo => Parsed(u)' /\ Counted(u.frame)'
      <4>1. SUFFICES ASSUME m < KnownTo PROVE Parsed(u)' /\ Counted(u.frame)'
        OBVIOUS
      <4>2. Counted(u.frame)'
        BY <1>1, <2>2, <3>6, <3>9, <4>1 DEF Counted
      <4>3. parser' \in {"body", "crc"} /\ ours'
        BY <3>1, <3>6
      <4>4. u.at = Len(payload') + 3 /\ Len(payload') + missing' = Lengths[u.frame]
        BY <1>2, <3>1, <3>2, <3>6, <3>7, <3>9, <4>1
      <4>5. parser' = "crc" => u.at = EndOf(u.frame) /\ Len(payload') = Lengths[u.frame]
        BY <1>2, <2>5, <3>1, <3>2, <3>6, <3>7, <3>9, <4>1 DEF EndOf
      <4>6. \A i \in 1..Len(payload') : payload'[i] = [frame |-> u.frame, at |-> i + 2]
        BY <3>8, <3>9, <4>1
      <4> QED BY <4>2, <4>3, <4>4, <4>5, <4>6 DEF Parsed
    <3>11. FramesFaithful'
      BY <1>1, <3>6 DEF PortInv, FramesFaithful
    <3> QED BY <1>1, <1>2, <1>3, <2>3, <2>9, <3>10, <3>11, SyncNext DEF PortInv
  <2>13. CASE parser = "crc"
    <3>1. /\ t.at = EndOf(t.frame) /\ Len(payload) = Lengths[t.frame] /\ ours
          /\ \A i \in 1..Len(payload) : payload[i] = [frame |-> t.frame, at |-> i + 2]
      BY <2>2, <2>13 DEF Parsed
    <3>2. ParserOK
      BY DEF PortPlacesOK
    <3>3. {k \in FrameNo : payload = Body(k)} = {t.frame}
      BY <2>5, <3>1, <3>2, OneBody
    <3>4. Finish
      BY <2>13 DEF ReadCopies, TakesMagic, TakesHead, TakesBody, TakesCrc
    <3>5. parser' = "hunt" /\ payload' = <<>>
      BY <3>4 DEF Finish, HuntAgain
    <3>6. delivered' = Append(delivered, t.frame) /\ (invented' <=> invented)
      <4>1. {k \in FrameNo : ours /\ payload = Body(k)} = {t.frame}
        BY <3>1, <3>3
      <4>2. (CHOOSE k \in {t.frame} : TRUE) = t.frame /\ {t.frame} # {}
        OBVIOUS
      <4> QED BY <3>4, <4>1, <4>2 DEF Finish
    <3>7. /\ delivered \in Seq(FrameNo) /\ Len(delivered') = Len(delivered) + 1
          /\ DOMAIN delivered = 1..Len(delivered) /\ DOMAIN delivered' = 1..(Len(delivered) + 1)
          /\ delivered'[Len(delivered) + 1] = t.frame
          /\ \A i \in 1..Len(delivered) : delivered'[i] = delivered[i]
          /\ Len(delivered) \in Nat
      BY <2>5, <3>2, <3>6 DEF ParserOK
    <3>8. m < KnownTo => u.frame = t.frame + 1 /\ u.at = 1
      <4>1. m = EndOf(t.frame) - t.at + 1 /\ ~(m <= EndOf(t.frame) - t.at)
        BY <1>2, <2>5, <2>13, <3>1
      <4> QED BY <2>8, <4>1 DEF Follows
    <3>9. m < KnownTo => Parsed(u)'
      BY <3>5, <3>8 DEF Parsed
    <3>10. m < KnownTo => Counted(u.frame)'
      <4>1. SUFFICES ASSUME m < KnownTo PROVE Counted(t.frame + 1)'
        BY <3>8
      <4>2. ~damaged' => Len(delivered') = (t.frame + 1) - 1
        BY <1>1, <2>2, <2>5, <3>7 DEF Counted
      <4>3. ASSUME NEW k \in fresh'
            PROVE  k <= t.frame + 1 /\ (k < t.frame + 1 => \E i \in DOMAIN delivered' : delivered'[i] = k)
        <5>1. k \in Nat /\ k <= t.frame /\ (k < t.frame => \E i \in DOMAIN delivered : delivered[i] = k)
          BY <1>1, <2>2, <4>3, PortLimits DEF Counted, PortPlacesOK
        <5>2. CASE k = t.frame
          BY <2>5, <3>7, <5>2
        <5>3. CASE k < t.frame
          BY <2>5, <3>7, <5>1, <5>3
        <5> QED BY <2>5, <5>1, <5>2, <5>3
      <4> QED BY <4>2, <4>3 DEF Counted
    <3>11. FramesFaithful'
      <4>1. SUFFICES ASSUME ~damaged
                     PROVE  ~invented' /\ \A i \in DOMAIN delivered' : delivered'[i] = i
        BY <1>1 DEF FramesFaithful
      <4>2. ~invented /\ \A i \in DOMAIN delivered : delivered[i] = i
        BY <4>1 DEF PortInv, FramesFaithful
      <4>3. Len(delivered) = t.frame - 1
        BY <2>2, <4>1 DEF Counted
      <4>4. \A i \in 1..(Len(delivered) + 1) : delivered'[i] = i
        BY <2>5, <3>7, <4>2, <4>3, SMTT(30)
      <4> QED BY <3>6, <3>7, <4>2, <4>4
    <3> QED BY <1>1, <1>2, <1>3, <2>3, <2>9, <3>9, <3>10, <3>11, SyncNext DEF PortInv
  <2> QED BY <2>10, <2>11, <2>12, <2>13 DEF PortPlacesOK, ParserOK
<1> QED BY <1>6, <1>7

\* The rest moves to the front: every unread place is m places nearer, or the loss is
\* noticed.
LEMMA ReadStoresSync ==
  ASSUME PortPlacesOK, PortPlacesOK', ~twice, ~twice', PortInv, ReadStores
  PROVE  PortInv'
<1>0. PICK m : m = reading.copy
  OBVIOUS
<1>1. UNCHANGED <<outFrame, outAt, callback, parser, missing, ours, payload, delivered, invented>>
  BY DEF ReadStores, dongle, taking, outcome
<1>2. FramesFaithful' /\ (callback'.cut => damaged' /\ fresh' = {})
  BY <1>1 DEF ReadStores, PortInv, FramesFaithful
<1> SUFFICES ASSUME ~damaged' \/ fresh' # {} PROVE InSync'
  BY <1>2 DEF PortInv
<1>3. len = reading.avail /\ fresh' = fresh /\ (damaged' <=> damaged) /\ (~damaged \/ fresh # {})
  BY Zenon DEF ReadStores
<1>4. InSync
  BY <1>3 DEF PortInv, Overtaken
<1>5. /\ m \in Nat /\ 1 <= m /\ m <= len /\ len' = len - m /\ reading'.copy = 0
      /\ len \in Nat /\ len' \in Nat /\ Top \in Nat /\ Capacity \in Nat /\ Top <= Capacity /\ len <= Top
  <2>1. reading # NoReading /\ len' = reading.avail - reading.copy /\ reading' = NoReading
    BY DEF ReadStores, Shift
  <2>2. m \in Nat /\ 1 <= m /\ m <= len
    BY <1>0, <1>3, <2>1 DEF PortPlacesOK, PlaceOK, ReadOK
  <2> QED BY <1>0, <1>3, <2>1, <2>2, Tops DEF NoReading
<1>6. /\ callback # NoCallback => Missing'
      /\ callback # NoCallback => callback.pos >= len /\ callback.pos \in Nat /\ callback.n \in Nat
  <2>1. callback # NoCallback => callback.pos >= len /\ callback.pos \in Nat /\ callback.n \in Nat
    BY <1>5, PortLimits DEF PortPlacesOK, PlaceOK
  <2>2. callback # NoCallback => callback.pos # len'
    BY <1>5, <2>1
  <2> QED BY <1>1, <2>1, <2>2 DEF Missing
<1>7. /\ Top' = len' /\ KnownTo' + m <= KnownTo
      /\ callback # NoCallback => KnownTo' = len'
      /\ callback = NoCallback => KnownTo' = len' + 1 /\ Top = len /\ KnownTo = len + 1
      /\ KnownTo' \in {len', len' + 1} /\ KnownTo \in {Top, Top + 1}
  <2>1. CASE callback = NoCallback
    <3>1. ~Missing /\ Top = len /\ KnownTo = len + 1
      BY <2>1, Tops
    <3>2. ~Missing' /\ callback'.n = 0
      BY <1>1, <2>1 DEF Missing, NoCallback
    <3>3. Top' = len' /\ KnownTo' = len' + 1
      BY <1>5, <3>2 DEF Top, KnownTo
    <3> QED BY <1>5, <2>1, <3>1, <3>3
  <2>2. CASE callback # NoCallback
    <3>1. Top' = len' /\ KnownTo' = len'
      BY <1>6, <2>2 DEF Top, KnownTo
    <3> QED BY <1>5, <2>2, <3>1, Tops
  <2> QED BY <2>1, <2>2
<1>8. ASSUME NEW x \in Cell, x <= len'
      PROVE  buf'[x] = buf[x + m] /\ x + m \in Cell
  <2>1. x + m \in Cell
    BY <1>5, <1>8 DEF Cell
  <2>2. x <= reading.avail - reading.copy
    BY <1>0, <1>3, <1>5, <1>8
  <2> QED BY <1>0, <1>8, <2>1, <2>2 DEF ReadStores, Shift
<1>9. NextOut' = NextOut
  BY <1>1 DEF NextOut
<1>10. ASSUME NEW i \in Nat, NEW j, j = i + m, i > 0, i <= KnownTo'
       PROVE  TokenAt(i)' = TokenAt(j) /\ j <= KnownTo /\ j > m
  <2>1. j <= KnownTo /\ j > m
    BY <1>5, <1>7, <1>10
  <2>2. CASE i <= len'
    <3>1. i \in Cell
      BY <1>5, <1>10, <2>2 DEF Cell
    <3>2. TokenAt(i)' = buf'[i]
      BY <1>7, <2>2 DEF TokenAt
    <3>3. j <= Top
      BY <1>5, <1>10, <2>2
    <3>4. TokenAt(j) = buf[j]
      BY <3>3 DEF TokenAt
    <3> QED BY <1>8, <1>10, <2>1, <2>2, <3>1, <3>2, <3>4
  <2>3. CASE i > len'
    <3>1. callback = NoCallback /\ i = len' + 1
      BY <1>5, <1>7, <1>10, <2>3
    <3>2. ~(j <= Top)
      BY <1>5, <1>7, <1>10, <3>1
    <3>3. TokenAt(i)' = NextOut' /\ TokenAt(j) = NextOut
      BY <1>7, <1>5, <2>3, <3>2 DEF TokenAt
    <3> QED BY <1>9, <2>1, <3>3
  <2> QED BY <1>5, <1>10, <2>2, <2>3
<1>11. Contiguous'
  <2>1. Contiguous
    BY <1>4 DEF InSync
  <2>2. ASSUME NEW i \in Cell, i <= len'
        PROVE  buf'[i] # Junk /\ buf'[i].at <= EndOf(buf'[i].frame)
    <3>1. PICK j : j = i + m
      OBVIOUS
    <3>2. j \in Cell /\ m < j /\ j <= Top /\ buf'[i] = buf[j]
      BY <1>5, <1>8, <2>2, <3>1 DEF Cell
    <3>3. buf[j] # Junk /\ buf[j].at <= EndOf(buf[j].frame)
      BY <1>0, <2>1, <3>2 DEF Contiguous
    <3> QED BY <3>2, <3>3
  <2>3. ASSUME NEW i \in 1..(Capacity + 1), NEW j \in 1..(Capacity + 1), i < j, j <= KnownTo'
        PROVE  Follows(TokenAt(i), j - i, TokenAt(j))'
    <3>1. PICK i1, j1 : i1 = i + m /\ j1 = j + m
      OBVIOUS
    <3>2. i \in Nat /\ j \in Nat /\ i > 0 /\ j > 0 /\ i <= KnownTo'
      BY <1>5, <1>7, <2>3
    <3>3. /\ TokenAt(i)' = TokenAt(i1) /\ i1 <= KnownTo /\ i1 > m
          /\ TokenAt(j)' = TokenAt(j1) /\ j1 <= KnownTo /\ j1 > m
      BY <1>10, <2>3, <3>1, <3>2
    <3>4. i1 \in 1..(Capacity + 1) /\ j1 \in 1..(Capacity + 1) /\ i1 < j1 /\ j1 - i1 = j - i
      BY <1>5, <1>7, <2>3, <3>1, <3>2, <3>3
    <3>5. Follows(TokenAt(i1), j - i, TokenAt(j1))
      BY <1>0, <2>1, <3>3, <3>4 DEF Contiguous
    <3>6. PICK t, u : t = TokenAt(i1) /\ u = TokenAt(j1)
      OBVIOUS
    <3>7. Follows(t, j - i, u) /\ TokenAt(i)' = t /\ TokenAt(j)' = u
      BY <3>3, <3>5, <3>6
    <3> QED BY <3>7 DEF Follows
  <2> QED BY <1>5, <1>7, <2>2, <2>3 DEF Contiguous
<1>12. PICK t : t = TokenAt(m + 1)
  OBVIOUS
<1>13. ASSUME reading'.copy < KnownTo'
       PROVE  TokenAt(reading.copy + 1)' = t /\ Parsed(t)' /\ Counted(t.frame)'
  <2>1. PICK j : j = m + 1
    OBVIOUS
  <2>2. 1 \in Nat /\ j = 1 + m /\ 1 <= KnownTo'
    BY <1>5, <1>7, <1>13, <2>1
  <2>3. TokenAt(1)' = TokenAt(j) /\ j <= KnownTo /\ j > m
    BY <1>10, <2>2
  <2>4. PICK k : k = 1
    OBVIOUS
  <2>5. TokenAt(k)' = t /\ k = reading'.copy + 1
    BY <1>5, <1>12, <2>1, <2>3, <2>4
  <2>6. Parsed(t) /\ Counted(t.frame)
    <3>1. m < KnownTo
      BY <1>5, <1>7, <2>1, <2>3
    <3> QED BY <1>0, <1>4, <1>12, <3>1 DEF InSync
  <2>7. Parsed(t)' /\ Counted(t.frame)'
    BY <1>1, <1>3, <2>6 DEF Parsed, Counted
  <2> QED BY <2>5, <2>7
<1> QED BY <1>11, <1>13, SyncNext

\* A read gives up only where bytes were lost: with every byte accounted for, the parser
\* hunts when nothing is unread and the dongle is between two frames.
LEMMA ReadTimesOutSync ==
  ASSUME PortPlacesOK, PortPlacesOK', ~twice, ~twice', PortInv, ReadTimesOut
  PROVE  PortInv'
<1>1. UNCHANGED <<callback, damaged, fresh>>
  BY DEF ReadTimesOut
<1>2. ~(~damaged \/ fresh # {})
  <2>1. SUFFICES ASSUME ~damaged \/ fresh # {} PROVE FALSE
    OBVIOUS
  <2>2. ~Overtaken /\ reading.copy = 0 /\ Top = 0 /\ KnownTo = 1
    BY Tops DEF ReadTimesOut, Silence
  <2>3. PICK t : t = NextOut
    OBVIOUS
  <2>4. TokenAt(reading.copy + 1) = t /\ reading.copy < KnownTo
    BY <2>2, <2>3 DEF TokenAt
  <2>5. Parsed(t)
    BY <2>1, <2>2, <2>4 DEF PortInv, InSync
  <2>6. t.at = 1 /\ parser # "hunt" /\ ParserOK /\ t.frame = outFrame /\ outFrame \in 1..(Len(Lengths) + 1)
    BY <2>3 DEF ReadTimesOut, Silence, NextOut, PortPlacesOK, WireOK
  <2>7. Len(payload) \in Nat
    BY <2>6 DEF ParserOK
  <2>8. parser = "crc"
    BY <2>5, <2>6, <2>7 DEF Parsed, ParserOK
  <2>9. EndOf(t.frame) = 1 /\ Len(payload) = Lengths[t.frame]
    BY <2>5, <2>6, <2>8 DEF Parsed
  <2> QED BY <2>7, <2>9 DEF EndOf
<1> QED BY <1>1, <1>2 DEF PortInv, FramesFaithful

\* With a second task, or with pieces of mixed frames, the damage is noted: nothing is said
\* of the buffer any more, until a fresh frame begins before one task.
LEMMA DamageNoted ==
  ASSUME PortInv, [NextPort]_portVars
  PROVE  /\ twice => twice'
         /\ twice' \/ PiecesArrive => damaged' /\ fresh' = {}
<1>1. twice => twice'
  BY DEF NextPort, FrameBegins, CallbackCopies, PiecesArrive, CallbackStores, ReadCopies, ReadStores,
    ReadTimesOut, SecondTask, SecondCopies, SecondStores, portVars, second
<1>2. CASE PiecesArrive
  BY <1>1, <1>2 DEF PiecesArrive
<1>3. CASE SecondTask
  BY <1>1, <1>3 DEF SecondTask
<1>4. CASE ~PiecesArrive /\ ~SecondTask
  <2>1. twice' => twice
    BY <1>4 DEF NextPort, FrameBegins, CallbackCopies, CallbackStores, ReadCopies, ReadStores,
      ReadTimesOut, SecondCopies, SecondStores, portVars, second
  <2>2. twice => damaged /\ fresh = {}
    BY DEF PortInv
  <2>3. twice /\ damaged /\ fresh = {} => damaged' /\ fresh' = {}
    BY <1>4 DEF NextPort, FrameBegins, CallbackCopies, CallbackStores, ReadCopies, ReadStores,
      ReadTimesOut, SecondCopies, SecondStores, portVars
  <2> QED BY <1>1, <1>4, <2>1, <2>2, <2>3
<1> QED BY <1>2, <1>3, <1>4

LEMMA PortInvStep ==
  ASSUME PortFlagsOK, PortPlacesOK, PortPlacesOK', PortInv, [NextPort]_portVars
  PROVE  PortInv'
<1>0. CASE twice' \/ PiecesArrive
  BY <1>0, DamageNoted DEF PortInv, FramesFaithful
<1> SUFFICES ASSUME ~twice', ~PiecesArrive PROVE PortInv'
  BY <1>0
<1>a. ~twice /\ ~SecondTask /\ ~SecondCopies
  BY DamageNoted DEF SecondTask, SecondCopies
<1>1. CASE FrameBegins
  BY <1>a, <1>1, FrameBeginsSync
<1>2. CASE CallbackCopies
  BY <1>a, <1>2, CallbackCopiesSync
<1>3. CASE CallbackStores
  BY <1>a, <1>3, CallbackStoresSync
<1>4. CASE ReadCopies
  BY <1>a, <1>4, ReadCopiesSync
<1>5. CASE ReadStores
  BY <1>a, <1>5, ReadStoresSync
<1>6. CASE ReadTimesOut
  BY <1>a, <1>6, ReadTimesOutSync
<1>7. CASE UNCHANGED portVars
  <2>1. UNCHANGED <<outFrame, outAt, buf, len, callback, reading, parser, missing, ours, payload,
                    delivered, invented, damaged, fresh>>
    BY <1>7 DEF portVars, dongle, buffer, taking, outcome
  <2>2. UNCHANGED <<Top, KnownTo, NextOut>> /\ (Overtaken' <=> Overtaken)
    BY <2>1 DEF Top, KnownTo, Missing, NextOut, Overtaken
  <2>3. \A j : TokenAt(j)' = TokenAt(j)
    BY <2>1, <2>2 DEF TokenAt
  <2>4. InSync => InSync'
    <3>1. SUFFICES ASSUME InSync PROVE InSync'
      OBVIOUS
    <3>2. Contiguous'
      BY <2>1, <2>2, <2>3, <3>1 DEF InSync, Contiguous
    <3>3. PICK j, t : j = reading.copy + 1 /\ t = TokenAt(j)
      OBVIOUS
    <3>4. TokenAt(j)' = t /\ j = reading'.copy + 1
      BY <2>1, <2>3, <3>3
    <3>5. reading.copy < KnownTo => Parsed(t) /\ Counted(t.frame)
      BY <3>1, <3>3 DEF InSync
    <3>6. Parsed(t) /\ Counted(t.frame) => Parsed(t)' /\ Counted(t.frame)'
      BY <2>1 DEF Parsed, Counted
    <3> QED BY <2>1, <2>2, <3>2, <3>4, <3>5, <3>6, SyncNext
  <2> QED BY <1>a, <2>1, <2>2, <2>4 DEF PortInv, FramesFaithful
<1>8. CASE SecondStores
  \* It would have something to store only if there were a second task.
  BY <1>a, <1>8 DEF SecondStores, PortFlagsOK
<1> QED BY <1>a, <1>1, <1>2, <1>3, <1>4, <1>5, <1>6, <1>7, <1>8 DEF NextPort

LEMMA PortInvInit == ASSUME InitPort, PortPlacesOK PROVE PortInv
<1>1. reading.copy = 0 /\ Top = 0 /\ KnownTo = 1 /\ NextOut.at = 1 /\ NextOut.frame = 1
  BY Tops DEF InitPort, NextOut
<1>2. TokenAt(reading.copy + 1) = NextOut
  BY <1>1 DEF TokenAt
<1>3. Parsed(NextOut) /\ Counted(NextOut.frame)
  <2>1. Len(delivered) = 0
    BY DEF InitPort
  <2> QED BY <1>1, <2>1 DEF InitPort, Parsed, Counted
<1>4. Contiguous
  BY <1>1 DEF Contiguous, Cell
<1>5. FramesFaithful /\ ~callback.cut /\ ~twice
  BY DEF InitPort, FramesFaithful, NoCallback
<1> QED BY <1>2, <1>3, <1>4, <1>5 DEF PortInv, InSync

LEMMA PortInvInvariant == SpecPort => [](PortFlagsOK /\ PortPlacesOK /\ PortInv)
<1>1. InitPort /\ PortPlacesOK => PortInv
  BY PortInvInit
<1>2. PortFlagsOK /\ PortPlacesOK /\ PortPlacesOK' /\ PortInv /\ [NextPort]_portVars => PortInv'
  BY PortInvStep
<1> QED BY <1>1, <1>2, PortTypesInvariant, PTL DEF SpecPort

\* As long as no byte was dropped for want of room, no length was stored over the other's,
\* no frames came mixed from the dongle and there is one receive task, every payload is
\* handed on whole, once and in order, however bytes, callbacks and reads alternate
\* (cdc_rx_callback, loader_port_read, rxTaskLoop).
THEOREM FramesAreFaithful == SpecPort => []FramesFaithful
<1>1. PortInv => FramesFaithful
  BY DEF PortInv
<1> QED BY <1>1, PortInvInvariant, PTL

\* The parser finds its way back by itself: a frame begun when nothing was unread and the
\* parser of the only task hunted, none of whose bytes was lost and into which no others
\* were mixed since, has been handed on by the time it hunts again with nothing unread,
\* whatever was lost or mixed before (rxTaskLoop).
THEOREM LinkRecovers == SpecPort => []Recovers
<1>1. ASSUME PortPlacesOK, PortInv PROVE Recovers
  <2>1. SUFFICES ASSUME NEW k \in fresh, outFrame > k, Silence
                 PROVE  \E i \in DOMAIN delivered : delivered[i] = k
    BY DEF Recovers
  <2>0. ~twice
    BY <1>1, <2>1 DEF PortInv
  <2>2. ~Overtaken /\ reading.copy = 0 /\ Top = 0 /\ KnownTo = 1
    BY <1>1, <2>0, <2>1, Tops DEF Silence
  <2>3. InSync
    BY <1>1, <2>2 DEF PortInv
  <2>4. TokenAt(reading.copy + 1) = NextOut /\ NextOut.frame = outFrame
    BY <2>2 DEF TokenAt, NextOut
  <2>5. Counted(outFrame)
    BY <2>2, <2>3, <2>4 DEF InSync
  <2>6. k < outFrame
    BY <1>1, <2>1, PortLimits DEF PortPlacesOK, WireOK
  <2> QED BY <2>5, <2>6 DEF Counted
<1> QED BY <1>1, PortInvInvariant, PTL
=============================================================================
