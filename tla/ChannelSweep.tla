---------------------------- MODULE ChannelSweep ----------------------------
(***************************************************************************)
(* The radio of the S3 board (bsp/esp32_s3_jc3248/hal/hal_radio_s3.cpp):   *)
(* the user interface sets power and channel and starts and stops scans; a *)
(* worker task scans Wi-Fi and sweeps the channels one after the other,    *)
(* putting the channel back at its end.  They share s_radio, without a     *)
(* lock.  Power and mode are one thing here, on: the radio works when it   *)
(* is powered and its mode is not Off, and each call sets both alike.      *)
(*                                                                         *)
(* External: the Wi-Fi driver (esp_wifi_set_channel, WiFi.scanNetworks);   *)
(* MeshEngine::setChannel, which only sets the channel of the driver too.  *)
(* Each call of the interface is one step between two of the worker's.     *)
(***************************************************************************)
EXTENDS Naturals

CONSTANTS
  Channels,     \* the channels are 1..Channels (13)
  WorkerFails,  \* whether xTaskCreatePinnedToCore may find no memory
  MaxOrders     \* bound: the calls of the user interface

ASSUME SweepAssumption ==
  Channels \in Nat \ {0} /\ WorkerFails \in BOOLEAN /\ MaxOrders \in Nat

VARIABLES
  on,        \* s_radio.powered, and s_radio.mode not Off
  channel,   \* s_radio.channel
  tuned,     \* the channel the driver is tuned to; 0 when it was switched off
  scanning,  \* s_radio.wifiScanning
  sweeping,  \* s_radio.channelSweeping
  worker,    \* where radioScanWorkerTask is; "none" before it is created
  hop,       \* ch of its loop
  original,  \* originalCh
  orders,    \* calls so far
  wanted,    \* history: the channel the user asked for last
  crossed,   \* history: setChannel was called while the worker swept
  owed       \* history: a Wi-Fi scan was asked for, not stopped, not answered

settings == <<on, channel, tuned>>
requests == <<scanning, sweeping>>
sweepTask == <<worker, hop, original>>
sweepHistory == <<wanted, crossed, owed>>
sweepVars == <<settings, requests, sweepTask, orders, sweepHistory>>

Channel == 1..Channels
Places == {"none", "scan?", "scan", "answer", "sweep?", "hop", "dwell", "restore", "retune", "over"}
InSweep == worker \in {"hop", "dwell", "restore", "retune", "over"}
\* The worker is created by the first start that has the memory for it.
Created ==
  IF worker # "none" THEN {worker}
  ELSE {"scan?"} \cup {p \in {"none"} : WorkerFails}
-----------------------------------------------------------------------------
InitSweep ==
  /\ on = TRUE /\ channel = 1 /\ tuned = 1
  /\ scanning = FALSE /\ sweeping = FALSE
  /\ worker = "none" /\ hop = 1 /\ original = 1
  /\ orders = 0 /\ wanted = 1 /\ crossed = FALSE /\ owed = FALSE

Order == orders < MaxOrders /\ orders' = orders + 1

\* setPower and setMode, with applyRadioModeConfig.
Apply(o) == on' = o /\ tuned' = (IF o THEN channel ELSE 0)

SetPower ==
  /\ Order /\ \E o \in BOOLEAN : Apply(o)
  /\ UNCHANGED <<channel, requests, sweepTask, sweepHistory>>

SetChannel ==
  /\ Order
  /\ \E c \in Channel :
       /\ channel' = c /\ wanted' = c
       /\ tuned' = IF on THEN c ELSE tuned
  /\ crossed' = (crossed \/ InSweep)
  /\ UNCHANGED <<on, requests, sweepTask, owed>>

\* startWifiScan and startChannelSweep switch the radio on, and create the worker if
\* there is none; that it could not be created they do not notice.
StartScan ==
  /\ Order
  /\ IF on THEN UNCHANGED <<on, tuned>> ELSE Apply(TRUE)
  /\ scanning' = TRUE /\ owed' = TRUE /\ worker' \in Created
  /\ UNCHANGED <<channel, sweeping, hop, original, wanted, crossed>>

StartSweep ==
  /\ Order
  /\ IF on THEN UNCHANGED <<on, tuned>> ELSE Apply(TRUE)
  /\ sweeping' = TRUE /\ worker' \in Created
  /\ UNCHANGED <<channel, scanning, hop, original, sweepHistory>>

StopScan ==
  /\ Order
  /\ scanning' = FALSE /\ sweeping' = FALSE /\ owed' = FALSE
  /\ UNCHANGED <<settings, sweepTask, wanted, crossed>>
-----------------------------------------------------------------------------
\* Mutant of WorkerScans: the callback comes before the flag is cleared.
WorkerScansLate ==
  \/ /\ worker = "scan?" /\ worker' = IF scanning THEN "scan" ELSE "sweep?"
     /\ UNCHANGED <<scanning, owed>>
  \/ worker = "scan" /\ worker' = "answer" /\ owed' = FALSE /\ UNCHANGED scanning
  \/ worker = "answer" /\ worker' = "sweep?" /\ scanning' = FALSE /\ UNCHANGED owed

\* radioScanWorkerTask: a Wi-Fi scan when one is wanted.  The flag is cleared when the
\* scan is over, the callback answers after that.
WorkerScans ==
  \/ /\ worker = "scan?" /\ worker' = IF scanning THEN "scan" ELSE "sweep?"
     /\ UNCHANGED <<scanning, owed>>
  \/ worker = "scan" /\ worker' = "answer" /\ scanning' = FALSE /\ UNCHANGED owed
  \/ worker = "answer" /\ worker' = "sweep?" /\ owed' = FALSE /\ UNCHANGED scanning

Scanning ==
  /\ WorkerScans
  /\ UNCHANGED <<settings, sweeping, hop, original, orders, wanted, crossed>>

\* ... then a sweep when one is wanted: it notes the channel,
SweepBegins ==
  /\ worker = "sweep?"
  /\ IF sweeping THEN worker' = "hop" /\ hop' = 1 /\ original' = channel
                 ELSE worker' = "scan?" /\ UNCHANGED <<hop, original>>
  /\ UNCHANGED <<settings, requests, orders, sweepHistory>>

\* sets one channel after the other, as long as the sweep is wanted,
SweepHops ==
  /\ worker = "hop"
  /\ IF hop <= Channels /\ sweeping
       THEN /\ channel' = hop /\ worker' = "dwell"
            /\ tuned' = IF on THEN hop ELSE tuned
       ELSE worker' = "restore" /\ UNCHANGED <<channel, tuned>>
  /\ UNCHANGED <<on, requests, hop, original, orders, sweepHistory>>

SweepDwells ==
  /\ worker = "dwell" /\ worker' = "hop" /\ hop' = hop + 1
  /\ UNCHANGED <<settings, requests, original, orders, sweepHistory>>

\* and puts back the channel it noted, whether it was stopped or not,
SweepRestores ==
  /\ worker = "restore" /\ worker' = "retune"
  /\ channel' = original
  /\ UNCHANGED <<on, tuned, requests, hop, original, orders, sweepHistory>>

\* Mutant of SweepRetunes: the driver stays on the last channel of the sweep.
SweepLeaves ==
  /\ worker = "retune" /\ worker' = "over"
  /\ UNCHANGED <<settings, requests, hop, original, orders, sweepHistory>>

SweepRetunes ==
  /\ worker = "retune" /\ worker' = "over"
  /\ tuned' = IF on THEN original ELSE tuned
  /\ UNCHANGED <<on, channel, requests, hop, original, orders, sweepHistory>>

\* and takes the request for done, whichever it was.
SweepEnds ==
  /\ worker = "over" /\ worker' = "scan?" /\ sweeping' = FALSE
  /\ UNCHANGED <<settings, scanning, hop, original, orders, sweepHistory>>

NextSweep ==
  \/ SetPower \/ SetChannel \/ StartScan \/ StartSweep \/ StopScan
  \/ Scanning \/ SweepBegins \/ SweepHops \/ SweepDwells
  \/ SweepRestores \/ SweepRetunes \/ SweepEnds

SpecSweep == InitSweep /\ [][NextSweep]_sweepVars

\* The worker runs as long as the board does.
Worker ==
  \/ Scanning \/ SweepBegins \/ SweepHops \/ SweepDwells
  \/ SweepRestores \/ SweepRetunes \/ SweepEnds

FairSweep == SpecSweep /\ WF_sweepVars(Worker)
-----------------------------------------------------------------------------
(* Properties *)

\* Every variable has the type of what it stands for.
SweepTypeOK ==
  /\ on \in BOOLEAN /\ channel \in Channel /\ tuned \in Channel \cup {0}
  /\ scanning \in BOOLEAN /\ sweeping \in BOOLEAN
  /\ worker \in Places /\ hop \in 1..(Channels + 1) /\ original \in Channel
  /\ orders \in 0..MaxOrders
  /\ wanted \in Channel /\ crossed \in BOOLEAN /\ owed \in BOOLEAN

\* Outside a sweep the radio is on the channel the user asked for, however sweeps were
\* started, stopped and interrupted by switching the radio off and on; only a channel
\* set during a sweep can be lost (radioScanWorkerTask, setChannel, setPower).
ChannelKept ==
  ~InSweep /\ ~crossed => channel = wanted /\ (on => tuned = wanted)

\* A Wi-Fi scan that is not stopped is answered, also one that is asked for while the
\* worker ends an earlier one, or that found no memory for a worker and waits for a
\* later start to create it (startWifiScan, radioScanWorkerTask).
ScansAnswered == owed /\ worker # "none" ~> ~owed
=============================================================================
