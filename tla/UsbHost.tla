------------------------------ MODULE UsbHost -------------------------------
(***************************************************************************)
(* The USB host port of the P4 and its three users: the device manager     *)
(* (usb_device_manager.cpp), the port of the terminal (P4UsbOtgPort of     *)
(* hal_uart_p4.cpp) and the start and stop of the radio transport          *)
(* (UsbCdcRadioTransport of hal_mesh_p4.cpp).  The driver's task announces *)
(* a new device to the manager, through a queue, and the loss of a device  *)
(* to those who hold a handle of it: the manager holds none.               *)
(*                                                                         *)
(* The d-th device plugged in has the number d.  The user interface makes  *)
(* one call at a time.  External: the driver (cdc_acm_host_open claims     *)
(* what is plugged in, unless somebody has it).                            *)
(***************************************************************************)
EXTENDS Naturals, Sequences

CONSTANTS
  MaxPlugs,   \* bound: the devices plugged in, one after the other
  MaxLoops,   \* bound: the receive tasks the transport creates
  QueueSize   \* the length of s_usb_queue (8)

ASSUME HostAssumption ==
  MaxPlugs \in Nat /\ MaxLoops \in Nat /\ QueueSize \in Nat \ {0}

VARIABLES
  plugged,      \* the device in the port; 0: none
  plugs,        \* devices so far
  news,         \* what the driver's task has still to tell
  queue,        \* s_usb_queue
  missed,       \* history: the devices whose announcement did not fit
  active,       \* m_activeDevice, 0 while it is not connected
  portOpen,     \* m_isOpen of the port
  portHandle,   \* m_cdcDev: the device it is a handle of; 0: null
  opening,      \* where open is
  overtaken,    \* history: a device went while open was on its last steps
  running,      \* m_running of the transport
  ready,        \* m_ready
  rxTask,       \* m_rxTaskHandle; 0: null
  radioHandle,  \* s_cdc_dev, never closed when its device goes
  stopping,     \* stop waits its 50 ms
  loop          \* where each receive task is

manager == <<queue, missed, active>>
port == <<portOpen, portHandle, opening, overtaken>>
transport == <<running, ready, rxTask, radioHandle, stopping, loop>>
hostVars == <<plugged, plugs, news, manager, port, transport>>

Device == 1..MaxPlugs
RxLoop == 1..MaxLoops
News == [what : {"new", "gone"}, dev : Device]
UiFree == opening = "no" /\ ~stopping
-----------------------------------------------------------------------------
InitHost ==
  /\ plugged = 0 /\ plugs = 0 /\ news = <<>>
  /\ queue = <<>> /\ missed = {} /\ active = 0
  /\ portOpen = FALSE /\ portHandle = 0 /\ opening = "no" /\ overtaken = FALSE
  /\ running = FALSE /\ ready = FALSE /\ rxTask = 0 /\ radioHandle = 0 /\ stopping = FALSE
  /\ loop = [k \in RxLoop |-> "none"]

Plug ==
  /\ plugged = 0 /\ plugs < MaxPlugs
  /\ plugs' = plugs + 1 /\ plugged' = plugs'
  /\ news' = Append(news, [what |-> "new", dev |-> plugs'])
  /\ UNCHANGED <<manager, port, transport>>

Unplug ==
  /\ plugged # 0 /\ plugged' = 0
  /\ news' = IF portHandle = plugged THEN Append(news, [what |-> "gone", dev |-> plugged])
                                     ELSE news
  /\ UNCHANGED <<plugs, manager, port, transport>>

Told(what) == news # <<>> /\ Head(news).what = what /\ news' = Tail(news)

\* on_native_new_dev_cb: the device is announced, unless it has gone, or the queue is full.
DriverAnnounces ==
  /\ Told("new")
  /\ LET d == Head(news).dev
     IN \/ Len(queue) < QueueSize /\ queue' = Append(queue, d) /\ UNCHANGED missed
        \/ Len(queue) = QueueSize /\ missed' = missed \cup {d} /\ UNCHANGED queue
        \/ plugged # d /\ UNCHANGED <<queue, missed>>
  /\ UNCHANGED <<plugged, plugs, active, port, transport>>

\* Mutant of DriverDisconnects: the handle is kept, as that of the transport is.
DriverKeepsHandle ==
  /\ Told("gone")
  /\ portOpen' = FALSE
  /\ overtaken' = (overtaken \/ opening = "opened")
  /\ UNCHANGED <<plugged, plugs, manager, portHandle, opening, transport>>

\* cdcEventCb of the port: it closes, and gives back the handle.
DriverDisconnects ==
  /\ Told("gone")
  /\ portOpen' = FALSE /\ portHandle' = 0
  /\ overtaken' = (overtaken \/ opening = "opened")
  /\ UNCHANGED <<plugged, plugs, manager, opening, transport>>

\* Mutant of ManagerTakes: a device that comes while one is active is not looked at.
ManagerTakesFirst ==
  /\ queue # <<>> /\ queue' = Tail(queue)
  /\ active' = IF active = 0 THEN Head(queue) ELSE active
  /\ UNCHANGED <<plugged, plugs, news, missed, port, transport>>

\* usb_manager_task: handleDeviceConnected.  No driver is ever registered, and the event
\* of a disconnection never comes: the callback that would send it is given to nobody.
ManagerTakes ==
  /\ queue # <<>> /\ queue' = Tail(queue)
  /\ active' = Head(queue)
  /\ UNCHANGED <<plugged, plugs, news, missed, port, transport>>
-----------------------------------------------------------------------------
\* open of the port: with an active device; a handle that is there is used again.
OpenBegins ==
  /\ UiFree /\ active # 0
  /\ opening' = IF portHandle = 0 THEN "claim" ELSE "opened"
  /\ UNCHANGED <<plugged, plugs, news, manager, portOpen, portHandle, overtaken, transport>>

\* What is plugged in answers to the name of the active device, or does not.
OpenClaims ==
  /\ opening = "claim"
  /\ \/ plugged \notin {0, radioHandle} /\ portHandle' = plugged /\ opening' = "opened"
     \/ opening' = "no" /\ UNCHANGED portHandle
  /\ UNCHANGED <<plugged, plugs, news, manager, portOpen, overtaken, transport>>

OpenEnds ==
  /\ opening = "opened" /\ opening' = "no" /\ portOpen' = TRUE
  /\ UNCHANGED <<plugged, plugs, news, manager, portHandle, overtaken, transport>>

\* close keeps the handle.
ClosePort ==
  /\ UiFree /\ portOpen /\ portOpen' = FALSE
  /\ UNCHANGED <<plugged, plugs, news, manager, portHandle, opening, overtaken, transport>>
-----------------------------------------------------------------------------
\* init of the transport, with a handle that is there or a device to claim.  A task is
\* created when there is no handle of one; for want of memory it may not be.
RadioInit ==
  /\ UiFree
  /\ \/ radioHandle # 0 /\ UNCHANGED radioHandle
     \/ radioHandle = 0 /\ plugged \notin {0, portHandle} /\ radioHandle' = plugged
  /\ ready' = TRUE
  /\ \/ rxTask # 0 /\ UNCHANGED <<running, rxTask, loop>>
     \/ rxTask = 0 /\ running' = TRUE /\ UNCHANGED <<rxTask, loop>>
     \/ /\ rxTask = 0 /\ running' = TRUE
        /\ rxTask' \in {k \in RxLoop : loop[k] = "none" /\ \A j \in 1..(k - 1) : loop[j] # "none"}
        /\ loop' = [loop EXCEPT ![rxTask'] = "test"]
  /\ UNCHANGED <<plugged, plugs, news, manager, port, stopping>>

RadioStops ==
  /\ UiFree
  /\ running' = FALSE /\ ready' = FALSE /\ stopping' = (rxTask # 0)
  /\ UNCHANGED <<plugged, plugs, news, manager, port, rxTask, radioHandle, loop>>

\* Mutant of RadioStopped: stop does not forget the task.
RadioStoppedKeeps ==
  /\ stopping /\ stopping' = FALSE
  /\ UNCHANGED <<plugged, plugs, news, manager, port, running, ready, rxTask, radioHandle, loop>>

\* The 50 ms are over; the task may still be in a read of 100 or 200.
RadioStopped ==
  /\ stopping /\ stopping' = FALSE /\ rxTask' = 0
  /\ UNCHANGED <<plugged, plugs, news, manager, port, running, ready, radioHandle, loop>>

\* rxTaskLoop looks at m_running between its reads.
LoopRuns(k) ==
  /\ \/ loop[k] = "test" /\ loop' = [loop EXCEPT ![k] = IF running THEN "read" ELSE "done"]
     \/ loop[k] = "read" /\ loop' = [loop EXCEPT ![k] = "test"]
  /\ UNCHANGED <<plugged, plugs, news, manager, port, running, ready, rxTask, radioHandle,
                 stopping>>

NextHost ==
  \/ Plug \/ Unplug \/ DriverAnnounces \/ DriverDisconnects \/ ManagerTakes
  \/ OpenBegins \/ OpenClaims \/ OpenEnds \/ ClosePort
  \/ RadioInit \/ RadioStops \/ RadioStopped \/ \E k \in RxLoop : LoopRuns(k)

SpecHost == InitHost /\ [][NextHost]_hostVars

\* The driver's task and the manager's run.
DriverTells == DriverAnnounces \/ DriverDisconnects
FairHost == SpecHost /\ WF_hostVars(DriverTells) /\ WF_hostVars(ManagerTakes)
-----------------------------------------------------------------------------
(* Properties *)

\* Every variable has the type of the member it stands for.
HostTypeOK ==
  /\ plugged \in {0, plugs} /\ plugs \in 0..MaxPlugs /\ news \in Seq(News)
  /\ queue \in Seq(Device) /\ Len(queue) <= QueueSize /\ missed \subseteq Device
  /\ active \in 0..MaxPlugs /\ portHandle \in 0..MaxPlugs /\ radioHandle \in 0..MaxPlugs
  /\ portOpen \in BOOLEAN /\ opening \in {"no", "claim", "opened"} /\ overtaken \in BOOLEAN
  /\ running \in BOOLEAN /\ ready \in BOOLEAN /\ stopping \in BOOLEAN
  /\ rxTask \in 0..MaxLoops /\ loop \in [RxLoop -> {"none", "test", "read", "done"}]

\* The terminal never talks to a device that has gone: its handle is one of the device
\* in the port, or the driver is about to take it back; and an open port has a handle,
\* unless the device went in the middle of open (open, close, onDisconnected).
SessionBacked ==
  /\ portHandle # 0 =>
       \/ portHandle = plugged
       \/ \E i \in DOMAIN news : news[i] = [what |-> "gone", dev |-> portHandle]
  /\ portOpen /\ ~overtaken => portHandle # 0

\* A transport that is ready and has a task is heard: the task lives, and goes on, however
\* starts and stops have followed each other (init, stop, rxTaskLoop).
RadioListens == ready /\ rxTask # 0 => running /\ loop[rxTask] \in {"test", "read"}

\* A device that stays plugged in becomes the active one, whatever was active before,
\* unless its announcement was lost to a full queue (on_native_new_dev_cb, handleDeviceConnected).
DeviceNoticed ==
  \A d \in Device : plugged = d ~> plugged # d \/ active = d \/ d \in missed

\* docs/architecture/especificacion_terminal_uart_mochilas_y_control_manual.md:72: no phantom
\* ports; when the device is unplugged, the port is withdrawn from the list (which shows it
\* while there is an active device).
PortWithdrawn == plugged = 0 ~> plugged # 0 \/ active = 0
=============================================================================
