----------------------------- MODULE MeshEngine -----------------------------
(***************************************************************************)
(* The mesh engine of CBDos (core/src/mesh/MeshEngine.cpp): every node     *)
(* runs one.  sendPacket cuts a packet into chunks that share a one-byte   *)
(* message id and hands them one by one to the radio; onRawDataReceived    *)
(* puts them together again per (message id, source MAC) and passes the    *)
(* completed packet to processCompletedPacket, which learns the sender's   *)
(* address, keeps the list of towers, injects the time a tower announces   *)
(* and calls the handler of the service.                                   *)
(*                                                                         *)
(* A node is its MAC address.  The bytes of chunk i of message m are the   *)
(* record [msg |-> m, idx |-> i]: that is all a property tells apart.      *)
(***************************************************************************)
EXTENDS MeshHeader, Sequences, FiniteSets

CONSTANTS
  Node,        \* the nodes on the air, each identified by its MAC address
  Short,       \* the short id of each node: the low two bytes of its MAC
  Unicasts,    \* the nodes whose transport honours the destination MAC
  Body,        \* the kinds of payload sent (a subset of Bodies)
  Services,    \* the services the programs of the run use
  Sizes,       \* the packet lengths tried, in chunks
  Dests,       \* the destination ids tried, Broadcast among them
  Modes,       \* the values of dst_only tried
  IdSpace,     \* the message ids run from 1 to IdSpace (255)
  CountWidth,  \* the chunk count is kept modulo CountWidth (256)
  MaxChunks,   \* more chunks than this are refused (8)
  Timeout,     \* REASSEMBLY_TIMEOUT_MS, in units of the model's clock
  MaxSend,     \* bound: packets each node sends, one fewer after each restart
  Faults,      \* bound: which of "create", "lose", "fail", "stop", "unregister",
               \* "reboot" happen
  MaxFaults,   \* bound: how many of them
  MaxTime      \* bound: the clock

Bodies == {"text", "url4", "pop", "popUnset", "tower", "towerTime"}

ASSUME MeshAssumption ==
  /\ Broadcast \in Nat
  /\ Short \in [Node -> Nat]
  /\ Unicasts \subseteq Node
  /\ Body \subseteq Bodies
  /\ Services \subseteq Service
  /\ Sizes \subseteq Nat \ {0}
  /\ Modes \subseteq BOOLEAN
  /\ IdSpace \in Nat \ {0}
  /\ CountWidth \in Nat \ {0}
  /\ MaxChunks \in Nat \ {0}
  /\ Timeout \in Nat
  /\ MaxSend \in [Node -> Nat] /\ MaxFaults \in Nat /\ MaxTime \in Nat

VARIABLES
  running,   \* m_running
  rxTask,    \* the number of the transport's receive tasks that are alive
  nextId,    \* m_currentMsgId
  tx,        \* the sendPacket call in progress, or NotSending
  reas,      \* m_reassemblies
  handlers,  \* the services in m_serviceHandlers
  arp,       \* m_arpTable: short id -> MAC
  towers,    \* the MACs in m_discoveredTowers
  overrun,   \* a chunk was written past the end of its reassembly
  air,       \* the frames on their way, one copy per listening node
  now,       \* the clock tick() is called with
  sent,      \* history: the messages numbered since the node booted
  inbox,     \* history: the packets passed to a handler
  clock,     \* history: the messages whose time was injected
  accepted,  \* history: the messages for which sendPacket returned true
  late,      \* history: the receive tasks that were alive when the engine last stopped
  ticked,    \* history: the time of the node's last tick
  boots,     \* history: how often the node restarted
  faults     \* the number of faults so far

engine == <<running, rxTask, nextId, tx, reas, handlers, arp, towers, overrun>>
history == <<sent, inbox, clock, accepted, late, ticked, boots>>
vars == <<engine, air, now, history, faults>>
-----------------------------------------------------------------------------
Message == [src : Node, boot : Nat, seq : Nat, id : Nat, svc : Service,
            dstOnly : BOOLEAN, size : Nat, total : Nat \ {0}, body : Bodies]
Index == 0..(MaxChunks - 1)
Chunk == [msg : Message, idx : Index]
Frame == [to : Node, msg : Message, idx : Index]

\* f is a function from some of the elements of S to elements of T.
IsMap(f, S, T) == DOMAIN f \subseteq S /\ f \in [DOMAIN f -> T]

IsReassembly(r) ==
  /\ r = [src |-> r.src, id |-> r.id, total |-> r.total, start |-> r.start,
          born |-> r.born, chunks |-> r.chunks]
  /\ r.src \in Node /\ r.id \in Nat /\ r.total \in 1..MaxChunks
  /\ r.start \in Nat /\ r.born \in Nat
  /\ IsMap(r.chunks, Index, Chunk)

IsPacket(p) ==
  /\ p = [src |-> p.src, svc |-> p.svc, parts |-> p.parts]
  /\ p.src \in Node /\ p.svc \in Service
  /\ IsMap(p.parts, Index, Chunk)

NotSending == [active |-> FALSE]
Sending == [active : {TRUE}, msg : Message, to : SUBSET Node, next : Index]

Put(f, k, v) == [x \in DOMAIN f \cup {k} |-> IF x = k THEN v ELSE f[x]]

\* The payloads processCompletedPacket takes for a tower's announcement: exactly
\* seven bytes (a PoP broadcast, or any other seven bytes, such as the request
\* for a page whose name has four characters), or a probe response tagged 0x02.
Announces(body) == body # "text"

\* Those whose time is injected: read as an epoch, the bytes of a four-letter
\* request lie beyond 1700000000 when the name starts with f..z.
CarriesTime(body) == body \in {"pop", "url4", "towerTime"}

\* What the programs send: announcements travel as RoutingControl, page requests
\* as TlvglRequest, and the seven-byte payloads fit one chunk.
Sendable(svc, body, size) ==
  /\ body \in {"pop", "popUnset", "tower", "towerTime"} => svc = RoutingControl
  /\ body = "url4" => svc = TlvglRequest
  /\ body # "text" => size = 1

Fault(kind) == kind \in Faults /\ faults < MaxFaults /\ faults' = faults + 1
-----------------------------------------------------------------------------
Init ==
  /\ running = [n \in Node |-> FALSE] /\ rxTask = [n \in Node |-> 0]
  /\ nextId = [n \in Node |-> 1]
  /\ tx = [n \in Node |-> NotSending]
  /\ reas = [n \in Node |-> {}]
  /\ handlers = [n \in Node |-> {}]
  /\ arp = [n \in Node |-> <<>>]
  /\ towers = [n \in Node |-> {}]
  /\ overrun = [n \in Node |-> FALSE]
  /\ air = {} /\ now = 0
  /\ sent = [n \in Node |-> <<>>] /\ inbox = [n \in Node |-> {}]
  /\ clock = [n \in Node |-> {}] /\ accepted = [n \in Node |-> {}]
  /\ late = [n \in Node |-> 0] /\ ticked = [n \in Node |-> 0]
  /\ boots = [n \in Node |-> 0] /\ faults = 0

\* init of the transport: the handle of a task that was late in stop is forgotten, so
\* that another task is created beside it; a creation that fails is not noticed.
CreateRxTask(n) ==
  \/ rxTask' = [rxTask EXCEPT ![n] = @ + 1] /\ UNCHANGED faults
  \/ Fault("create") /\ UNCHANGED rxTask

\* init: nothing to do when running; when the transport fails nothing changes.
StartEngine(n) ==
  /\ ~running[n]
  /\ running' = [running EXCEPT ![n] = TRUE]
  /\ CreateRxTask(n)
  /\ UNCHANGED <<nextId, tx, reas, handlers, arp, towers, overrun, air, now, history>>

\* Mutant of StopEngine: the reassemblies are not cleared.
StopKeepsReassemblies(n) ==
  /\ Fault("stop")
  /\ running' = [running EXCEPT ![n] = FALSE] /\ late' = [late EXCEPT ![n] = rxTask[n]]
  /\ UNCHANGED <<reas, rxTask, nextId, tx, handlers, arp, towers, overrun, air, now,
                 sent, inbox, clock, accepted, ticked, boots>>

\* stop: the receive tasks are only told to end, each notices after the read it is in.
\* Those that are still in it when the 50 ms are over are the late ones.
StopEngine(n) ==
  /\ Fault("stop")
  /\ running' = [running EXCEPT ![n] = FALSE] /\ late' = [late EXCEPT ![n] = rxTask[n]]
  /\ reas' = [reas EXCEPT ![n] = {}]
  /\ UNCHANGED <<rxTask, nextId, tx, handlers, arp, towers, overrun, air, now,
                 sent, inbox, clock, accepted, ticked, boots>>

\* A receive task leaves its loop when a read times out on a stopped transport.  One that
\* is still in its read when the transport is started again goes on.
RxTaskExit(n) ==
  /\ rxTask[n] > 0 /\ ~running[n]
  /\ rxTask' = [rxTask EXCEPT ![n] = @ - 1]
  /\ UNCHANGED <<running, nextId, tx, reas, handlers, arp, towers, overrun, air, now, history,
                 faults>>

RegisterServiceHandler(n, svc) ==
  /\ svc \notin handlers[n]
  /\ handlers' = [handlers EXCEPT ![n] = @ \cup {svc}]
  /\ UNCHANGED <<running, rxTask, nextId, tx, reas, arp, towers, overrun, air, now, history,
                 faults>>

UnregisterServiceHandler(n, svc) ==
  /\ Fault("unregister") /\ svc \in handlers[n]
  /\ handlers' = [handlers EXCEPT ![n] = @ \ {svc}]
  /\ UNCHANGED <<running, rxTask, nextId, tx, reas, arp, towers, overrun, air, now, history>>

ClearDiscoveredTowers(n) ==
  /\ towers[n] # {}
  /\ towers' = [towers EXCEPT ![n] = {}]
  /\ UNCHANGED <<running, rxTask, nextId, tx, reas, handlers, arp, overrun, air, now, history,
                 faults>>
-----------------------------------------------------------------------------
\* Mutants of IncId: no wrap at the width of the counter; no increment.
IncIdWide(id) == id + 1
IncIdNever(id) == id

\* m_currentMsgId++ on a uint8_t, skipping 0.
IncId(id) == IF id = IdSpace THEN 1 ELSE id + 1

\* total_chunks: the number of chunks cut down to a byte, 0 replaced by 1.
ChunkCount(size) ==
  IF size % CountWidth = 0 THEN 1 ELSE size % CountWidth

\* The next packet of n.
Compose(n, svc, body, size, dstOnly) ==
  [src |-> n, boot |-> boots[n], seq |-> Len(sent[n]) + 1, id |-> nextId[n],
   svc |-> svc, dstOnly |-> dstOnly, size |-> size, total |-> ChunkCount(size),
   body |-> body]

\* The nodes sendRaw addresses: the one the ARP table names, else everybody.
Targets(n, dst) ==
  IF dst # Broadcast /\ dst \in DOMAIN arp[n] /\ n \in Unicasts
    THEN {arp[n][dst]} ELSE Node \ {n}

\* sendPacket up to its loop; a packet of too many chunks has used up its id.
BeginSend(n, m, dst) ==
  /\ ~tx[n].active /\ Len(sent[n]) + boots[n] < MaxSend[n]
  /\ nextId' = [nextId EXCEPT ![n] = IncId(@)]
  /\ sent' = [sent EXCEPT ![n] = Append(@, m)]
  /\ tx' = IF m.total > MaxChunks THEN tx
           ELSE [tx EXCEPT ![n] = [active |-> TRUE, msg |-> m,
                                   to |-> Targets(n, dst), next |-> 0]]

SendPacket(n) ==
  /\ running[n]
  /\ \E svc \in Services, body \in Body, size \in Sizes, dstOnly \in Modes, dst \in Dests :
       /\ Sendable(svc, body, size)
       /\ BeginSend(n, Compose(n, svc, body, size, dstOnly), dst)
  /\ UNCHANGED <<running, rxTask, reas, handlers, arp, towers, overrun, air, now,
                 inbox, clock, accepted, late, ticked, boots, faults>>

\* sendTowerProbe: starts the engine when it is off.
SendTowerProbe(n) ==
  /\ RoutingControl \in Services
  /\ running' = [running EXCEPT ![n] = TRUE]
  /\ IF running[n] THEN UNCHANGED <<rxTask, faults>> ELSE CreateRxTask(n)
  /\ BeginSend(n, Compose(n, RoutingControl, "text", 1, TRUE), Broadcast)
  /\ UNCHANGED <<reas, handlers, arp, towers, overrun, air, now,
                 inbox, clock, accepted, late, ticked, boots>>

\* One turn of the loop of sendPacket: sendRaw takes the chunk, and every node
\* of which a receive task runs is about to hear it.
SendChunk(n) ==
  /\ tx[n].active /\ running[n]
  /\ LET t == tx[n]
     IN /\ air' = air \cup {[to |-> r, msg |-> t.msg, idx |-> t.next]
                            : r \in {x \in t.to : rxTask[x] > 0}}
        /\ IF t.next + 1 < t.msg.total
             THEN /\ tx' = [tx EXCEPT ![n].next = @ + 1]
                  /\ UNCHANGED accepted
             ELSE /\ tx' = [tx EXCEPT ![n] = NotSending]
                  /\ accepted' = [accepted EXCEPT ![n] = @ \cup {t.msg}]
  /\ UNCHANGED <<running, rxTask, nextId, reas, handlers, arp, towers, overrun, now,
                 sent, inbox, clock, late, ticked, boots, faults>>

\* sendRaw fails: sendPacket gives up, the chunks before it are on the air.
SendFails(n) ==
  /\ tx[n].active
  /\ IF running[n] THEN Fault("fail") ELSE UNCHANGED faults
  /\ tx' = [tx EXCEPT ![n] = NotSending]
  /\ UNCHANGED <<running, rxTask, nextId, reas, handlers, arp, towers, overrun, air, now, history>>
-----------------------------------------------------------------------------
\* updateArp for the source of a completed packet.
LearnArp(n, sid, src) ==
  arp' = IF sid \in ReservedIds THEN arp
         ELSE [arp EXCEPT ![n] = Put(@, sid, src)]

\* processCompletedPacket: the header is read from the first chunk.
ProcessCompletedPacket(n, src, parts) ==
  LET m == parts[0].msg
      control == ControlByte(m.svc, m.dstOnly)
      svc == ServiceOf(control)
      announced == svc = RoutingControl /\ Announces(m.body)
  IN /\ LearnArp(n, SourceId(control, Short[m.src]), src)
     /\ towers' = IF announced THEN [towers EXCEPT ![n] = @ \cup {src}] ELSE towers
     /\ clock' = IF announced /\ CarriesTime(m.body)
                   THEN [clock EXCEPT ![n] = @ \cup {m}] ELSE clock
     /\ inbox' = IF svc \in handlers[n]
                   THEN [inbox EXCEPT ![n] = @ \cup {[src |-> src, svc |-> svc, parts |-> parts]}]
                   ELSE inbox

WellFormed(f) == f.msg.total \in 1..MaxChunks /\ f.idx < f.msg.total

Bytes(f) == [msg |-> f.msg, idx |-> f.idx]

\* Mutants of Matches: the MAC, or the number of chunks, mixed up in the key.
MatchesAnyMac(r, m) == r.id = m.id
MatchesLength(r, m) == r.id = m.id /\ r.src = m.src /\ r.total = m.total

\* The key of a reassembly: message id and source MAC.
Matches(r, m) == r.id = m.id /\ r.src = m.src

\* A new reassembly and its first chunk; start_time_ms is 0.
NewReassembly(f) ==
  [src |-> f.msg.src, id |-> f.msg.id, total |-> f.msg.total, start |-> 0,
   born |-> now, chunks |-> [i \in {f.idx} |-> Bytes(f)]]

\* A chunk already received is kept.
Store(r, f) ==
  IF f.idx \in DOMAIN r.chunks THEN r
  ELSE [r EXCEPT !.chunks = Put(@, f.idx, Bytes(f))]

\* Mutant of Complete: the mask is one bit too long.
CompleteOneMore(r, f) == DOMAIN r.chunks = 0..f.msg.total

\* received_mask == expected_mask, the latter from the chunk just received.
Complete(r, f) == DOMAIN r.chunks = 0..(f.msg.total - 1)

\* r is what becomes of the reassemblies old once the chunk of f is stored.
Absorb(n, f, r, old) ==
  IF Complete(r, f)
    THEN /\ reas' = [reas EXCEPT ![n] = @ \ old]
         /\ ProcessCompletedPacket(n, f.msg.src, r.chunks)
    ELSE /\ reas' = [reas EXCEPT ![n] = (@ \ old) \cup {r}]
         /\ UNCHANGED <<arp, towers, clock, inbox>>

\* A chunk whose index lies outside the reassembly it belongs to is written past
\* its end: the node's memory is no longer its own, and no step of it follows.
Overrun(n) ==
  /\ overrun' = [overrun EXCEPT ![n] = TRUE]
  /\ UNCHANGED <<reas, arp, towers, clock, inbox>>

OnRawDataReceived(n, f) ==
  IF ~WellFormed(f) THEN UNCHANGED <<reas, arp, towers, overrun, clock, inbox>>
  ELSE IF f.msg.total = 1 THEN
    /\ ProcessCompletedPacket(n, f.msg.src, [i \in {0} |-> Bytes(f)])
    /\ UNCHANGED <<reas, overrun>>
  ELSE
    \/ /\ \A r \in reas[n] : ~Matches(r, f.msg)
       /\ Absorb(n, f, NewReassembly(f), {})
       /\ UNCHANGED overrun
    \/ \E r \in reas[n] :
         /\ Matches(r, f.msg)
         /\ IF f.idx < r.total \/ f.idx \in DOMAIN r.chunks
              THEN Absorb(n, f, Store(r, f), {r}) /\ UNCHANGED overrun
              ELSE Overrun(n)

\* A receive task hands a frame to the engine, which does not ask whether it was stopped
\* meanwhile; then the task looks at its loop condition.
Receive(n, f) ==
  /\ rxTask[n] > 0 /\ f \in air /\ f.to = n
  /\ OnRawDataReceived(n, f)
  /\ air' = air \ {f}
  /\ rxTask' = IF running[n] THEN rxTask ELSE [rxTask EXCEPT ![n] = @ - 1]
  /\ UNCHANGED <<running, nextId, tx, handlers, now, sent, accepted, late, ticked, boots,
                 faults>>

LoseFrame(f) ==
  /\ Fault("lose") /\ f \in air
  /\ air' = air \ {f}
  /\ UNCHANGED <<engine, now, history>>

\* tick: drops what has a start time and has outlived the timeout.
Expired(r) == r.start > 0 /\ now - r.start > Timeout

Tick(n) ==
  /\ reas' = [reas EXCEPT ![n] = {r \in @ : ~Expired(r)}]
  /\ ticked' = [ticked EXCEPT ![n] = now]
  /\ UNCHANGED <<running, rxTask, nextId, tx, handlers, arp, towers, overrun, air, now,
                 sent, inbox, clock, accepted, late, boots, faults>>

Advance ==
  /\ now < MaxTime /\ now' = now + 1
  /\ UNCHANGED <<engine, air, history, faults>>

\* A reset: everything of the engine is in RAM; frames on the air stay there,
\* except those the node was about to read.
Reboot(n) ==
  /\ Fault("reboot")
  /\ running' = [running EXCEPT ![n] = FALSE] /\ rxTask' = [rxTask EXCEPT ![n] = 0]
  /\ nextId' = [nextId EXCEPT ![n] = 1]
  /\ tx' = [tx EXCEPT ![n] = NotSending]
  /\ reas' = [reas EXCEPT ![n] = {}]
  /\ handlers' = [handlers EXCEPT ![n] = {}]
  /\ arp' = [arp EXCEPT ![n] = <<>>]
  /\ towers' = [towers EXCEPT ![n] = {}]
  /\ overrun' = [overrun EXCEPT ![n] = FALSE]
  /\ sent' = [sent EXCEPT ![n] = <<>>] /\ inbox' = [inbox EXCEPT ![n] = {}]
  /\ clock' = [clock EXCEPT ![n] = {}] /\ accepted' = [accepted EXCEPT ![n] = {}]
  /\ boots' = [boots EXCEPT ![n] = @ + 1]
  /\ air' = {f \in air : f.to # n}
  /\ late' = [late EXCEPT ![n] = 0] /\ ticked' = [ticked EXCEPT ![n] = 0]
  /\ UNCHANGED now
-----------------------------------------------------------------------------
\* The user's side of node n, its receive tasks, and everything else.
Operate(n) ==
  \/ StartEngine(n) \/ StopEngine(n) \/ ClearDiscoveredTowers(n)
  \/ \E svc \in Services : RegisterServiceHandler(n, svc) \/ UnregisterServiceHandler(n, svc)
  \/ SendPacket(n) \/ SendTowerProbe(n) \/ SendChunk(n) \/ SendFails(n) \/ Tick(n)

ReceiveTask(n) == RxTaskExit(n) \/ \E f \in air : Receive(n, f)

Next ==
  \/ \E n \in Node : ~overrun[n] /\ (Operate(n) \/ ReceiveTask(n))
  \/ \E n \in Node : Reboot(n)
  \/ \E f \in air : LoseFrame(f)
  \/ Advance

Spec == Init /\ [][Next]_vars

\* The programs keep calling what is due: an engine sends the chunks of a packet
\* it has begun and a receive task handles the frames that arrive.
FairSpec ==
  /\ Spec
  /\ \A n \in Node : WF_vars(SendChunk(n)) /\ WF_vars(\E f \in air : Receive(n, f))
-----------------------------------------------------------------------------
(* Properties *)

\* Every variable has the type of the member it stands for.
TypeOK ==
  /\ running \in [Node -> BOOLEAN] /\ rxTask \in [Node -> Nat] /\ late \in [Node -> Nat]
  /\ nextId \in [Node -> 1..IdSpace]
  /\ tx \in [Node -> {NotSending} \cup Sending]
  /\ \A n \in Node : tx[n].active => tx[n].next < tx[n].msg.total /\ tx[n].msg.total <= MaxChunks
  /\ reas = [n \in Node |-> reas[n]]
  /\ \A n \in Node : \A r \in reas[n] : IsReassembly(r)
  /\ handlers \in [Node -> SUBSET Service]
  /\ arp = [n \in Node |-> arp[n]]
  /\ \A n \in Node : IsMap(arp[n], Nat \ ReservedIds, Node)
  /\ towers \in [Node -> SUBSET Node]
  /\ overrun \in [Node -> BOOLEAN]
  /\ air \subseteq Frame
  /\ now \in Nat
  /\ sent \in [Node -> Seq(Message)]
  /\ inbox = [n \in Node |-> inbox[n]]
  /\ \A n \in Node : \A p \in inbox[n] : IsPacket(p)
  /\ clock \in [Node -> SUBSET Message] /\ accepted \in [Node -> SUBSET Message]
  /\ ticked \in [Node -> Nat]
  /\ boots \in [Node -> Nat] /\ faults \in Nat

\* n has given out some message id twice: the counter wrapped or started again.
Reused(n) == boots[n] > 0 \/ Len(sent[n]) > IdSpace

\* p consists of all the chunks of m, each at its place.
IsWhole(p, m) == p.parts = [i \in 0..(m.total - 1) |-> [msg |-> m, idx |-> i]]

\* A packet a handler is given is exactly one packet its source sent, with no
\* chunk missing, misplaced or taken from another packet, as long as the source
\* has not used a message id twice (reassembly in onRawDataReceived).
WholePackets ==
  \A n \in Node : \A p \in inbox[n] :
    Reused(p.src) \/ \E q \in DOMAIN sent[p.src] : IsWhole(p, sent[p.src][q])

\* No chunk is written outside its reassembly, which is sized by the first chunk
\* and not by the one being stored, unless some node has used an id twice.
NoOverrun == \A n \in Node : overrun[n] => \E s \in Node : Reused(s)

\* No reassembly that has all its chunks waits in the list: the chunk that
\* completes it hands it over and erases it, unless its source has used an id
\* twice, so that chunks of packets of different lengths share a reassembly.
NothingCompleteWaits ==
  \A n \in Node : \A r \in reas[n] :
    DOMAIN r.chunks = 0..(r.total - 1) => Reused(r.src)

\* The search through m_reassemblies stops at the first match; there is never a
\* second one it could have missed, whatever lengths an id was used with.
OneReassemblyPerKey ==
  \A n \in Node : \A r1, r2 \in reas[n] :
    r1.id = r2.id /\ r1.src = r2.src => r1 = r2

\* The pseudo-ARP table only maps a short id to a node that owns it, even when
\* packets are mixed up after a reuse of ids: the key of a reassembly has the MAC.
ArpFaithful ==
  \A n \in Node : \A s \in DOMAIN arp[n] : Short[arp[n][s]] = s

\* Of the frames that race a stop only those survive that were in the hands of the tasks
\* late in it, one for each, however often the engine was stopped and started before
\* (MeshEngine::stop, stop and rxTaskLoop of the transport).
StopLeavesOnlyLate ==
  \A n \in Node : ~running[n] => Cardinality(reas[n]) + rxTask[n] <= late[n]

\* As long as nothing is lost and no engine fails or stops, a packet a node begins
\* to send to a listening node with a handler for it arrives there, in whatever
\* order its chunks do (sendPacket to handler).
EventuallyDelivered ==
  \A s \in Node : \A n \in Node \ {s} : \A q \in 1..MaxSend[s] :
    (/\ tx[s].active /\ tx[s].next = 0 /\ tx[s].msg.seq = q
     /\ n \in tx[s].to /\ running[n] /\ rxTask[n] > 0
     /\ ServiceOf(ControlByte(tx[s].msg.svc, tx[s].msg.dstOnly)) \in handlers[n])
    ~> (faults > 0 \/ \E p \in inbox[n] : p.src = s /\ p.parts[0].msg.seq = q)

\* The messages, packets and restarts of the promise are the engine's own; ids, chunks,
\* reassemblies, lists and the air have no counterpart in it.
Datagram == INSTANCE MeshDatagram WITH
  Node <- Node, Service <- Service, Message <- Message, IdSpace <- IdSpace,
  sent <- sent, inbox <- inbox, boots <- boots

\* The engine implements the datagrams of MeshDatagram: what programs see of it is
\* messages sent, whole packets given to handlers, and restarts, whatever happens
\* on the air and in the lists between (sendPacket to processCompletedPacket).
DatagramPromise == Datagram!Spec
-----------------------------------------------------------------------------
(* Why they hold: the inductive invariant *)

\* m is what its source numbered with m's id, if the source gave no id out twice.
Genuine(m) ==
  Reused(m.src) \/ (m.id \in DOMAIN sent[m.src] /\ m = sent[m.src][m.id])

\* As long as no id is used twice the counter is the number of packets plus one
\* (until it wraps) and the q-th packet has the id q.
CounterInv ==
  \A n \in Node : ~Reused(n) =>
    /\ Len(sent[n]) < IdSpace => nextId[n] = Len(sent[n]) + 1
    /\ \A q \in DOMAIN sent[n] : sent[n][q].id = q /\ sent[n][q].src = n

\* Whatever is being sent or on the air is genuine.
AirInv ==
  /\ \A n \in Node : tx[n].active => Genuine(tx[n].msg)
  /\ \A f \in air : Genuine(f.msg)

\* The chunks of a reassembly have its key and stand at their own index.
ChunkInv(r) ==
  \A i \in DOMAIN r.chunks :
    /\ r.chunks[i].idx = i /\ r.chunks[i].msg.src = r.src /\ r.chunks[i].msg.id = r.id
    /\ Genuine(r.chunks[i].msg)

\* A reassembly has the size of the packet its key names, and no chunk beyond it.
SizeInv(r) ==
  ~Reused(r.src) =>
    /\ r.id \in DOMAIN sent[r.src] /\ r.total = sent[r.src][r.id].total
    /\ DOMAIN r.chunks \subseteq 0..(r.total - 1)

ReassemblyInv == \A n \in Node : \A r \in reas[n] : ChunkInv(r) /\ SizeInv(r)

\* Reassembly is correct because a key names one packet: the parts above, and the
\* properties of reassembly (sendPacket and onRawDataReceived together).
ReassemblyCorrect ==
  /\ CounterInv /\ AirInv /\ ReassemblyInv
  /\ WholePackets /\ NoOverrun /\ NothingCompleteWaits /\ OneReassemblyPerKey
  /\ ArpFaithful
-----------------------------------------------------------------------------
(* What the documentation says and the code does not do *)

\* docs/network/pruebas_fragmentacion_microchunking_mesh.md:32: the message id
\* joins the fragments to the correct message at the receiver.
FragmentsOfOneMessage ==
  \A n \in Node : \A p \in inbox[n] :
    \A i, j \in DOMAIN p.parts : p.parts[i].msg = p.parts[j].msg

\* mesh_engine.hpp:109 and MeshEngine.cpp:10: tick clears away the fragments
\* whose message was not complete after REASSEMBLY_TIMEOUT_MS.
OrphansExpire ==
  \A n \in Node : \A r \in reas[n] : ticked[n] <= r.born + Timeout

\* MeshEngine.cpp:157: packets beyond the limit of MaxChunks chunks are refused.
SizeLimited == \A n \in Node : \A m \in accepted[n] : m.size <= MaxChunks

\* MeshEngine.cpp:415: a packet goes to the handler of the service it was sent to.
ServiceRouted ==
  \A n \in Node : \A p \in inbox[n] : p.svc = p.parts[0].msg.svc

\* mesh_types.hpp:108: the time comes from the seven-byte broadcast of a tower.
TimeFromTowers ==
  \A n \in Node : \A m \in clock[n] : m.svc = RoutingControl
=============================================================================
