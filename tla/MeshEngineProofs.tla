-------------------------- MODULE MeshEngineProofs --------------------------
(***************************************************************************)
(* What holds of the mesh engine for every number of nodes, every length   *)
(* of packets, every id space and every bound: the types, and that         *)
(* reassembly is correct as long as the sender has not used an id twice.   *)
(***************************************************************************)
EXTENDS MeshEngine, SequenceTheorems, FiniteSetTheorems, TLAPS

-----------------------------------------------------------------------------
(* Lemmas on the operators of sendPacket and of the header *)

\* The number of chunks is a positive number, whatever the length.
LEMMA ChunkCountType ==
  ASSUME NEW size \in Nat
  PROVE  ChunkCount(size) \in Nat \ {0}
<1>1. CountWidth \in Nat /\ CountWidth > 0
  BY MeshAssumption DEF MeshAssumption
<1>2. size % CountWidth \in 0..(CountWidth - 1)
  BY <1>1
<1> QED
  BY <1>2 DEF ChunkCount

\* What sendPacket puts together is a message of n with the id the counter shows.
LEMMA ComposeType ==
  ASSUME TypeOK, NEW n \in Node, NEW svc \in Service, NEW body \in Bodies,
         NEW size \in Nat, NEW dstOnly \in BOOLEAN
  PROVE  /\ Compose(n, svc, body, size, dstOnly) \in Message
         /\ Compose(n, svc, body, size, dstOnly).src = n
         /\ Compose(n, svc, body, size, dstOnly).id = nextId[n]
<1>1. boots[n] \in Nat /\ Len(sent[n]) + 1 \in Nat /\ nextId[n] \in Nat
  BY MeshAssumption, SMTT(30) DEF TypeOK, MeshAssumption
<1> QED
  BY <1>1, ChunkCountType DEF Compose, Message

\* The service read from a control byte is a service.
LEMMA ServiceOfType ==
  ASSUME NEW svc \in Service, NEW dstOnly \in BOOLEAN
  PROVE  ServiceOf(ControlByte(svc, dstOnly)) \in Service
  BY DEF Service, ServiceOf, ControlByte, SetDstOnly, CTRL_DST_ONLY, CTRL_SHORT_ID

\* A short id that is learnt is the one its owner carries.
LEMMA SourceIdCases ==
  ASSUME NEW control, NEW shortId \in Nat,
         SourceId(control, shortId) \notin ReservedIds
  PROVE  SourceId(control, shortId) = shortId /\ shortId \in Nat \ ReservedIds
  BY DEF SourceId, ReservedIds

\* Put adds one entry.
LEMMA PutMap ==
  ASSUME NEW S, NEW T, NEW f, IsMap(f, S, T), NEW k \in S, NEW v \in T
  PROVE  /\ IsMap(Put(f, k, v), S, T)
         /\ DOMAIN Put(f, k, v) = DOMAIN f \cup {k}
         /\ Put(f, k, v)[k] = v
         /\ \A x \in DOMAIN f : x # k => Put(f, k, v)[x] = f[x]
  BY DEF IsMap, Put

-----------------------------------------------------------------------------
(* Lemmas on the steps of reassembly *)

\* The bytes of a frame with a sensible header are a chunk.
LEMMA BytesType ==
  ASSUME NEW f \in Frame, WellFormed(f)
  PROVE  /\ Bytes(f) \in Chunk /\ f.idx \in Index
         /\ f.msg \in Message /\ f.msg.src \in Node
         /\ f.msg.total \in 1..MaxChunks
  BY DEF WellFormed, Bytes, Frame, Chunk, Message

\* A new reassembly is one.
LEMMA NewReassemblyType ==
  ASSUME now \in Nat, NEW f \in Frame, WellFormed(f)
  PROVE  IsReassembly(NewReassembly(f))
<1>1. IsMap([i \in {f.idx} |-> Bytes(f)], Index, Chunk)
  BY BytesType DEF IsMap
<1>2. f.msg.id \in Nat
  BY DEF Frame, Message
<1> QED
  BY <1>1, <1>2, BytesType DEF IsReassembly, NewReassembly

\* Storing a chunk in a reassembly leaves one, of the same key and size.
LEMMA StoreType ==
  ASSUME NEW f \in Frame, WellFormed(f), NEW r, IsReassembly(r)
  PROVE  /\ IsReassembly(Store(r, f))
         /\ Store(r, f).src = r.src /\ Store(r, f).id = r.id /\ Store(r, f).total = r.total
         /\ DOMAIN Store(r, f).chunks = DOMAIN r.chunks \cup {f.idx}
<1>1. CASE f.idx \in DOMAIN r.chunks
  BY <1>1 DEF Store
<1>2. CASE f.idx \notin DOMAIN r.chunks
  <2> DEFINE c == Put(r.chunks, f.idx, Bytes(f))
  <2>1. IsMap(r.chunks, Index, Chunk) /\ f.idx \in Index /\ Bytes(f) \in Chunk
    BY BytesType DEF IsReassembly
  <2>2. IsMap(c, Index, Chunk) /\ DOMAIN c = DOMAIN r.chunks \cup {f.idx}
    BY <2>1, PutMap
  <2>3. Store(r, f) = [src |-> r.src, id |-> r.id, total |-> r.total,
                       start |-> r.start, born |-> r.born, chunks |-> c]
    BY <1>2 DEF Store, IsReassembly
  <2> QED
    BY <2>2, <2>3 DEF IsReassembly
<1> QED
  BY <1>1, <1>2

\* What a completed packet changes keeps its type.
LEMMA ProcessType ==
  ASSUME TypeOK, NEW n \in Node, NEW src \in Node, NEW parts,
         IsMap(parts, Index, Chunk), 0 \in DOMAIN parts,
         ProcessCompletedPacket(n, src, parts)
  PROVE  /\ arp' = [k \in Node |-> arp'[k]]
         /\ \A k \in Node : IsMap(arp'[k], Nat \ ReservedIds, Node)
         /\ towers' \in [Node -> SUBSET Node]
         /\ clock' \in [Node -> SUBSET Message]
         /\ inbox' = [k \in Node |-> inbox'[k]]
         /\ \A k \in Node : \A p \in inbox'[k] : IsPacket(p)
<1> DEFINE m == parts[0].msg
           control == ControlByte(m.svc, m.dstOnly)
           sid == SourceId(control, Short[m.src])
           svc == ServiceOf(control)
<1>1. m \in Message
  BY DEF IsMap, Chunk
<1>2. svc \in Service /\ m.src \in Node /\ Short[m.src] \in Nat
  BY <1>1, ServiceOfType, MeshAssumption DEF Message, MeshAssumption
<1>3. LearnArp(n, sid, src)
  BY DEF ProcessCompletedPacket
<1> HIDE DEF control
<1>4. arp' = [k \in Node |-> arp'[k]] /\ \A k \in Node : IsMap(arp'[k], Nat \ ReservedIds, Node)
  <2>1. CASE sid \in ReservedIds
    BY <1>3, <2>1 DEF LearnArp, TypeOK
  <2>2. CASE sid \notin ReservedIds
    <3>1. sid \in Nat \ ReservedIds
      BY <1>2, <2>2, SourceIdCases
    <3>2. arp' = [arp EXCEPT ![n] = Put(@, sid, src)]
      BY <1>3, <2>2 DEF LearnArp
    <3>3. IsMap(arp[n], Nat \ ReservedIds, Node)
      BY DEF TypeOK
    <3>4. IsMap(Put(arp[n], sid, src), Nat \ ReservedIds, Node)
      BY <3>1, <3>3, PutMap
    <3> QED
      BY <3>2, <3>4 DEF TypeOK
  <2> QED
    BY <2>1, <2>2
<1>5. towers' \in [Node -> SUBSET Node]
  BY DEF ProcessCompletedPacket, TypeOK
<1>6. clock' \in [Node -> SUBSET Message]
  BY <1>1 DEF ProcessCompletedPacket, TypeOK
<1>7. inbox' = [k \in Node |-> inbox'[k]] /\ \A k \in Node : \A p \in inbox'[k] : IsPacket(p)
  <2> DEFINE p == [src |-> src, svc |-> svc, parts |-> parts]
  <2>1. inbox' = [inbox EXCEPT ![n] = @ \cup {p}] \/ inbox' = inbox
    BY DEF ProcessCompletedPacket, control
  <2>2. IsPacket(p)
    BY <1>2 DEF IsPacket
  <2>3. inbox = [k \in Node |-> inbox[k]] /\ \A k \in Node : \A q \in inbox[k] : IsPacket(q)
    BY DEF TypeOK
  <2> HIDE DEF p
  <2>4. CASE inbox' = inbox
    BY <2>3, <2>4
  <2>5. CASE inbox' = [inbox EXCEPT ![n] = @ \cup {p}]
    BY <2>2, <2>3, <2>5
  <2> QED
    BY <2>1, <2>4, <2>5
<1> QED
  BY <1>4, <1>5, <1>6, <1>7

\* So does everything a received frame changes.
LEMMA ReceiveType ==
  ASSUME TypeOK, NEW n \in Node, NEW f \in Frame, OnRawDataReceived(n, f)
  PROVE  /\ arp' = [k \in Node |-> arp'[k]]
         /\ \A k \in Node : IsMap(arp'[k], Nat \ ReservedIds, Node)
         /\ towers' \in [Node -> SUBSET Node]
         /\ clock' \in [Node -> SUBSET Message]
         /\ inbox' = [k \in Node |-> inbox'[k]]
         /\ \A k \in Node : \A p \in inbox'[k] : IsPacket(p)
         /\ reas' = [k \in Node |-> reas'[k]]
         /\ \A k \in Node : \A r \in reas'[k] : IsReassembly(r)
         /\ overrun' \in [Node -> BOOLEAN]
<1>1. reas = [k \in Node |-> reas[k]] /\ \A k \in Node : \A r \in reas[k] : IsReassembly(r)
  BY DEF TypeOK
<1>2. CASE UNCHANGED <<reas, arp, towers, clock, inbox>> /\ overrun' \in [Node -> BOOLEAN]
  BY <1>2 DEF TypeOK
<1>3. CASE /\ WellFormed(f) /\ f.msg.total = 1
           /\ ProcessCompletedPacket(n, f.msg.src, [i \in {0} |-> Bytes(f)])
           /\ UNCHANGED <<reas, overrun>>
  <2>1. IsMap([i \in {0} |-> Bytes(f)], Index, Chunk) /\ f.msg.src \in Node
    BY <1>3, BytesType, MeshAssumption DEF IsMap, Index, MeshAssumption
  <2>2. 0 \in DOMAIN [i \in {0} |-> Bytes(f)]
    OBVIOUS
  <2> QED
    BY <1>1, <1>3, <2>1, <2>2, ProcessType DEF TypeOK
<1>4. ASSUME WellFormed(f), NEW r, NEW old, IsReassembly(r), Absorb(n, f, r, old)
      PROVE  /\ arp' = [k \in Node |-> arp'[k]]
             /\ \A k \in Node : IsMap(arp'[k], Nat \ ReservedIds, Node)
             /\ towers' \in [Node -> SUBSET Node]
             /\ clock' \in [Node -> SUBSET Message]
             /\ inbox' = [k \in Node |-> inbox'[k]]
             /\ \A k \in Node : \A p \in inbox'[k] : IsPacket(p)
             /\ reas' = [k \in Node |-> reas'[k]]
             /\ \A k \in Node : \A x \in reas'[k] : IsReassembly(x)
  <2>1. CASE Complete(r, f)
    <3>1. /\ reas' = [reas EXCEPT ![n] = @ \ old]
          /\ ProcessCompletedPacket(n, f.msg.src, r.chunks)
      BY <1>4, <2>1 DEF Absorb
    <3>2. IsMap(r.chunks, Index, Chunk) /\ f.msg.src \in Node /\ f.msg.total \in 1..MaxChunks
      BY <1>4, BytesType DEF IsReassembly
    <3>3. 0 \in DOMAIN r.chunks
      BY <2>1, <3>2, MeshAssumption DEF Complete, MeshAssumption
    <3> QED
      BY <1>1, <3>1, <3>2, <3>3, ProcessType
  <2>2. CASE ~Complete(r, f)
    <3>1. /\ reas' = [reas EXCEPT ![n] = (@ \ old) \cup {r}]
          /\ UNCHANGED <<arp, towers, clock, inbox>>
      BY <1>4, <2>2 DEF Absorb
    <3>2. /\ reas' = [k \in Node |-> reas'[k]]
          /\ \A k \in Node : \A x \in reas'[k] : IsReassembly(x)
      BY <1>1, <1>4, <3>1
    <3> QED
      BY <3>1, <3>2 DEF TypeOK
  <2> QED
    BY <2>1, <2>2
<1>5. CASE /\ WellFormed(f)
           /\ Absorb(n, f, NewReassembly(f), {}) /\ UNCHANGED overrun
  BY <1>4, <1>5, NewReassemblyType DEF TypeOK
<1>6. CASE /\ WellFormed(f)
           /\ \E r \in reas[n] : Absorb(n, f, Store(r, f), {r}) /\ UNCHANGED overrun
  <2>1. PICK r \in reas[n] : Absorb(n, f, Store(r, f), {r}) /\ UNCHANGED overrun
    BY <1>6
  <2>2. IsReassembly(Store(r, f))
    BY <1>1, <1>6, StoreType
  <2>3. overrun' \in [Node -> BOOLEAN]
    BY <2>1 DEF TypeOK
  <2> QED
    BY <1>4, <1>6, <2>1, <2>2, <2>3
<1> QED
  <2>1. Overrun(n) => UNCHANGED <<reas, arp, towers, clock, inbox>> /\ overrun' \in [Node -> BOOLEAN]
    BY DEF Overrun, TypeOK
  <2>2. UNCHANGED overrun => overrun' \in [Node -> BOOLEAN]
    BY DEF TypeOK
  <2> QED
    BY <1>2, <1>3, <1>5, <1>6, <2>1, <2>2 DEF OnRawDataReceived

-----------------------------------------------------------------------------
(* The types *)

\* The start of every engine is well typed.
LEMMA InitType == Init => TypeOK
<1> SUFFICES ASSUME Init PROVE TypeOK
  OBVIOUS
<1> USE MeshAssumption DEF MeshAssumption, Init
<1>1. nextId \in [Node -> 1..IdSpace]
  OBVIOUS
<1>2. tx \in [Node -> {NotSending} \cup Sending] /\ \A n \in Node : ~tx[n].active
  BY DEF NotSending
<1>3. \A n \in Node : IsMap(arp[n], Nat \ ReservedIds, Node)
  BY DEF IsMap
<1>4. sent \in [Node -> Seq(Message)]
  OBVIOUS
<1> QED
  BY <1>1, <1>2, <1>3, <1>4 DEF TypeOK

\* What beginning to send a message changes keeps its type.
LEMMA BeginSendType ==
  ASSUME TypeOK, NEW n \in Node, NEW m \in Message, NEW dst, BeginSend(n, m, dst)
  PROVE  /\ nextId' \in [Node -> 1..IdSpace]
         /\ sent' \in [Node -> Seq(Message)]
         /\ tx' \in [Node -> {NotSending} \cup Sending]
         /\ \A k \in Node : tx'[k].active =>
              tx'[k].next < tx'[k].msg.total /\ tx'[k].msg.total <= MaxChunks
<1>1. nextId' \in [Node -> 1..IdSpace]
  <2>1. nextId[n] \in 1..IdSpace /\ IdSpace \in Nat \ {0}
    BY MeshAssumption DEF TypeOK, MeshAssumption
  <2>2. IncId(nextId[n]) \in 1..IdSpace
    BY <2>1 DEF IncId
  <2> QED
    BY <2>2 DEF BeginSend, TypeOK
<1>2. sent' \in [Node -> Seq(Message)]
  BY DEF BeginSend, TypeOK
<1>3. CASE tx' = tx
  BY <1>1, <1>2, <1>3 DEF TypeOK
<1>4. CASE ~(m.total > MaxChunks)
  <2> DEFINE t == [active |-> TRUE, msg |-> m, to |-> Targets(n, dst), next |-> 0]
  <2>1. tx' = [tx EXCEPT ![n] = t]
    BY <1>4 DEF BeginSend
  <2>2. Targets(n, dst) \subseteq Node
    <3>1. IsMap(arp[n], Nat \ ReservedIds, Node)
      BY DEF TypeOK
    <3> QED
      BY <3>1 DEF Targets, IsMap
  <2>3. m.total \in Nat \ {0} /\ MaxChunks \in Nat \ {0}
    BY MeshAssumption DEF Message, MeshAssumption
  <2>4. t \in Sending /\ t.next < t.msg.total /\ t.msg.total <= MaxChunks
    BY <1>4, <2>2, <2>3 DEF Sending, Index
  <2> HIDE DEF t
  <2>5. /\ tx \in [Node -> {NotSending} \cup Sending]
        /\ \A k \in Node : tx[k].active =>
              tx[k].next < tx[k].msg.total /\ tx[k].msg.total <= MaxChunks
    BY DEF TypeOK
  <2>6. \A k \in Node : tx'[k] = IF k = n THEN t ELSE tx[k]
    BY <2>1, <2>5
  <2>7. tx' \in [Node -> {NotSending} \cup Sending]
    BY <2>1, <2>4, <2>5
  <2> QED
    BY <1>1, <1>2, <2>4, <2>5, <2>6, <2>7
<1> QED
  BY <1>3, <1>4 DEF BeginSend

\* A call of sendPacket in progress has a message and an index within it.
LEMMA SendingType ==
  ASSUME TypeOK, NEW n \in Node, tx[n].active
  PROVE  /\ tx[n] \in Sending /\ tx[n].msg \in Message /\ tx[n].to \subseteq Node
         /\ tx[n].next \in Index /\ tx[n].next \in Nat /\ tx[n].msg.total \in Nat
         /\ tx[n].next < tx[n].msg.total /\ tx[n].msg.total <= MaxChunks /\ MaxChunks \in Nat
<1>1. /\ tx[n] \in {NotSending} \cup Sending
      /\ tx[n].next < tx[n].msg.total /\ tx[n].msg.total <= MaxChunks
  BY DEF TypeOK
<1>2. tx[n] \in Sending
  BY <1>1 DEF NotSending
<1>3. tx[n].msg \in Message /\ tx[n].to \subseteq Node /\ tx[n].next \in Index
  BY <1>2 DEF Sending
<1>4. MaxChunks \in Nat
  BY MeshAssumption DEF MeshAssumption
<1>5. tx[n].next \in Nat /\ tx[n].msg.total \in Nat
  BY <1>3, <1>4 DEF Index, Message
<1> QED
  BY <1>1, <1>2, <1>3, <1>4, <1>5

\* The loop of sendPacket goes on with the next index.
LEMMA TurnType ==
  ASSUME NEW t \in Sending, t.next + 1 \in Index
  PROVE  /\ [t EXCEPT !.next = @ + 1] \in Sending
         /\ [t EXCEPT !.next = @ + 1].msg = t.msg
         /\ [t EXCEPT !.next = @ + 1].next = t.next + 1
  BY DEF Sending

\* The step that hands a chunk to the radio keeps the types.
LEMMA SendChunkType ==
  ASSUME TypeOK, NEW n \in Node, SendChunk(n)
  PROVE  TypeOK'
<1> DEFINE t == tx[n]
<1>1. /\ tx \in [Node -> {NotSending} \cup Sending]
      /\ \A k \in Node : tx[k].active =>
            tx[k].next < tx[k].msg.total /\ tx[k].msg.total <= MaxChunks
  BY DEF TypeOK
<1>2. t.active
  BY DEF SendChunk
<1>3. /\ t \in Sending /\ t.msg \in Message /\ t.to \subseteq Node /\ t.next \in Index /\ t.next \in Nat
      /\ t.msg.total \in Nat /\ t.next < t.msg.total /\ t.msg.total <= MaxChunks /\ MaxChunks \in Nat
  BY <1>2, SendingType
<1>4. air' \subseteq Frame
  BY <1>3, SMTT(30) DEF SendChunk, TypeOK, Frame
<1>5. /\ tx' \in [Node -> {NotSending} \cup Sending]
      /\ \A k \in Node : tx'[k].active =>
            tx'[k].next < tx'[k].msg.total /\ tx'[k].msg.total <= MaxChunks
  <2>1. CASE t.next + 1 < t.msg.total
    <3> DEFINE u == [t EXCEPT !.next = @ + 1]
    <3>1. tx' = [tx EXCEPT ![n].next = @ + 1]
      BY <2>1 DEF SendChunk
    <3>2. t.next + 1 \in Index /\ t.next + 1 < t.msg.total
      BY <1>3, <2>1 DEF Index
    <3>3. tx' = [tx EXCEPT ![n] = u]
      BY <1>1, <3>1
    <3>4. u \in Sending /\ u.next < u.msg.total /\ u.msg.total <= MaxChunks
      BY <1>3, <3>2, TurnType
    <3> HIDE DEF u
    <3>5. \A k \in Node : tx'[k] = IF k = n THEN u ELSE tx[k]
      BY <1>1, <3>3
    <3>6. tx' \in [Node -> {NotSending} \cup Sending]
      BY <1>1, <3>3, <3>4
    <3> QED
      BY <1>1, <3>4, <3>5, <3>6
  <2>2. CASE ~(t.next + 1 < t.msg.total)
    <3>1. tx' = [tx EXCEPT ![n] = NotSending]
      BY <2>2 DEF SendChunk
    <3>2. ~NotSending.active
      BY DEF NotSending
    <3> QED
      BY <1>1, <3>1, <3>2
  <2> QED
    BY <2>1, <2>2
<1>6. accepted' \in [Node -> SUBSET Message]
  <2>1. accepted' = accepted \/ accepted' = [accepted EXCEPT ![n] = @ \cup {t.msg}]
    BY DEF SendChunk
  <2>2. accepted \in [Node -> SUBSET Message] /\ t.msg \in Message
    BY <1>3 DEF TypeOK
  <2> HIDE DEF t
  <2> QED
    BY <2>1, <2>2
<1> QED
  BY <1>4, <1>5, <1>6 DEF SendChunk, TypeOK

\* A fault is counted.
LEMMA FaultType ==
  ASSUME faults \in Nat, NEW kind, Fault(kind)
  PROVE  faults' \in Nat
  BY DEF Fault

\* A receive task more, or a fault more.
LEMMA CreateType ==
  ASSUME TypeOK, NEW n \in Node, CreateRxTask(n)
  PROVE  rxTask' \in [Node -> Nat] /\ faults' \in Nat
<1>1. rxTask \in [Node -> Nat] /\ faults \in Nat
  BY DEF TypeOK
<1>2. CASE rxTask' = [rxTask EXCEPT ![n] = @ + 1] /\ UNCHANGED faults
  BY <1>1, <1>2
<1>3. CASE Fault("create") /\ UNCHANGED rxTask
  BY <1>1, <1>3 DEF Fault
<1> QED BY <1>2, <1>3 DEF CreateRxTask

\* Every step of the user's side of a node keeps the types.
LEMMA OperateType ==
  ASSUME TypeOK, NEW n \in Node, Operate(n)
  PROVE  TypeOK'
<1>1. CASE StartEngine(n)
  BY <1>1, CreateType DEF StartEngine, TypeOK, history
<1>2. CASE StopEngine(n)
  BY <1>2, FaultType DEF StopEngine, TypeOK
<1>3. CASE ClearDiscoveredTowers(n)
  BY <1>3 DEF ClearDiscoveredTowers, TypeOK, history
<1>4. ASSUME NEW svc \in Services, RegisterServiceHandler(n, svc) PROVE TypeOK'
  BY <1>4, MeshAssumption, ZenonT(40) DEF RegisterServiceHandler, TypeOK, history, MeshAssumption
<1>5. ASSUME NEW svc \in Services, UnregisterServiceHandler(n, svc) PROVE TypeOK'
  BY <1>5, FaultType DEF UnregisterServiceHandler, TypeOK, history
<1>6. CASE SendPacket(n)
  <2>1. PICK svc \in Services, body \in Body, size \in Sizes, dstOnly \in Modes, dst \in Dests :
          BeginSend(n, Compose(n, svc, body, size, dstOnly), dst)
    BY <1>6 DEF SendPacket
  <2>2. svc \in Service /\ body \in Bodies /\ size \in Nat /\ dstOnly \in BOOLEAN
    BY MeshAssumption DEF MeshAssumption
  <2>3. Compose(n, svc, body, size, dstOnly) \in Message
    BY <2>2, ComposeType
  <2> QED
    BY <1>6, <2>1, <2>3, BeginSendType DEF SendPacket, TypeOK
<1>7. CASE SendTowerProbe(n)
  <2>1. RoutingControl \in Service /\ "text" \in Bodies /\ 1 \in Nat
    BY DEF RoutingControl, Service, Bodies
  <2>2. Compose(n, RoutingControl, "text", 1, TRUE) \in Message
    BY <2>1, ComposeType
  <2>3. /\ running' \in [Node -> BOOLEAN] /\ rxTask' \in [Node -> Nat] /\ late' \in [Node -> Nat]
        /\ faults' \in Nat
    BY <1>7, CreateType DEF SendTowerProbe, TypeOK
  <2> QED
    BY <1>7, <2>2, <2>3, BeginSendType DEF SendTowerProbe, TypeOK
<1>8. CASE SendChunk(n)
  BY <1>8, SendChunkType
<1>9. CASE SendFails(n)
  <2>1. ~NotSending.active
    BY DEF NotSending
  <2>2. faults' \in Nat
    BY <1>9 DEF SendFails, Fault, TypeOK
  <2> QED
    BY <1>9, <2>1, <2>2 DEF SendFails, TypeOK, history
<1>10. CASE Tick(n)
  BY <1>10 DEF Tick, TypeOK
<1> QED
  BY <1>1, <1>2, <1>3, <1>4, <1>5, <1>6, <1>7, <1>8, <1>9, <1>10 DEF Operate

\* Every step of the receive task and of the environment keeps the types.
LEMMA OtherType ==
  ASSUME TypeOK,
         \/ \E n \in Node : ReceiveTask(n) \/ Reboot(n)
         \/ (\E f \in air : LoseFrame(f)) \/ Advance
  PROVE  TypeOK'
<1>1. ASSUME NEW n \in Node, RxTaskExit(n) PROVE TypeOK'
  <2>1. rxTask' \in [Node -> Nat]
    BY <1>1, SMTT(30) DEF RxTaskExit, TypeOK
  <2> QED
    BY <1>1, <2>1 DEF RxTaskExit, TypeOK, history
<1>2. ASSUME NEW n \in Node, NEW f \in air, Receive(n, f) PROVE TypeOK'
  <2>1. f \in Frame /\ OnRawDataReceived(n, f)
    BY <1>2 DEF Receive, TypeOK
  <2>2. air' \subseteq Frame /\ rxTask' \in [Node -> Nat]
    BY <1>2, SMTT(30) DEF Receive, TypeOK
  <2> QED
    BY <1>2, <2>1, <2>2, ReceiveType DEF Receive, TypeOK
<1>3. ASSUME NEW n \in Node, Reboot(n) PROVE TypeOK'
  <2>1. ~NotSending.active
    BY DEF NotSending
  <2>2. IsMap(<<>>, Nat \ ReservedIds, Node)
    BY DEF IsMap
  <2>3. nextId' \in [Node -> 1..IdSpace]
    BY <1>3, MeshAssumption, SMTT(30) DEF Reboot, TypeOK, MeshAssumption
  <2>4. sent' \in [Node -> Seq(Message)]
    BY <1>3 DEF Reboot, TypeOK
  <2>5. /\ arp' = [k \in Node |-> arp'[k]]
        /\ \A k \in Node : IsMap(arp'[k], Nat \ ReservedIds, Node)
    BY <1>3, <2>2 DEF Reboot, TypeOK
  <2>6. /\ air' \subseteq Frame /\ faults' \in Nat
        /\ running' \in [Node -> BOOLEAN] /\ rxTask' \in [Node -> Nat]
        /\ late' \in [Node -> Nat]
        /\ overrun' \in [Node -> BOOLEAN]
    BY <1>3, FaultType DEF Reboot, TypeOK
  <2>7. /\ tx' \in [Node -> {NotSending} \cup Sending]
        /\ \A k \in Node : tx'[k].active =>
             tx'[k].next < tx'[k].msg.total /\ tx'[k].msg.total <= MaxChunks
    BY <1>3, <2>1 DEF Reboot, TypeOK
  <2>8. /\ reas' = [k \in Node |-> reas'[k]] /\ inbox' = [k \in Node |-> inbox'[k]]
        /\ \A k \in Node : \A r \in reas'[k] : IsReassembly(r)
        /\ \A k \in Node : \A p \in inbox'[k] : IsPacket(p)
    BY <1>3 DEF Reboot, TypeOK
  <2>9. /\ handlers' \in [Node -> SUBSET Service] /\ towers' \in [Node -> SUBSET Node]
        /\ clock' \in [Node -> SUBSET Message] /\ accepted' \in [Node -> SUBSET Message]
    BY <1>3 DEF Reboot, TypeOK
  <2>10. ticked' \in [Node -> Nat] /\ boots' \in [Node -> Nat] /\ now' \in Nat
    BY <1>3 DEF Reboot, TypeOK
  <2> QED
    BY <2>3, <2>4, <2>5, <2>6, <2>7, <2>8, <2>9, <2>10 DEF TypeOK
<1>4. ASSUME NEW f \in air, LoseFrame(f) PROVE TypeOK'
  BY <1>4, FaultType DEF LoseFrame, TypeOK, engine, history
<1>5. CASE Advance
  <2>1. now \in Nat /\ now' = now + 1
    BY <1>5 DEF Advance, TypeOK
  <2>2. now' \in Nat
    BY <2>1
  <2> QED
    BY <1>5, <2>2 DEF Advance, TypeOK, engine, history
<1> QED
  BY <1>1, <1>2, <1>3, <1>4, <1>5 DEF ReceiveTask

\* Every variable keeps its type (TypeOK), in particular the message id stays a
\* byte that is never 0 (m_currentMsgId) and a chunk index stays below its limit.
THEOREM TypeCorrect == Spec => []TypeOK
<1>1. TypeOK /\ [Next]_vars => TypeOK'
  <2> SUFFICES ASSUME TypeOK, [Next]_vars PROVE TypeOK'
    OBVIOUS
  <2>1. CASE UNCHANGED vars
    BY <2>1 DEF vars, engine, history, TypeOK
  <2>2. CASE Next
    BY <2>2, OperateType, OtherType DEF Next
  <2> QED
    BY <2>1, <2>2
<1> QED
  BY <1>1, InitType, PTL DEF Spec

-----------------------------------------------------------------------------
(* Reassembly *)

\* What a step may do to the history: no message is forgotten, unless its source
\* from then on counts as having used an id twice.
Grows ==
  \A k \in Node : ~Reused(k)' =>
    /\ ~Reused(k)
    /\ \A q \in DOMAIN sent[k] : q \in DOMAIN sent'[k] /\ sent'[k][q] = sent[k][q]

\* A step that leaves the history alone is one.
LEMMA SameGrows ==
  ASSUME UNCHANGED <<sent, boots>> PROVE Grows
  BY DEF Grows, Reused

\* What was genuine stays so.
LEMMA GenuineStays ==
  ASSUME Grows, NEW m \in Message, Genuine(m)
  PROVE  Genuine(m)'
<1>1. m.src \in Node
  BY DEF Message
<1> QED
  BY <1>1 DEF Grows, Genuine

\* A reassembly that is kept stays correct.
LEMMA ReassemblyStays ==
  ASSUME Grows, NEW r, IsReassembly(r), ChunkInv(r), SizeInv(r)
  PROVE  ChunkInv(r)' /\ SizeInv(r)'
<1>1. \A i \in DOMAIN r.chunks : r.chunks[i].msg \in Message
  BY DEF IsReassembly, IsMap, Chunk
<1>2. ChunkInv(r)'
  BY <1>1, GenuineStays DEF ChunkInv
<1>3. SizeInv(r)'
  BY DEF SizeInv, Grows, IsReassembly
<1> QED
  BY <1>2, <1>3

\* A step that receives nothing disturbs no part of the invariant but what is
\* being sent: lists only shrink and the history only grows.
LEMMA QuietStep ==
  ASSUME TypeOK, ReassemblyCorrect, Grows,
         \A k \in Node : /\ inbox'[k] \subseteq inbox[k] /\ reas'[k] \subseteq reas[k]
                         /\ overrun'[k] => overrun[k]
                         /\ arp'[k] = arp[k] \/ arp'[k] = <<>>
  PROVE  /\ ReassemblyInv' /\ WholePackets' /\ NoOverrun' /\ NothingCompleteWaits'
         /\ OneReassemblyPerKey' /\ ArpFaithful'
<1>1. ReassemblyInv'
  BY ReassemblyStays DEF ReassemblyCorrect, ReassemblyInv, TypeOK
<1>2. WholePackets'
  <2> SUFFICES ASSUME NEW n \in Node, NEW p \in inbox[n], ~Reused(p.src)'
               PROVE  \E q \in DOMAIN sent'[p.src] : IsWhole(p, sent'[p.src][q])
    BY DEF WholePackets
  <2>1. p.src \in Node
    BY DEF TypeOK, IsPacket
  <2>2. PICK q \in DOMAIN sent[p.src] : IsWhole(p, sent[p.src][q])
    BY <2>1 DEF Grows, ReassemblyCorrect, WholePackets
  <2> QED
    BY <2>1, <2>2 DEF Grows
<1>3. NoOverrun'
  BY DEF ReassemblyCorrect, NoOverrun, Grows
<1>4. NothingCompleteWaits'
  <2>1. \A n \in Node : \A r \in reas[n] : r.src \in Node
    BY DEF TypeOK, IsReassembly
  <2> QED
    BY <2>1 DEF ReassemblyCorrect, NothingCompleteWaits, Grows
<1>5. OneReassemblyPerKey'
  BY DEF ReassemblyCorrect, OneReassemblyPerKey
<1>6. ArpFaithful'
  BY DEF ReassemblyCorrect, ArpFaithful
<1> QED
  BY <1>1, <1>2, <1>3, <1>4, <1>5, <1>6

\* sendPacket: the new message has an id of its own, or its source has now used
\* an id twice.
LEMMA BeginSendCorrect ==
  ASSUME TypeOK, CounterInv, AirInv, NEW n \in Node, NEW m \in Message, NEW dst,
         m.src = n, m.id = nextId[n], BeginSend(n, m, dst), UNCHANGED <<air, boots>>
  PROVE  Grows /\ CounterInv' /\ AirInv'
<1>1. /\ sent \in [Node -> Seq(Message)] /\ sent' = [sent EXCEPT ![n] = Append(@, m)]
      /\ nextId \in [Node -> 1..IdSpace] /\ nextId' = [nextId EXCEPT ![n] = IncId(@)]
      /\ boots \in [Node -> Nat] /\ boots' = boots
      /\ IdSpace \in Nat \ {0}
  BY MeshAssumption DEF TypeOK, BeginSend, MeshAssumption
<1>2. /\ \A k \in Node \ {n} : sent'[k] = sent[k] /\ nextId'[k] = nextId[k]
      /\ sent'[n] = Append(sent[n], m) /\ nextId'[n] = IncId(nextId[n])
  BY <1>1
<1> DEFINE s == sent[n]  len == Len(s)
<1>3. s \in Seq(Message) /\ len \in Nat /\ DOMAIN s = 1..len
  BY <1>1
<1>4. /\ Len(sent'[n]) = len + 1 /\ DOMAIN sent'[n] = 1..(len + 1)
      /\ sent'[n][len + 1] = m /\ \A q \in 1..len : sent'[n][q] = s[q]
  BY <1>2, <1>3
<1> HIDE DEF s, len
<1>5. ~Reused(n)' => ~Reused(n) /\ len + 1 <= IdSpace
  BY <1>1, <1>3, <1>4 DEF Reused, s, len
<1>6. Grows
  <2>1. \A k \in Node \ {n} : Reused(k)' <=> Reused(k)
    BY <1>1, <1>2 DEF Reused
  <2>2. \A q \in DOMAIN sent[n] : q \in DOMAIN sent'[n] /\ sent'[n][q] = sent[n][q]
    BY <1>3, <1>4 DEF s
  <2> QED
    BY <1>2, <1>5, <2>1, <2>2 DEF Grows
<1>7. ~Reused(n)' => m.id = len + 1
  BY <1>1, <1>3, <1>5 DEF CounterInv, s, len
<1>8. CounterInv'
  <2> SUFFICES ASSUME NEW k \in Node, ~Reused(k)'
               PROVE  /\ Len(sent'[k]) < IdSpace => nextId'[k] = Len(sent'[k]) + 1
                      /\ \A q \in DOMAIN sent'[k] : sent'[k][q].id = q /\ sent'[k][q].src = k
    BY DEF CounterInv
  <2>1. CASE k # n
    BY <1>2, <1>6, <2>1 DEF CounterInv, Grows
  <2>2. CASE k = n
    <3>1. len < IdSpace /\ nextId[n] = len + 1
      BY <1>1, <1>3, <1>5, <2>2 DEF CounterInv, s, len
    <3>2. len + 1 < IdSpace => nextId'[n] = len + 2
      BY <1>1, <1>2, <1>3, <3>1 DEF IncId
    <3>3. \A q \in 1..len : s[q].id = q /\ s[q].src = n
      BY <1>3, <1>5, <2>2 DEF CounterInv, s
    <3>4. \A q \in 1..(len + 1) : sent'[n][q].id = q /\ sent'[n][q].src = n
      <4> SUFFICES ASSUME NEW q \in 1..(len + 1) PROVE sent'[n][q].id = q /\ sent'[n][q].src = n
        OBVIOUS
      <4>1. CASE q = len + 1
        BY <1>4, <1>7, <2>2, <4>1
      <4>2. CASE q # len + 1
        <5>1. q \in 1..len
          BY <1>3, <4>2
        <5> QED
          BY <1>4, <3>3, <5>1
      <4> QED
        BY <4>1, <4>2
    <3> QED
      BY <1>3, <1>4, <2>2, <3>2, <3>4
  <2> QED
    BY <2>1, <2>2
<1>9. Genuine(m)'
  BY <1>3, <1>4, <1>7 DEF Genuine
<1>10. AirInv'
  <2>1. \A f \in air : f.msg \in Message
    BY DEF TypeOK, Frame
  <2>2. \A k \in Node : tx[k].active => tx[k].msg \in Message
    BY SendingType
  <2>3. \A k \in Node : tx'[k].active => tx'[k].msg = m \/ (tx[k].active /\ tx'[k].msg = tx[k].msg)
    BY DEF BeginSend, TypeOK
  <2> QED
    BY <1>6, <1>9, <2>1, <2>2, <2>3, GenuineStays DEF AirInv
<1> QED
  BY <1>6, <1>8, <1>10

\* A completed packet: the handler is given what was sent, and the address that
\* is learnt is the sender's.
LEMMA ProcessCorrect ==
  ASSUME TypeOK, WholePackets, ArpFaithful, UNCHANGED <<sent, boots>>,
         NEW n \in Node, NEW src \in Node, NEW parts,
         IsMap(parts, Index, Chunk), 0 \in DOMAIN parts, parts[0].msg.src = src,
         ~Reused(src) => \E q \in DOMAIN sent[src] :
            parts = [i \in 0..(sent[src][q].total - 1) |-> [msg |-> sent[src][q], idx |-> i]],
         ProcessCompletedPacket(n, src, parts)
  PROVE  WholePackets' /\ ArpFaithful'
<1>1. \A k \in Node : Reused(k)' <=> Reused(k)
  BY DEF Reused
<1>2. WholePackets'
  <2> DEFINE p == [src |-> src, svc |-> ServiceOf(ControlByte(parts[0].msg.svc, parts[0].msg.dstOnly)),
                   parts |-> parts]
  <2>1. inbox' = [inbox EXCEPT ![n] = @ \cup {p}] \/ inbox' = inbox
    BY DEF ProcessCompletedPacket
  <2>2. p.src = src /\ p.parts = parts
    OBVIOUS
  <2> HIDE DEF p
  <2>3. Reused(p.src) \/ \E q \in DOMAIN sent[p.src] : IsWhole(p, sent[p.src][q])
    BY <2>2 DEF IsWhole
  <2>a. DOMAIN inbox = Node
    BY DEF TypeOK
  <2>4. \A k \in Node : \A x \in inbox'[k] : x \in inbox[k] \/ x = p
    BY ONLY <2>1, <2>a, n \in Node
  <2>5. \A k \in Node : \A x \in inbox[k] : x.src \in Node
    BY DEF TypeOK, IsPacket
  <2> QED
    BY <1>1, <2>2, <2>3, <2>4, <2>5 DEF WholePackets
<1>3. ArpFaithful'
  <2> DEFINE m == parts[0].msg
             sid == SourceId(ControlByte(m.svc, m.dstOnly), Short[m.src])
  <2>1. LearnArp(n, sid, src)
    BY DEF ProcessCompletedPacket
  <2>2. m.src = src /\ Short[src] \in Nat
    BY MeshAssumption DEF MeshAssumption
  <2>3. CASE sid \in ReservedIds
    BY <2>1, <2>3 DEF LearnArp, ArpFaithful
  <2>4. CASE sid \notin ReservedIds
    <3>1. sid = Short[src] /\ sid \in Nat \ ReservedIds
      BY <2>2, <2>4, SourceIdCases
    <3>2. arp' = [arp EXCEPT ![n] = Put(@, sid, src)]
      BY <2>1, <2>4 DEF LearnArp
    <3> HIDE DEF sid
    <3>3. IsMap(arp[n], Nat \ ReservedIds, Node)
      BY DEF TypeOK
    <3>4. \A k \in Node : arp'[k] = IF k = n THEN Put(arp[n], sid, src) ELSE arp[k]
      BY <3>2 DEF TypeOK
    <3>5. \A x \in DOMAIN Put(arp[n], sid, src) : Short[Put(arp[n], sid, src)[x]] = x
      <4> DEFINE g == Put(arp[n], sid, src)
      <4>1. /\ DOMAIN g = DOMAIN arp[n] \cup {sid} /\ g[sid] = src
            /\ \A x \in DOMAIN arp[n] : x # sid => g[x] = arp[n][x]
        BY DEF Put
      <4>2. \A x \in DOMAIN arp[n] : Short[arp[n][x]] = x
        BY DEF ArpFaithful
      <4> HIDE DEF g
      <4>3. \A x \in DOMAIN g : Short[g[x]] = x
        BY <3>1, <4>1, <4>2
      <4> QED
        BY <4>3 DEF g
    <3> QED
      BY <3>4, <3>5 DEF ArpFaithful
  <2> QED
    BY <2>3, <2>4
<1> QED
  BY <1>2, <1>3

\* r, the reassembly of the frame f with the chunk of f stored, correct as a
\* reassembly and with f's key and size: whichever way the step goes, the
\* invariant holds again.
LEMMA AbsorbCorrect ==
  ASSUME TypeOK, ReassemblyCorrect, UNCHANGED <<sent, boots, overrun>>,
         NEW n \in Node, NEW f \in Frame, WellFormed(f), Genuine(f.msg),
         NEW r, NEW old, IsReassembly(r), ChunkInv(r), SizeInv(r),
         Matches(r, f.msg),
         \A x \in reas[n] \ old : ~Matches(x, f.msg),
         Absorb(n, f, r, old)
  PROVE  /\ ReassemblyInv' /\ WholePackets' /\ NoOverrun' /\ NothingCompleteWaits'
         /\ OneReassemblyPerKey' /\ ArpFaithful'
<1>1. Grows
  BY SameGrows
<1>2. \A k \in Node : Reused(k)' <=> Reused(k)
  BY DEF Reused
<1>3. /\ r.src = f.msg.src /\ r.id = f.msg.id /\ f.msg.src \in Node
      /\ f.msg.total \in 1..MaxChunks /\ IsMap(r.chunks, Index, Chunk)
  BY BytesType DEF Matches, IsReassembly
<1>4. ~Reused(f.msg.src) => /\ f.msg.id \in DOMAIN sent[f.msg.src]
                            /\ f.msg = sent[f.msg.src][f.msg.id] /\ r.total = f.msg.total
  BY <1>3 DEF Genuine, SizeInv
<1>5. CASE Complete(r, f)
  <2>1. /\ reas' = [reas EXCEPT ![n] = @ \ old]
        /\ ProcessCompletedPacket(n, f.msg.src, r.chunks)
    BY <1>5 DEF Absorb
  <2>2. 0 \in DOMAIN r.chunks
    BY <1>3, <1>5, MeshAssumption DEF Complete, MeshAssumption
  <2>3. r.chunks[0].msg.src = f.msg.src
    BY <1>3, <2>2 DEF ChunkInv
  <2>4. ASSUME ~Reused(f.msg.src)
        PROVE  r.chunks = [i \in 0..(f.msg.total - 1) |-> [msg |-> f.msg, idx |-> i]]
    <3>1. DOMAIN r.chunks = 0..(f.msg.total - 1)
      BY <1>5 DEF Complete
    <3>2. ASSUME NEW i \in DOMAIN r.chunks PROVE r.chunks[i] = [msg |-> f.msg, idx |-> i]
      <4>1. r.chunks[i] \in Chunk /\ r.chunks[i].idx = i
        BY <1>3 DEF IsMap, ChunkInv
      <4>2. r.chunks[i].msg = f.msg
        BY <1>3, <1>4, <2>4, SMTT(30) DEF ChunkInv, Genuine
      <4> QED
        BY <4>1, <4>2 DEF Chunk
    <3> QED
      BY <1>3, <3>1, <3>2 DEF IsMap
  <2>5. WholePackets' /\ ArpFaithful'
    BY <1>3, <1>4, <2>1, <2>2, <2>3, <2>4, ProcessCorrect DEF ReassemblyCorrect
  <2>6. \A k \in Node : reas'[k] \subseteq reas[k]
    BY <2>1 DEF TypeOK
  <2>7. ReassemblyInv'
    BY <1>1, <2>6, ReassemblyStays DEF ReassemblyCorrect, ReassemblyInv, TypeOK
  <2>8. NoOverrun' /\ OneReassemblyPerKey'
    BY <1>2, <2>6 DEF ReassemblyCorrect, NoOverrun, OneReassemblyPerKey
  <2>9. NothingCompleteWaits'
    <3>1. \A k \in Node : \A x \in reas[k] : x.src \in Node
      BY DEF TypeOK, IsReassembly
    <3> QED
      BY <1>2, <2>6, <3>1 DEF ReassemblyCorrect, NothingCompleteWaits
  <2> QED
    BY <2>5, <2>7, <2>8, <2>9
<1>6. CASE ~Complete(r, f)
  <2>1. /\ reas' = [reas EXCEPT ![n] = (@ \ old) \cup {r}]
        /\ UNCHANGED <<arp, inbox>>
    BY <1>6 DEF Absorb
  <2>2. /\ \A k \in Node : \A x \in reas'[k] : x \in reas[k] \/ x = r
        /\ \A k \in Node : k # n => reas'[k] = reas[k]
        /\ \A x \in reas'[n] : x = r \/ x \in reas[n] \ old
    BY <2>1 DEF TypeOK
  <2>3. ReassemblyInv'
    BY <1>1, <2>2, ReassemblyStays DEF ReassemblyCorrect, ReassemblyInv, TypeOK
  <2>4. NoOverrun' /\ ArpFaithful'
    BY <1>2, <2>1 DEF ReassemblyCorrect, NoOverrun, ArpFaithful
  <2>5. WholePackets'
    <3>1. \A k \in Node : \A p \in inbox[k] : p.src \in Node
      BY DEF TypeOK, IsPacket
    <3> QED
      BY <1>2, <2>1, <3>1 DEF ReassemblyCorrect, WholePackets
  <2>6. OneReassemblyPerKey'
    BY <1>3, <2>2 DEF ReassemblyCorrect, OneReassemblyPerKey, Matches
  <2>7. NothingCompleteWaits'
    <3>1. \A k \in Node : \A x \in reas[k] : x.src \in Node
      BY DEF TypeOK, IsReassembly
    <3>2. DOMAIN r.chunks = 0..(r.total - 1) => Reused(r.src)
      BY <1>3, <1>4, <1>6 DEF Complete
    <3> QED
      BY <1>2, <1>3, <2>2, <3>1, <3>2 DEF ReassemblyCorrect, NothingCompleteWaits
  <2> QED
    BY <2>3, <2>4, <2>5, <2>6, <2>7
<1> QED
  BY <1>5, <1>6

\* A chunk stored in the reassembly of its key stands at its own index.
LEMMA StoreChunks ==
  ASSUME NEW f \in Frame, WellFormed(f), Genuine(f.msg),
         NEW r, IsReassembly(r), ChunkInv(r), Matches(r, f.msg)
  PROVE  ChunkInv(Store(r, f))
<1>1. CASE f.idx \in DOMAIN r.chunks
  BY <1>1 DEF Store
<1>2. CASE f.idx \notin DOMAIN r.chunks
  <2> DEFINE c == Put(r.chunks, f.idx, Bytes(f))
  <2>1. Store(r, f) = [src |-> r.src, id |-> r.id, total |-> r.total,
                       start |-> r.start, born |-> r.born, chunks |-> c]
    BY <1>2 DEF Store, IsReassembly
  <2>2. /\ DOMAIN c = DOMAIN r.chunks \cup {f.idx} /\ c[f.idx] = Bytes(f)
        /\ \A x \in DOMAIN r.chunks : x # f.idx => c[x] = r.chunks[x]
    BY DEF Put
  <2> HIDE DEF c
  <2>3. Store(r, f).chunks = c /\ Store(r, f).src = r.src /\ Store(r, f).id = r.id
    BY <2>1
  <2>4. Bytes(f).idx = f.idx /\ Bytes(f).msg = f.msg
    BY DEF Bytes
  <2>5. f.msg.src = r.src /\ f.msg.id = r.id
    BY DEF Matches
  <2> QED
    BY <2>2, <2>3, <2>4, <2>5 DEF ChunkInv
<1> QED
  BY <1>1, <1>2

\* onRawDataReceived, every branch of it.
LEMMA ReceiveCorrect ==
  ASSUME TypeOK, ReassemblyCorrect, UNCHANGED <<sent, boots>>,
         NEW n \in Node, NEW f \in Frame, Genuine(f.msg), OnRawDataReceived(n, f)
  PROVE  /\ ReassemblyInv' /\ WholePackets' /\ NoOverrun' /\ NothingCompleteWaits'
         /\ OneReassemblyPerKey' /\ ArpFaithful'
<1> DEFINE Goal == /\ ReassemblyInv' /\ WholePackets' /\ NoOverrun' /\ NothingCompleteWaits'
                   /\ OneReassemblyPerKey' /\ ArpFaithful'
<1>1. Grows /\ \A k \in Node : Reused(k)' <=> Reused(k)
  BY SameGrows DEF Reused
<1>2. CASE UNCHANGED <<reas, arp, overrun, inbox>>
  <2>1. \A k \in Node : /\ inbox'[k] \subseteq inbox[k] /\ reas'[k] \subseteq reas[k]
                        /\ overrun'[k] => overrun[k]
                        /\ arp'[k] = arp[k] \/ arp'[k] = <<>>
    BY <1>2
  <2> QED
    BY <1>1, <2>1, QuietStep
<1>3. CASE /\ WellFormed(f) /\ f.msg.total = 1
           /\ ProcessCompletedPacket(n, f.msg.src, [i \in {0} |-> Bytes(f)])
           /\ UNCHANGED <<reas, overrun>>
  <2> DEFINE parts == [i \in {0} |-> Bytes(f)]
  <2>1. IsMap(parts, Index, Chunk) /\ f.msg.src \in Node
    BY <1>3, BytesType, MeshAssumption DEF IsMap, Index, MeshAssumption
  <2>2. 0 \in DOMAIN parts /\ parts[0].msg.src = f.msg.src
    BY DEF Bytes
  <2>3. f.idx = 0
    <3>1. MaxChunks \in Nat
      BY MeshAssumption DEF MeshAssumption
    <3>2. f.idx \in Nat
      BY <3>1 DEF Frame, Index
    <3> QED
      BY <1>3, <3>2 DEF WellFormed
  <2>4. parts = [i \in 0..(f.msg.total - 1) |-> [msg |-> f.msg, idx |-> i]]
    <3>1. 0..(f.msg.total - 1) = {0}
      BY <1>3
    <3> QED
      BY <2>3, <3>1 DEF Bytes
  <2>5. ~Reused(f.msg.src) => \E q \in DOMAIN sent[f.msg.src] : f.msg = sent[f.msg.src][q]
    BY DEF Genuine
  <2>6. WholePackets' /\ ArpFaithful'
    <3>1. ProcessCompletedPacket(n, f.msg.src, parts)
      BY <1>3
    <3> HIDE DEF parts
    <3>2. ~Reused(f.msg.src) => \E q \in DOMAIN sent[f.msg.src] :
            parts = [i \in 0..(sent[f.msg.src][q].total - 1) |-> [msg |-> sent[f.msg.src][q], idx |-> i]]
      BY <2>4, <2>5
    <3>3. WholePackets /\ ArpFaithful
      BY DEF ReassemblyCorrect
    <3> QED
      BY <2>1, <2>2, <3>1, <3>2, <3>3, ProcessCorrect
  <2>7. ReassemblyInv' /\ NoOverrun' /\ OneReassemblyPerKey'
    BY <1>1, <1>3, ReassemblyStays
       DEF ReassemblyCorrect, ReassemblyInv, NoOverrun, OneReassemblyPerKey, TypeOK
  <2>8. NothingCompleteWaits'
    <3>1. \A k \in Node : \A x \in reas[k] : x.src \in Node
      BY DEF TypeOK, IsReassembly
    <3> QED
      BY <1>1, <1>3, <3>1 DEF ReassemblyCorrect, NothingCompleteWaits
  <2> QED
    BY <2>6, <2>7, <2>8
<1>4. CASE /\ WellFormed(f)
           /\ \A r \in reas[n] : ~Matches(r, f.msg)
           /\ Absorb(n, f, NewReassembly(f), {}) /\ UNCHANGED overrun
  <2> DEFINE r == NewReassembly(f)
  <2>1. IsReassembly(r)
    BY <1>4, NewReassemblyType DEF TypeOK
  <2>2. ChunkInv(r) /\ Matches(r, f.msg)
    BY DEF ChunkInv, NewReassembly, Bytes, Matches
  <2>3. SizeInv(r)
    <3>1. f.idx \in 0..(f.msg.total - 1)
      <4>1. MaxChunks \in Nat
        BY MeshAssumption DEF MeshAssumption
      <4>2. f.idx \in Nat /\ f.msg.total \in Nat
        BY <4>1 DEF Frame, Index, Message
      <4> QED
        BY <1>4, <4>2 DEF WellFormed
    <3> QED
      BY <3>1 DEF SizeInv, NewReassembly, Genuine
  <2> HIDE DEF r
  <2>4. Goal
    BY <1>4, <2>1, <2>2, <2>3, AbsorbCorrect DEF r
  <2> QED
    BY <2>4
<1>5. CASE /\ WellFormed(f)
           /\ \E r \in reas[n] :
                /\ Matches(r, f.msg) /\ (f.idx < r.total \/ f.idx \in DOMAIN r.chunks)
                /\ Absorb(n, f, Store(r, f), {r}) /\ UNCHANGED overrun
  <2>1. PICK r \in reas[n] :
          /\ Matches(r, f.msg) /\ (f.idx < r.total \/ f.idx \in DOMAIN r.chunks)
          /\ Absorb(n, f, Store(r, f), {r}) /\ UNCHANGED overrun
    BY <1>5
  <2>2. IsReassembly(r) /\ ChunkInv(r) /\ SizeInv(r)
    BY DEF TypeOK, ReassemblyCorrect, ReassemblyInv
  <2>3. /\ IsReassembly(Store(r, f))
        /\ Store(r, f).src = r.src /\ Store(r, f).id = r.id /\ Store(r, f).total = r.total
        /\ DOMAIN Store(r, f).chunks = DOMAIN r.chunks \cup {f.idx}
    BY <1>5, <2>2, StoreType
  <2>4. ChunkInv(Store(r, f))
    BY <1>5, <2>1, <2>2, StoreChunks
  <2>5. SizeInv(Store(r, f))
    <3>1. f.idx \in Nat /\ r.total \in Nat
      BY <2>2, MeshAssumption DEF Frame, Index, IsReassembly, MeshAssumption
    <3>2. f.idx < r.total => f.idx \in 0..(r.total - 1)
      BY <3>1
    <3> QED
      BY <2>1, <2>2, <2>3, <3>2 DEF SizeInv
  <2>6. \A x \in reas[n] \ {r} : ~Matches(x, f.msg)
    BY <2>1 DEF Matches, ReassemblyCorrect, OneReassemblyPerKey
  <2>7. Matches(Store(r, f), f.msg)
    BY <2>1, <2>3 DEF Matches
  <2>8. Goal
    BY <1>5, <2>1, <2>3, <2>4, <2>5, <2>6, <2>7, AbsorbCorrect
  <2> QED
    BY <2>8
<1>6. CASE /\ WellFormed(f)
           /\ \E r \in reas[n] :
                /\ Matches(r, f.msg) /\ ~(f.idx < r.total \/ f.idx \in DOMAIN r.chunks)
                /\ Overrun(n)
  <2>1. PICK r \in reas[n] : Matches(r, f.msg) /\ ~(f.idx < r.total) /\ Overrun(n)
    BY <1>6
  <2>2. SizeInv(r) /\ f.msg.src \in Node
    BY <1>6, BytesType DEF ReassemblyCorrect, ReassemblyInv
  <2>3. Reused(f.msg.src)
    BY <1>6, <2>1, <2>2 DEF Matches, SizeInv, Genuine, WellFormed
  <2>4. NoOverrun'
    BY <1>1, <2>2, <2>3 DEF NoOverrun
  <2>5. ReassemblyInv' /\ OneReassemblyPerKey' /\ ArpFaithful'
    BY <1>1, <2>1, ReassemblyStays
       DEF Overrun, ReassemblyCorrect, ReassemblyInv, OneReassemblyPerKey, ArpFaithful, TypeOK
  <2>6. NothingCompleteWaits' /\ WholePackets'
    <3>1. /\ \A k \in Node : \A x \in reas[k] : x.src \in Node
          /\ \A k \in Node : \A p \in inbox[k] : p.src \in Node
      BY DEF TypeOK, IsReassembly, IsPacket
    <3> QED
      BY <1>1, <2>1, <3>1 DEF Overrun, ReassemblyCorrect, NothingCompleteWaits, WholePackets
  <2> QED
    BY <2>4, <2>5, <2>6
<1> HIDE DEF Goal
<1> QED
  BY <1>2, <1>3, <1>4, <1>5, <1>6 DEF OnRawDataReceived

\* A chunk handed to the radio is one of the message being sent.
LEMMA SendChunkCorrect ==
  ASSUME TypeOK, AirInv, NEW n \in Node, SendChunk(n)
  PROVE  AirInv'
<1>1. Grows
  BY SameGrows DEF SendChunk
<1>2. \A f \in air : f.msg \in Message
  BY DEF TypeOK, Frame
<1>3. \A k \in Node : tx[k].active => tx[k].msg \in Message
  BY SendingType
<1>4. \A f \in air' : f \in air \/ f.msg = tx[n].msg
  BY DEF SendChunk
<1>5. \A k \in Node : tx'[k].active => tx[k].active /\ tx'[k].msg = tx[k].msg
  <2>1. tx \in [Node -> {NotSending} \cup Sending] /\ tx[n] \in Sending /\ tx[n].active
    BY SendingType DEF TypeOK, SendChunk
  <2>2. CASE tx' = [tx EXCEPT ![n].next = @ + 1]
    <3>1. \A k \in Node : k # n => tx'[k] = tx[k]
      BY <2>1, <2>2
    <3>2. tx'[n] = [tx[n] EXCEPT !.next = @ + 1]
      BY <2>1, <2>2
    <3>3. tx'[n].msg = tx[n].msg
      BY <2>1, <3>2 DEF Sending
    <3> QED
      BY <2>1, <3>1, <3>3
  <2>3. CASE tx' = [tx EXCEPT ![n] = NotSending]
    <3>1. ~NotSending.active
      BY DEF NotSending
    <3> QED
      BY <2>1, <2>3, <3>1
  <2> QED
    BY <2>2, <2>3 DEF SendChunk
<1> QED
  BY <1>1, <1>2, <1>3, <1>4, <1>5, GenuineStays DEF AirInv, SendChunk

\* The invariant of reassembly is inductive.
LEMMA CorrectStep ==
  ASSUME TypeOK, ReassemblyCorrect, [Next]_vars
  PROVE  ReassemblyCorrect'
<1> DEFINE Parts == /\ ReassemblyInv' /\ WholePackets' /\ NoOverrun' /\ NothingCompleteWaits'
                    /\ OneReassemblyPerKey' /\ ArpFaithful'
           Shrinks == \A k \in Node :
             /\ inbox'[k] \subseteq inbox[k] /\ reas'[k] \subseteq reas[k]
             /\ overrun'[k] => overrun[k]
             /\ arp'[k] = arp[k] \/ arp'[k] = <<>>
<1>1. Grows /\ Shrinks => Parts
  BY QuietStep
<1>2. ASSUME UNCHANGED <<sent, boots, nextId>> PROVE CounterInv' /\ Grows
  BY <1>2, SameGrows DEF ReassemblyCorrect, CounterInv, Reused
<1>3. ASSUME Grows, air' \subseteq air,
             \A k \in Node : tx'[k].active => tx'[k] = tx[k]
      PROVE  AirInv'
  <2>1. /\ \A f \in air : f.msg \in Message
        /\ \A k \in Node : tx[k].active => tx[k].msg \in Message
    BY SendingType DEF TypeOK, Frame
  <2> QED
    BY <1>3, <2>1, GenuineStays DEF ReassemblyCorrect, AirInv
<1>4. ASSUME CounterInv', AirInv', Parts PROVE ReassemblyCorrect'
  BY <1>4 DEF ReassemblyCorrect
\* Nothing of the history, of what is sent, or of the lists changes but to shrink.
<1>5. ASSUME UNCHANGED <<sent, boots, nextId, tx>>, air' \subseteq air, Shrinks
      PROVE  ReassemblyCorrect'
  <2>1. CounterInv' /\ Grows
    BY <1>2, <1>5
  <2>2. AirInv'
    BY <1>3, <1>5, <2>1
  <2> QED
    BY <1>1, <1>4, <1>5, <2>1, <2>2
<1>6. CASE UNCHANGED vars
  BY <1>5, <1>6 DEF vars, engine, history
<1>7. ASSUME NEW n \in Node, Operate(n) PROVE ReassemblyCorrect'
  <2>1. CASE StartEngine(n)
    BY <1>5, <2>1 DEF StartEngine, history
  <2>2. CASE StopEngine(n)
    <3>1. \A k \in Node : reas'[k] \subseteq reas[k]
      BY <2>2 DEF StopEngine, TypeOK
    <3> QED
      BY <1>5, <2>2, <3>1 DEF StopEngine
  <2>3. CASE ClearDiscoveredTowers(n)
    BY <1>5, <2>3 DEF ClearDiscoveredTowers, history
  <2>4. CASE \E svc \in Services : RegisterServiceHandler(n, svc) \/ UnregisterServiceHandler(n, svc)
    BY <1>5, <2>4 DEF RegisterServiceHandler, UnregisterServiceHandler, history
  <2>5. ASSUME NEW m \in Message, NEW dst, m.src = n, m.id = nextId[n], BeginSend(n, m, dst),
               UNCHANGED <<reas, arp, overrun, air, inbox, boots>>
        PROVE  ReassemblyCorrect'
    <3>1. Grows /\ CounterInv' /\ AirInv'
      BY <2>5, BeginSendCorrect DEF ReassemblyCorrect
    <3>2. Shrinks
      BY <2>5
    <3> QED
      BY <1>1, <1>4, <3>1, <3>2
  <2>6. CASE SendPacket(n)
    <3>1. PICK svc \in Services, body \in Body, size \in Sizes, dstOnly \in Modes, dst \in Dests :
            BeginSend(n, Compose(n, svc, body, size, dstOnly), dst)
      BY <2>6 DEF SendPacket
    <3>2. svc \in Service /\ body \in Bodies /\ size \in Nat /\ dstOnly \in BOOLEAN
      BY MeshAssumption DEF MeshAssumption
    <3>3. /\ Compose(n, svc, body, size, dstOnly) \in Message
          /\ Compose(n, svc, body, size, dstOnly).src = n
          /\ Compose(n, svc, body, size, dstOnly).id = nextId[n]
      BY <3>2, ComposeType
    <3> QED
      BY <2>5, <2>6, <3>1, <3>3 DEF SendPacket
  <2>7. CASE SendTowerProbe(n)
    <3>1. RoutingControl \in Service /\ "text" \in Bodies /\ 1 \in Nat
      BY DEF RoutingControl, Service, Bodies
    <3>2. /\ Compose(n, RoutingControl, "text", 1, TRUE) \in Message
          /\ Compose(n, RoutingControl, "text", 1, TRUE).src = n
          /\ Compose(n, RoutingControl, "text", 1, TRUE).id = nextId[n]
      BY <3>1, ComposeType, ZenonT(40)
    <3> QED
      BY <2>5, <2>7, <3>2 DEF SendTowerProbe
  <2>8. CASE SendChunk(n)
    <3>1. AirInv'
      BY <2>8, SendChunkCorrect DEF ReassemblyCorrect
    <3>2. CounterInv' /\ Grows /\ Shrinks
      BY <1>2, <2>8 DEF SendChunk
    <3> QED
      BY <1>1, <1>4, <3>1, <3>2
  <2>9. CASE SendFails(n)
    <3>1. CounterInv' /\ Grows /\ Shrinks
      BY <1>2, <2>9 DEF SendFails, history
    <3>2. \A k \in Node : tx'[k].active => tx'[k] = tx[k]
      <4>1. ~NotSending.active
        BY DEF NotSending
      <4> QED
        BY <2>9, <4>1 DEF SendFails, TypeOK
    <3>3. AirInv'
      BY <1>3, <2>9, <3>1, <3>2 DEF SendFails
    <3> QED
      BY <1>1, <1>4, <3>1, <3>3
  <2>10. CASE Tick(n)
    <3>1. \A k \in Node : reas'[k] \subseteq reas[k]
      BY <2>10 DEF Tick, TypeOK
    <3> QED
      BY <1>5, <2>10, <3>1 DEF Tick
  <2> QED
    BY <1>7, <2>1, <2>2, <2>3, <2>4, <2>6, <2>7, <2>8, <2>9, <2>10 DEF Operate
<1>8. ASSUME NEW n \in Node, RxTaskExit(n) PROVE ReassemblyCorrect'
  BY <1>5, <1>8 DEF RxTaskExit, history
<1>9. ASSUME NEW n \in Node, NEW f \in air, Receive(n, f) PROVE ReassemblyCorrect'
  <2>1. f \in Frame /\ Genuine(f.msg) /\ OnRawDataReceived(n, f)
    BY <1>9 DEF Receive, TypeOK, ReassemblyCorrect, AirInv
  <2>2. Parts
    BY <1>9, <2>1, ReceiveCorrect DEF Receive
  <2>3. CounterInv' /\ Grows
    BY <1>2, <1>9 DEF Receive
  <2>4. AirInv'
    BY <1>3, <1>9, <2>3 DEF Receive
  <2> QED
    BY <1>4, <2>2, <2>3, <2>4
<1>10. ASSUME NEW n \in Node, Reboot(n) PROVE ReassemblyCorrect'
  <2>1. /\ Reused(n)'
        /\ \A k \in Node \ {n} : boots'[k] = boots[k] /\ sent'[k] = sent[k] /\ nextId'[k] = nextId[k]
    BY <1>10 DEF Reboot, Reused, TypeOK
  <2>2. Grows
    BY <2>1 DEF Grows, Reused
  <2>3. CounterInv'
    BY <2>1, <2>2 DEF CounterInv, ReassemblyCorrect, Grows
  <2>4. \A k \in Node : tx'[k].active => tx'[k] = tx[k]
    <3>1. ~NotSending.active
      BY DEF NotSending
    <3> QED
      BY <1>10, <3>1 DEF Reboot, TypeOK
  <2>5. AirInv'
    BY <1>3, <1>10, <2>2, <2>4 DEF Reboot
  <2>6. Shrinks
    BY <1>10 DEF Reboot, TypeOK
  <2> QED
    BY <1>1, <1>4, <2>2, <2>3, <2>5, <2>6
<1>11. ASSUME NEW f \in air, LoseFrame(f) PROVE ReassemblyCorrect'
  BY <1>5, <1>11 DEF LoseFrame, engine, history
<1>12. CASE Advance
  BY <1>5, <1>12 DEF Advance, engine, history
<1> QED
  BY <1>6, <1>7, <1>8, <1>9, <1>10, <1>11, <1>12 DEF Next, ReceiveTask

\* The invariant of reassembly holds: what is sent, on the air and in the lists is
\* genuine, and the five properties below with it.
THEOREM ReassemblyIsCorrect == Spec => []ReassemblyCorrect
<1>1. Init => ReassemblyCorrect
  <2> SUFFICES ASSUME Init PROVE ReassemblyCorrect
    OBVIOUS
  <2>1. ~NotSending.active
    BY DEF NotSending
  <2> QED
    BY <2>1 DEF Init, ReassemblyCorrect, CounterInv, AirInv, ReassemblyInv, WholePackets,
                NoOverrun, NothingCompleteWaits, OneReassemblyPerKey, ArpFaithful
<1>2. TypeOK /\ ReassemblyCorrect /\ [Next]_vars => ReassemblyCorrect'
  BY CorrectStep
<1> QED
  BY <1>1, <1>2, TypeCorrect, PTL DEF Spec

\* A handler is only given exactly what was sent (WholePackets), however chunks
\* are lost, delayed and reordered, while the source has used no id twice.
THEOREM PacketsWhole == Spec => []WholePackets
<1>1. ReassemblyCorrect => WholePackets
  BY DEF ReassemblyCorrect
<1> QED
  BY <1>1, ReassemblyIsCorrect, PTL

\* No chunk is written outside its reassembly (NoOverrun: reasm.chunks[idx] in
\* onRawDataReceived), unless some node has used an id twice.
THEOREM ChunksInBounds == Spec => []NoOverrun
<1>1. ReassemblyCorrect => NoOverrun
  BY DEF ReassemblyCorrect
<1> QED
  BY <1>1, ReassemblyIsCorrect, PTL

\* A reassembly that is complete is handed over at once (NothingCompleteWaits).
THEOREM CompleteHandedOver == Spec => []NothingCompleteWaits
<1>1. ReassemblyCorrect => NothingCompleteWaits
  BY DEF ReassemblyCorrect
<1> QED
  BY <1>1, ReassemblyIsCorrect, PTL

\* m_reassemblies holds one entry per key (OneReassemblyPerKey), so that the first
\* match of the search is the only one, even when ids are used again.
THEOREM KeysUnique == Spec => []OneReassemblyPerKey
<1>1. ReassemblyCorrect => OneReassemblyPerKey
  BY DEF ReassemblyCorrect
<1> QED
  BY <1>1, ReassemblyIsCorrect, PTL

\* The pseudo-ARP table only names owners of their short ids (ArpFaithful), even
\* when packets are mixed up after a reuse of ids.
THEOREM AddressesFaithful == Spec => []ArpFaithful
<1>1. ReassemblyCorrect => ArpFaithful
  BY DEF ReassemblyCorrect
<1> QED
  BY <1>1, ReassemblyIsCorrect, PTL
-----------------------------------------------------------------------------
(* What a stop leaves *)

\* A stopped engine has a finite list, no longer than the number of the tasks late in
\* the stop that have ended since, each with the frame it had in its hands.
Few(n) == IsFiniteSet(reas[n]) /\ Cardinality(reas[n]) + rxTask[n] <= late[n]
StoppedInv == \A n \in Node : ~running[n] => Few(n)

\* A frame adds at most its own reassembly to a list.
LEMMA ReceiveAdds ==
  ASSUME TypeOK, NEW n \in Node, NEW f, OnRawDataReceived(n, f)
  PROVE  /\ \A k \in Node \ {n} : reas'[k] = reas[k]
         /\ \E r : reas'[n] \subseteq reas[n] \cup {r}
<1>1. reas' = reas \/ \E r, old : reas' = [reas EXCEPT ![n] = @ \ old]
                               \/ reas' = [reas EXCEPT ![n] = (@ \ old) \cup {r}]
  BY DEF OnRawDataReceived, Absorb, Overrun
<1>2. reas = [k \in Node |-> reas[k]]
  BY DEF TypeOK
<1> QED
  BY <1>1, <1>2

\* Lists that only shrink, and tasks that only end, leave it true.
LEMMA FewStays ==
  ASSUME TypeOK, NEW n \in Node, Few(n), reas'[n] \subseteq reas[n],
         rxTask'[n] \in Nat, rxTask'[n] <= rxTask[n], late'[n] = late[n]
  PROVE  Few(n)'
<1>1. IsFiniteSet(reas[n]) /\ rxTask[n] \in Nat /\ late[n] \in Nat
  BY DEF TypeOK, Few
<1>2. IsFiniteSet(reas'[n]) /\ Cardinality(reas'[n]) <= Cardinality(reas[n])
  BY <1>1, FS_Subset
<1>3. Cardinality(reas[n]) \in Nat /\ Cardinality(reas'[n]) \in Nat
  BY <1>1, <1>2, FS_CardinalityType
<1> QED
  BY <1>1, <1>2, <1>3 DEF Few

\* A task that hands over its last frame ends.
LEMMA FewReceives ==
  ASSUME TypeOK, NEW n \in Node, Few(n), NEW r, reas'[n] \subseteq reas[n] \cup {r},
         rxTask[n] > 0, rxTask'[n] = rxTask[n] - 1, late'[n] = late[n]
  PROVE  Few(n)'
<1>1. IsFiniteSet(reas[n]) /\ rxTask[n] \in Nat /\ late[n] \in Nat
  BY DEF TypeOK, Few
<1>2. /\ IsFiniteSet(reas[n] \cup {r}) /\ Cardinality(reas[n]) \in Nat
      /\ Cardinality(reas[n] \cup {r}) <= Cardinality(reas[n]) + 1
  <2>1. Cardinality(reas[n]) \in Nat
    BY <1>1, FS_CardinalityType
  <2>2. /\ IsFiniteSet(reas[n] \cup {r})
        /\ \/ Cardinality(reas[n] \cup {r}) = Cardinality(reas[n])
           \/ Cardinality(reas[n] \cup {r}) = Cardinality(reas[n]) + 1
    BY <1>1, FS_AddElement
  <2> QED BY <2>1, <2>2
<1>3. IsFiniteSet(reas'[n]) /\ Cardinality(reas'[n]) <= Cardinality(reas[n] \cup {r})
  BY <1>2, FS_Subset
<1>4. Cardinality(reas[n] \cup {r}) \in Nat /\ Cardinality(reas'[n]) \in Nat
  BY <1>2, <1>3, FS_CardinalityType
<1> QED
  BY <1>1, <1>2, <1>3, <1>4 DEF Few

LEMMA StoppedStep ==
  ASSUME TypeOK, StoppedInv, [Next]_vars
  PROVE  StoppedInv'
<1>1. /\ reas = [k \in Node |-> reas[k]] /\ running \in [Node -> BOOLEAN]
      /\ rxTask \in [Node -> Nat] /\ late \in [Node -> Nat]
  BY DEF TypeOK
\* Only n is touched.
<1>2. ASSUME NEW n \in Node, ~running'[n] => Few(n)',
             \A k \in Node \ {n} : /\ running'[k] = running[k] /\ reas'[k] = reas[k]
                                   /\ rxTask'[k] = rxTask[k] /\ late'[k] = late[k]
      PROVE  StoppedInv'
  BY <1>2 DEF StoppedInv, Few
<1>3. ASSUME UNCHANGED <<running, rxTask, reas, late>> PROVE StoppedInv'
  BY <1>3 DEF StoppedInv, Few
<1>4. CASE UNCHANGED vars
  BY <1>3, <1>4 DEF vars, engine, history
<1>5. ASSUME NEW n \in Node, Operate(n) PROVE StoppedInv'
  <2>1. CASE StartEngine(n)
    <3>1. running'[n]
      BY <1>1, <2>1 DEF StartEngine
    <3> QED
      BY <1>1, <1>2, <2>1, <3>1 DEF StartEngine, CreateRxTask, history
  <2>2. CASE StopEngine(n)
    <3>1. reas'[n] = {} /\ rxTask' = rxTask /\ late'[n] = rxTask[n] /\ rxTask[n] \in Nat
      BY <1>1, <2>2 DEF StopEngine
    <3>2. Few(n)'
      BY <3>1, FS_EmptySet DEF Few
    <3> QED
      BY <1>1, <1>2, <2>2, <3>2 DEF StopEngine
  <2>3. CASE Tick(n)
    <3>1. /\ reas'[n] \subseteq reas[n] /\ rxTask'[n] = rxTask[n] /\ late'[n] = late[n]
          /\ running' = running /\ rxTask[n] \in Nat
      BY <1>1, <2>3 DEF Tick
    <3>2. ~running'[n] => Few(n)'
      BY <3>1, FewStays DEF StoppedInv
    <3> QED
      BY <1>1, <1>2, <2>3, <3>2 DEF Tick
  <2>4. ASSUME \/ ClearDiscoveredTowers(n) \/ SendPacket(n)
               \/ SendChunk(n) \/ SendFails(n)
               \/ \E svc \in Services : RegisterServiceHandler(n, svc) \/ UnregisterServiceHandler(n, svc)
        PROVE  UNCHANGED <<running, rxTask, reas, late>>
    <3>1. CASE SendPacket(n)
      BY <3>1 DEF SendPacket, BeginSend
    <3>2. CASE SendChunk(n)
      BY <3>2 DEF SendChunk
    <3>3. CASE SendFails(n)
      BY <3>3 DEF SendFails, history
    <3>4. CASE \/ ClearDiscoveredTowers(n)
               \/ \E svc \in Services : RegisterServiceHandler(n, svc) \/ UnregisterServiceHandler(n, svc)
      BY <3>4 DEF ClearDiscoveredTowers, RegisterServiceHandler, UnregisterServiceHandler, history
    <3> QED
      BY <2>4, <3>1, <3>2, <3>3, <3>4
  <2>5. CASE SendTowerProbe(n)
    <3>1. running'[n]
      BY <1>1, <2>5 DEF SendTowerProbe
    <3> QED
      BY <1>1, <1>2, <2>5, <3>1 DEF SendTowerProbe, BeginSend, CreateRxTask
  <2> QED
    BY <1>3, <1>5, <2>1, <2>2, <2>3, <2>4, <2>5 DEF Operate
<1>6. ASSUME NEW n \in Node, RxTaskExit(n) PROVE StoppedInv'
  <2>1. /\ reas' = reas /\ late' = late /\ running' = running
        /\ rxTask[n] \in Nat /\ rxTask[n] > 0 /\ rxTask'[n] = rxTask[n] - 1
    BY <1>1, <1>6 DEF RxTaskExit, history
  <2>2. ~running'[n] => Few(n)'
    BY <2>1, FewStays DEF StoppedInv
  <2> QED
    BY <1>1, <1>2, <1>6, <2>2 DEF RxTaskExit, history
<1>7. ASSUME NEW n \in Node, NEW f \in air, Receive(n, f) PROVE StoppedInv'
  <2>1. /\ rxTask[n] > 0 /\ OnRawDataReceived(n, f) /\ running' = running /\ late' = late
        /\ rxTask' = IF running[n] THEN rxTask ELSE [rxTask EXCEPT ![n] = @ - 1]
    BY <1>7 DEF Receive
  <2>2. PICK r : /\ \A k \in Node \ {n} : reas'[k] = reas[k]
                 /\ reas'[n] \subseteq reas[n] \cup {r}
    BY <2>1, ReceiveAdds
  <2>3. ~running'[n] => Few(n)'
    BY <1>1, <2>1, <2>2, FewReceives DEF StoppedInv
  <2> QED
    BY <1>1, <1>2, <2>1, <2>2, <2>3
<1>8. ASSUME NEW n \in Node, Reboot(n) PROVE StoppedInv'
  <2>1. reas'[n] = {} /\ rxTask'[n] = 0 /\ late'[n] = 0
    BY <1>1, <1>8 DEF Reboot
  <2>2. Few(n)'
    BY <2>1, FS_EmptySet DEF Few
  <2> QED
    BY <1>1, <1>2, <1>8, <2>2 DEF Reboot
<1>9. CASE (\E f \in air : LoseFrame(f)) \/ Advance
  BY <1>3, <1>9 DEF LoseFrame, Advance, engine, history
<1> QED
  BY <1>4, <1>5, <1>6, <1>7, <1>8, <1>9 DEF Next, ReceiveTask

\* Of the frames that race a stop only those in the hands of the tasks late in it survive
\* it in the list, one for each, however many tasks stops and starts have piled up before
\* (MeshEngine::stop; stop, init and rxTaskLoop of the transport).
THEOREM StopClears == Spec => []StopLeavesOnlyLate
<1>1. Init => StoppedInv
  BY FS_EmptySet DEF Init, StoppedInv, Few
<1>2. StoppedInv => StopLeavesOnlyLate
  BY DEF StoppedInv, Few, StopLeavesOnlyLate
<1> QED
  BY <1>1, <1>2, TypeCorrect, StoppedStep, PTL DEF Spec
-----------------------------------------------------------------------------
(* The engine implements the datagrams *)

\* A step of sendPacket that numbers a message is a Send.
LEMMA BeginSendIsSend ==
  ASSUME TypeOK, NEW n \in Node, NEW m \in Message, m.src = n, NEW dst,
         BeginSend(n, m, dst), UNCHANGED <<inbox, boots>>
  PROVE  Datagram!Send(n)
<1>1. sent \in [Node -> Seq(Message)] /\ sent' = [sent EXCEPT ![n] = Append(@, m)]
  BY DEF BeginSend, TypeOK
<1>2. sent[n] \in Seq(Message) /\ sent'[n] = Append(sent[n], m)
  BY <1>1
<1>3. Len(sent'[n]) = Len(sent[n]) + 1 /\ sent'[n][Len(sent[n]) + 1] = m
  BY <1>2
<1> QED
  BY <1>1, <1>3 DEF Datagram!Send

\* A step of the receive task gives the handlers of its node one packet at most.
LEMMA ReceiveInbox ==
  ASSUME NEW n \in Node, NEW f \in air, Receive(n, f)
  PROVE  \/ inbox' = inbox
         \/ \E p : inbox' = [inbox EXCEPT ![n] = @ \cup {p}]
<1>1. ASSUME NEW src, NEW parts, ProcessCompletedPacket(n, src, parts)
      PROVE  inbox' = inbox \/ \E p : inbox' = [inbox EXCEPT ![n] = @ \cup {p}]
  BY <1>1 DEF ProcessCompletedPacket
<1>2. ASSUME NEW r, NEW old, Absorb(n, f, r, old)
      PROVE  inbox' = inbox \/ \E p : inbox' = [inbox EXCEPT ![n] = @ \cup {p}]
  BY <1>1, <1>2 DEF Absorb
<1>3. OnRawDataReceived(n, f)
  BY DEF Receive
<1>4. CASE ~WellFormed(f)
  BY <1>3, <1>4 DEF OnRawDataReceived
<1>5. CASE WellFormed(f) /\ f.msg.total = 1
  BY <1>1, <1>3, <1>5 DEF OnRawDataReceived
<1>6. CASE WellFormed(f) /\ f.msg.total # 1
  BY <1>2, <1>3, <1>6 DEF OnRawDataReceived, Overrun
<1> QED
  BY <1>4, <1>5, <1>6

\* What it gives them is a whole message of its source, or the promise has lapsed.
LEMMA ReceiveIsDeliver ==
  ASSUME TypeOK, TypeOK', ReassemblyCorrect, ReassemblyCorrect',
         NEW n \in Node, NEW f \in air, Receive(n, f)
  PROVE  Datagram!Deliver(n) \/ Datagram!Garble(n) \/ UNCHANGED Datagram!promised
<1>1. UNCHANGED <<sent, boots>>
  BY DEF Receive
<1>2. CASE inbox' = inbox
  BY <1>1, <1>2 DEF Datagram!promised
<1>3. ASSUME NEW p, inbox' = [inbox EXCEPT ![n] = @ \cup {p}]
      PROVE  Datagram!Deliver(n) \/ Datagram!Garble(n)
  <2>1. p \in inbox'[n]
    BY <1>3 DEF TypeOK
  <2>2. IsPacket(p)
    BY <2>1 DEF TypeOK
  <2>3. p.src \in Node /\ p.svc \in Service /\ p = [src |-> p.src, svc |-> p.svc, parts |-> p.parts]
    BY <2>2 DEF IsPacket
  <2>4. Reused(p.src) \/ \E q \in DOMAIN sent[p.src] : IsWhole(p, sent[p.src][q])
    BY <1>1, <2>1 DEF ReassemblyCorrect, WholePackets, Reused
  <2>5. CASE Reused(p.src)
    <3>1. Datagram!Lapsed(p.src)
      BY <2>5 DEF Reused, Datagram!Lapsed
    <3> QED
      BY <1>1, <1>3, <2>1, <2>3, <3>1 DEF Datagram!Garble
  <2>6. CASE ~Reused(p.src)
    <3>1. PICK q \in DOMAIN sent[p.src] : IsWhole(p, sent[p.src][q])
      BY <2>4, <2>6
    <3>2. sent[p.src][q].src = p.src
      BY <2>3, <2>6 DEF ReassemblyCorrect, CounterInv
    <3>3. p = Datagram!Packet(sent[p.src][q], p.svc)
      BY <2>3, <3>1, <3>2 DEF IsWhole, Datagram!Packet
    <3> QED
      BY <1>1, <1>3, <2>3, <3>1, <3>3 DEF Datagram!Deliver
  <2> QED
    BY <2>5, <2>6
<1> QED
  BY <1>2, <1>3, ReceiveInbox

\* Every step of the engine is a step of the datagrams or none.
LEMMA DatagramStep ==
  ASSUME TypeOK, TypeOK', ReassemblyCorrect, ReassemblyCorrect', [Next]_vars
  PROVE  [Datagram!Next]_(Datagram!promised)
<1>1. CASE UNCHANGED <<sent, inbox, boots>>
  BY <1>1 DEF Datagram!promised
<1>2. ASSUME NEW n \in Node, SendPacket(n)
      PROVE  Datagram!Send(n)
  <2>1. PICK svc \in Services, body \in Body, size \in Sizes, dstOnly \in Modes, dst \in Dests :
          BeginSend(n, Compose(n, svc, body, size, dstOnly), dst)
    BY <1>2 DEF SendPacket
  <2>2. svc \in Service /\ body \in Bodies /\ size \in Nat /\ dstOnly \in BOOLEAN
    BY MeshAssumption DEF MeshAssumption
  <2> QED
    BY <1>2, <2>1, <2>2, ComposeType, BeginSendIsSend DEF SendPacket
<1>3. ASSUME NEW n \in Node, SendTowerProbe(n)
      PROVE  Datagram!Send(n)
  <2>1. RoutingControl \in Service
    BY <1>3, MeshAssumption DEF SendTowerProbe, MeshAssumption
  <2>2. "text" \in Bodies /\ 1 \in Nat /\ TRUE \in BOOLEAN
    BY DEF Bodies
  <2> QED
    BY <1>3, <2>1, <2>2, ComposeType, BeginSendIsSend, ZenonT(40) DEF SendTowerProbe
<1>4. ASSUME NEW n \in Node, Operate(n)
      PROVE  Datagram!Send(n) \/ UNCHANGED <<sent, inbox, boots>>
  <2>1. CASE SendPacket(n) \/ SendTowerProbe(n)
    BY <1>2, <1>3, <2>1
  <2>2. CASE StartEngine(n) \/ StopEngine(n) \/ ClearDiscoveredTowers(n)
    BY <2>2 DEF StartEngine, StopEngine, ClearDiscoveredTowers, history
  <2>3. ASSUME NEW svc \in Services, RegisterServiceHandler(n, svc) \/ UnregisterServiceHandler(n, svc)
        PROVE  UNCHANGED <<sent, inbox, boots>>
    BY <2>3 DEF RegisterServiceHandler, UnregisterServiceHandler, history
  <2>4. CASE SendChunk(n) \/ SendFails(n) \/ Tick(n)
    BY <2>4 DEF SendChunk, SendFails, Tick, history
  <2> QED
    BY <1>4, <2>1, <2>2, <2>3, <2>4 DEF Operate
<1>5. ASSUME NEW n \in Node, ReceiveTask(n)
      PROVE  [Datagram!Next]_(Datagram!promised)
  <2>1. CASE RxTaskExit(n)
    BY <1>1, <2>1 DEF RxTaskExit, history
  <2>2. ASSUME NEW f \in air, Receive(n, f) PROVE [Datagram!Next]_(Datagram!promised)
    BY <2>2, ReceiveIsDeliver DEF Datagram!Next
  <2> QED
    BY <1>5, <2>1, <2>2 DEF ReceiveTask
<1>6. ASSUME NEW n \in Node, Reboot(n)
      PROVE  Datagram!Restart(n)
  BY <1>6 DEF Reboot, Datagram!Restart
<1>7. ASSUME NEW n \in Node, Operate(n)
      PROVE  [Datagram!Next]_(Datagram!promised)
  BY <1>1, <1>4, <1>7 DEF Datagram!Next
<1>8. ASSUME NEW n \in Node, Reboot(n)
      PROVE  [Datagram!Next]_(Datagram!promised)
  BY <1>6, <1>8 DEF Datagram!Next
<1>9. CASE Advance \/ \E f \in air : LoseFrame(f)
  BY <1>1, <1>9 DEF Advance, LoseFrame, history
<1>10. CASE UNCHANGED vars
  BY <1>1, <1>10 DEF vars, history
<1> QED
  BY <1>5, <1>7, <1>8, <1>9, <1>10 DEF Next

\* The engine keeps the promise of MeshDatagram for every number of nodes, every
\* length, every width of the ids and whatever happens to the frames on the air:
\* its programs see datagrams.
THEOREM EngineImplementsDatagram == Spec => DatagramPromise
<1>1. Init => Datagram!Init
  BY DEF Init, Datagram!Init
<1>2. /\ TypeOK /\ TypeOK' /\ ReassemblyCorrect /\ ReassemblyCorrect' /\ [Next]_vars
      => [Datagram!Next]_(Datagram!promised)
  BY DatagramStep
<1> QED
  BY <1>1, <1>2, TypeCorrect, ReassemblyIsCorrect, PTL DEF Spec, DatagramPromise, Datagram!Spec
=============================================================================
