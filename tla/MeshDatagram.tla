---------------------------- MODULE MeshDatagram ----------------------------
(***************************************************************************)
(* What the mesh promises its programs: datagrams.  A node sends messages; *)
(* another is given, once or more often, in any order or never, exactly    *)
(* what was sent, cut into as many parts as the message says.  The promise *)
(* lapses for a source that has used a message id twice: after a restart,  *)
(* or when the ids have come round.                                        *)
(*                                                                         *)
(* MeshEngine implements it; chunks, reassemblies and the air are its      *)
(* means and do not appear here.                                           *)
(***************************************************************************)
EXTENDS Naturals, Sequences

CONSTANTS
  Node,     \* the nodes
  Service,  \* the services a packet may be handed to
  Message,  \* what can be sent
  IdSpace   \* so many messages have ids of their own

VARIABLES
  sent,   \* the messages each node has sent since it started
  inbox,  \* the packets each node's handlers have been given since it started
  boots   \* how often each node has restarted

promised == <<sent, inbox, boots>>
-----------------------------------------------------------------------------
Lapsed(s) == boots[s] > 0 \/ Len(sent[s]) > IdSpace

\* m as a handler of svc is given it: all its parts, each at its place.
Packet(m, svc) ==
  [src |-> m.src, svc |-> svc, parts |-> [i \in 0..(m.total - 1) |-> [msg |-> m, idx |-> i]]]

Init ==
  /\ sent = [n \in Node |-> <<>>] /\ inbox = [n \in Node |-> {}]
  /\ boots = [n \in Node |-> 0]

Send(n) ==
  /\ Len(sent'[n]) = Len(sent[n]) + 1
  /\ LET m == sent'[n][Len(sent[n]) + 1]
     IN m \in Message /\ m.src = n /\ sent' = [sent EXCEPT ![n] = Append(@, m)]
  /\ UNCHANGED <<inbox, boots>>

Deliver(n) ==
  /\ \E s \in Node, svc \in Service : \E q \in DOMAIN sent[s] :
       inbox' = [inbox EXCEPT ![n] = @ \cup {Packet(sent[s][q], svc)}]
  /\ UNCHANGED <<sent, boots>>

\* No promise is kept: n is given something else under the name of s.
Garble(n) ==
  /\ \E s \in Node : Lapsed(s) /\ \E p \in inbox'[n] :
       p.src = s /\ inbox' = [inbox EXCEPT ![n] = @ \cup {p}]
  /\ UNCHANGED <<sent, boots>>

Restart(n) ==
  /\ sent' = [sent EXCEPT ![n] = <<>>] /\ inbox' = [inbox EXCEPT ![n] = {}]
  /\ boots' = [boots EXCEPT ![n] = @ + 1]

Next == \E n \in Node : Send(n) \/ Deliver(n) \/ Garble(n) \/ Restart(n)

Spec == Init /\ [][Next]_promised
=============================================================================
