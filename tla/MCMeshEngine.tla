---------------------------- MODULE MCMeshEngine ----------------------------
(***************************************************************************)
(* Instances of MeshEngine for TLC: two senders and a listener, a pair of  *)
(* nodes, and the values of the constants that are functions.              *)
(***************************************************************************)
EXTENDS MeshEngine

CONSTANTS a, b, c

Trio == {a, b, c}
Pair == {a, b}

TrioShort == [n \in Trio |-> IF n = a THEN 1 ELSE IF n = b THEN 2 ELSE 3]
PairShort == [n \in Pair |-> IF n = a THEN 1 ELSE 2]

\* a and b each send one packet, or a alone sends one, two or three.
OneEach == [n \in Trio |-> IF n = c THEN 0 ELSE 1]
OneFromA == [n \in Pair |-> IF n = a THEN 1 ELSE 0]
TwoFromA == [n \in Pair |-> IF n = a THEN 2 ELSE 0]
ThreeFromA == [n \in Pair |-> IF n = a THEN 3 ELSE 0]

ToAll == {Broadcast}
ToAllOrB == {Broadcast, 2}
=============================================================================
