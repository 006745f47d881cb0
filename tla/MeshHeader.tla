----------------------------- MODULE MeshHeader -----------------------------
(***************************************************************************)
(* The mesh header of a packet (core/src/tlv/mesh_header.cpp and           *)
(* core/include/cbdos/mesh/mesh_types.hpp).  The control byte holds the    *)
(* service in its low nibble and the layout flags above it; the DST_ONLY   *)
(* flag is bit 3, so it lies inside the nibble.                            *)
(***************************************************************************)
EXTENDS Naturals

CONSTANT Broadcast  \* the destination id that stands for everybody (0xFFFF)

Service == 0..15

Chat            == 1
FileTransfer    == 2
SensorTelemetry == 3
WebProxy        == 5
TlvglRequest    == 7
TlvglResponse   == 8
RoutingControl  == 15

CTRL_DST_ONLY   == 8
CTRL_SHORT_ID   == 16

\* A short id nobody may own: 0 is "unknown", Broadcast is "everybody".
ReservedIds == {0, Broadcast}

-----------------------------------------------------------------------------
\* Bit-or of the DST_ONLY flag into a control byte.
SetDstOnly(control) ==
  IF (control \div CTRL_DST_ONLY) % 2 = 1 THEN control ELSE control + CTRL_DST_ONLY

\* The control byte sendPacket composes from a service and its dst_only argument.
ControlByte(svc, dstOnly) ==
  IF dstOnly THEN SetDstOnly(svc) ELSE svc + CTRL_SHORT_ID

\* What the receiver takes for the service: the low nibble of the control byte.
ServiceOf(control) == control % 16

\* Both builder and parser choose the 3-byte layout, which carries no source,
\* by bit 3 of the control byte alone.
IsDstOnly(control) == (control \div CTRL_DST_ONLY) % 2 = 1

\* The source id a parsed header yields: the 3-byte layout leaves it zero.
SourceId(control, shortId) == IF IsDstOnly(control) THEN 0 ELSE shortId
=============================================================================
