---------------------------- MODULE MCPacketStream ----------------------------
(* The instances of PacketStream that TLC checks.                             *)
EXTENDS PacketStream
=============================================================================
