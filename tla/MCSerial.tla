------------------------------ MODULE MCSerial ------------------------------
(* A small instance of SerialLine: what two ends say to each other. *)
EXTENDS SerialLine

Packet0(fCode, recFileId, recFeedback, sndFileId, sndChunkNo, data) ==
  [header  |-> <<fCode, recFileId, recFeedback, sndFileId, sndChunkNo>>, payload |-> data]

(* DATA_TRANSFER without and with a chunk, SYNC_ACK. *)
IdleData  == Packet0(4, 0, 255, 0, 0, <<>>)
Chunk     == Packet0(4, 0, 255, 1, 0, <<START_CHAR, 65>>)
LastChunk == Packet0(4, 1, 1, 1, START_CHAR, <<STOP_CHAR>>)
Ack       == Packet0(3, 0, 0, 0, 0, <<>>)

(* The idle frame alone, and a mixture in which start and stop characters   *)
(* are part of the frames.                                                  *)
IdleTraffic  == <<IdleData>>
MixedTraffic == <<IdleData, Chunk, IdleData, Ack, Chunk, LastChunk>>

ASSUME TrafficIsSingleStart == NoDoubleStart

-----------------------------------------------------------------------------
(* The frame on the wire is under way until its last byte is read. *)
Channel == INSTANCE LossyChannel WITH
  Packets <- {Traffic[i] : i \in DOMAIN Traffic},
  queue   <- IF wire = <<>> \/ harm = "cut" THEN <<>> ELSE <<Traffic[last]>>

(***************************************************************************)
(* The line with its framing and its CRC is what the endpoints take it for *)
(* (link, Reads and LoseFrame of module Thermit): whatever noise does, a   *)
(* packet is handed over as it was sent, once, and when its last byte is   *)
(* read, or not at all (ioLinux.c 351-396, thermit.c 664-708).             *)
(***************************************************************************)
IsALossyChannel == Channel!Spec
=============================================================================
