------------------------------- MODULE Frames -------------------------------
(***************************************************************************)
(* The bytes of a frame: how thermit.c lays them out and takes them apart, *)
(* and the CRC of crc.c over them.                                         *)
(***************************************************************************)
EXTENDS Integers, Sequences
LOCAL INSTANCE SequencesExt

Byte == 0..255

PayloadSize   == 60                            \* THERMIT_PAYLOAD_SIZE
MsgSizeMax    == 68                            \* THERMIT_MSG_SIZE_MAX
PayloadOffset == 6                             \* the header with the length
ExpectedLength(plLen) == plLen + PayloadOffset + 2

(* The five header bytes before the length, and the payload. *)
Packet == [header : [1..5 -> Byte], payload : Seq(Byte)]

-----------------------------------------------------------------------------
FlipBit(x, power) == IF (x \div power) % 2 = 1 THEN x - power ELSE x + power

(* One turn of the loop: a bit is shifted in, and when one falls out of the *)
(* sixteen the polynomial 0x8005 (bits 15, 2 and 0) is subtracted.          *)
ShiftIn(out, bit) ==
  LET turn == [o \in 0..65535 |->
                 LET shifted == (2 * o + bit) % 65536
                 IN IF o >= 32768
                    THEN FlipBit(FlipBit(FlipBit(shifted, 32768), 4), 1)
                    ELSE shifted]
  IN turn[out]

BitValues == <<128, 64, 32, 16, 8, 4, 2, 1>>

ByteIn(out, byte) ==
  FoldLeft(LAMBDA o, value : ShiftIn(o, (byte \div value) % 2), out, BitValues)

Crc16(data) == FoldLeft(LAMBDA out, byte : ByteIn(out, byte), 0, data)

-----------------------------------------------------------------------------
(* msgPutU16: the low byte first. *)
U16Bytes(value) == <<value % 256, value \div 256>>

(* framePrepare and frameFinalize. *)
FrameBytes(pkt) ==
  LET covered == pkt.header \o <<Len(pkt.payload)>> \o pkt.payload
  IN covered \o U16Bytes(Crc16(covered))

(* Mutant: the CRC is taken for right. *)
IsWholeFrameByLength(raw) ==
  /\ Len(raw) \in 1..MsgSizeMax
  /\ raw[PayloadOffset] <= PayloadSize
  /\ ExpectedLength(raw[PayloadOffset]) = Len(raw)

(* What parsePacketContent accepts. *)
IsWholeFrame(raw) ==
  /\ Len(raw) \in 1..MsgSizeMax
  /\ LET plLen   == raw[PayloadOffset]
         covered == PayloadOffset + plLen
     IN /\ plLen <= PayloadSize
        /\ ExpectedLength(plLen) = Len(raw)
        /\ U16Bytes(Crc16(SubSeq(raw, 1, covered))) = SubSeq(raw, covered + 1, covered + 2)

(* Mutant: the payload is taken to begin with its length. *)
ParsePacketContentFromLength(raw) ==
  [header  |-> SubSeq(raw, 1, 5),
   payload |-> SubSeq(raw, PayloadOffset, PayloadOffset + raw[PayloadOffset] - 1)]

ParsePacketContent(raw) ==
  [header  |-> SubSeq(raw, 1, 5),
   payload |-> SubSeq(raw, PayloadOffset + 1, PayloadOffset + raw[PayloadOffset])]
=============================================================================
