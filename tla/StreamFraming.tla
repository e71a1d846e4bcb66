--------------------------- MODULE StreamFraming ---------------------------
(***************************************************************************)
(* The state machine of streamFraming.c: finds frames in a stream of bytes *)
(*    A5 A5 | header (5) | length | payload and CRC (length + 2) | 5A 5A   *)
(* and keeps what is between start and stop characters.                    *)
(***************************************************************************)
EXTENDS Integers, Sequences

START_CHAR == 165                \* 0xA5
STOP_CHAR  == 90                 \* 0x5A
BufSize == 128                   \* streamFraming_t.buf

(* Mutant: every length is believed. *)
AnyPayloadLength == 256
THERMIT_MAX_PAYLOAD_LENGTH == 112

(* "UNDEFINED" stands for whatever follows a write behind the buffer, where *)
(* the machine's own length and state are kept: nothing is said of it.      *)
FramingState == {"START", "HEADER", "LEN", "PAYLOAD_AND_CRC", "STOP", "FINISHED", "UNDEFINED"}

(* len is the length of buf; isReady is the state FINISHED. *)
Framing ==
  {f \in [state : FramingState, roundsLeft : 0..255, buf : Seq(0..255)] :
     Len(f.buf) <= BufSize}

StreamFramingInitialize == [state |-> "START", roundsLeft |-> 2, buf |-> <<>>]

IsReady(frame) == frame.state = "FINISHED"

-----------------------------------------------------------------------------
(* One of the rounds of a state is done; the last one leads to the next     *)
(* state.  The count has eight bits.                                        *)
RoundDone(frame, next, rounds) ==
  IF frame.roundsLeft = 1
  THEN [frame EXCEPT !.state = next, !.roundsLeft = rounds]
  ELSE [frame EXCEPT !.roundsLeft = (@ - 1) % 256]

(* Mutant: the length of the buffer is off by one. *)
StoredOneMore(frame, byte) ==
  IF Len(frame.buf) <= BufSize
  THEN [frame EXCEPT !.buf = Append(@, byte)]
  ELSE [state |-> "UNDEFINED", roundsLeft |-> 0, buf |-> <<>>]

(* The byte is kept; there is no check of the room in the buffer. *)
Stored(frame, byte) ==
  IF Len(frame.buf) < BufSize
  THEN [frame EXCEPT !.buf = Append(@, byte)]
  ELSE [state |-> "UNDEFINED", roundsLeft |-> 0, buf |-> <<>>]

(* Mutant: one byte too many is taken for payload and CRC. *)
AfterLengthOneMore(byte) == byte + 3

(* Payload and CRC. *)
AfterLength(byte) == byte + 2

(* Anything but the expected start or stop character: listen from the start *)
(* again.  The byte itself is gone, be it a start character or not.         *)
WrongByte(frame) == StreamFramingInitialize

(* streamFramingFollow.  A length of 112 or more leaves the machine in LEN  *)
(* with no round left, so that the count wraps at the next byte.            *)
StreamFramingFollow(frame, byte) ==
  CASE frame.state = "START" ->
         IF byte = START_CHAR THEN RoundDone(frame, "HEADER", 5) ELSE WrongByte(frame)
    [] frame.state = "HEADER" ->
         RoundDone(Stored(frame, byte), "LEN", 1)
    [] frame.state = "LEN" /\ byte < THERMIT_MAX_PAYLOAD_LENGTH ->
         RoundDone(Stored(frame, byte), "PAYLOAD_AND_CRC", AfterLength(byte))
    [] frame.state = "LEN" /\ byte >= THERMIT_MAX_PAYLOAD_LENGTH ->
         RoundDone(Stored(frame, byte), "LEN", 0)
    [] frame.state = "PAYLOAD_AND_CRC" ->
         RoundDone(Stored(frame, byte), "STOP", 2)
    [] frame.state = "STOP" ->
         IF byte = STOP_CHAR THEN RoundDone(frame, "FINISHED", 0) ELSE WrongByte(frame)
    [] OTHER -> frame

-----------------------------------------------------------------------------
(***************************************************************************)
(* What has been collected is one frame as its length byte says: until the *)
(* machine finds a frame finished it has stored a header, the length, and  *)
(* as much of payload and CRC as the length allows, and the rounds left    *)
(* are what is missing.  Only a length of 112 or more breaks this          *)
(* (streamFraming.c 60-86).                                                *)
(***************************************************************************)
CollectsOneFrame(frame) ==
  LET collected == Len(frame.buf)
      whole     == frame.buf[6] + 8
  IN CASE frame.state = "START"  -> collected = 0 /\ frame.roundsLeft \in 1..2
       [] frame.state = "HEADER" -> collected + frame.roundsLeft = 5 /\ frame.roundsLeft > 0
       [] frame.state = "LEN"    ->
            \/ collected = 5 /\ frame.roundsLeft = 1
            \/ /\ collected > 5 /\ (collected + frame.roundsLeft) % 256 = 6
               /\ frame.buf[6] >= THERMIT_MAX_PAYLOAD_LENGTH
       [] frame.state = "PAYLOAD_AND_CRC" ->
            /\ collected > 5 /\ frame.roundsLeft > 0
            /\ collected + frame.roundsLeft = whole
       [] frame.state = "STOP"     -> collected > 5 /\ collected = whole /\ frame.roundsLeft \in 1..2
       [] frame.state = "FINISHED" -> collected > 5 /\ collected = whole
       [] OTHER -> TRUE
=============================================================================
