--------------------------- MODULE FramingProofs ---------------------------
(***************************************************************************)
(* Theorems about what the framing collects, for every traffic and every   *)
(* noise.                                                                  *)
(***************************************************************************)
EXTENDS SerialLine, SequenceTheorems, TLAPS

-----------------------------------------------------------------------------
(* What has been collected, and its length byte.                           *)
Size(frame)       == Len(frame.buf)
LengthByte(frame) == frame.buf[6]

(***************************************************************************)
(* The invariant of the framing.  A length is believed only below the      *)
(* limit, and while it is not the machine counts further than its buffer   *)
(* reaches; the first of these keeps payload and CRC within the buffer.    *)
(***************************************************************************)
Collecting(frame) ==
  /\ frame \in Framing
  /\ CollectsOneFrame(frame)
  /\ frame.state = "PAYLOAD_AND_CRC" => LengthByte(frame) < THERMIT_MAX_PAYLOAD_LENGTH

LEMMA FramingFields ==
  ASSUME NEW frame \in Framing
  PROVE  /\ frame.state \in FramingState
         /\ frame.roundsLeft \in 0..255
         /\ Size(frame) \in Nat /\ Size(frame) <= 128
         /\ Size(frame) > 5 => LengthByte(frame) \in 0..255
<1>1. frame \in [state : FramingState, roundsLeft : 0..255, buf : Seq(0..255)]
      /\ Len(frame.buf) <= BufSize
  BY DEF Framing
<1>2. Size(frame) \in Nat
  BY <1>1, LenProperties DEF Size
<1>3. Size(frame) <= 128
  BY <1>1 DEF BufSize, Size
<1>4. ASSUME Size(frame) > 5 PROVE LengthByte(frame) \in 0..255
  <2>1. 6 \in 1 .. Size(frame)
    BY <1>2, <1>4
  <2> QED
    BY <1>1, <2>1, ElementOfSeq DEF Size, LengthByte
<1> QED
  BY <1>1, <1>2, <1>3, <1>4

(* What the end of a round does to the fields of the record. *)
CountsDown(frame, next, rounds, done) ==
  /\ done \in Framing
  /\ done.buf = frame.buf
  /\ frame.roundsLeft = 1 => done.state = next /\ done.roundsLeft = rounds
  /\ frame.roundsLeft # 1 => done.state = frame.state
  /\ frame.roundsLeft > 1 => done.roundsLeft = frame.roundsLeft - 1
  /\ frame.roundsLeft = 0 => done.roundsLeft = 255

LEMMA RoundDoneFields ==
  ASSUME NEW frame \in Framing, NEW next \in FramingState, NEW rounds \in 0..255
  PROVE  CountsDown(frame, next, rounds, RoundDone(frame, next, rounds))
<1>1. frame \in [state : FramingState, roundsLeft : 0..255, buf : Seq(0..255)]
      /\ Len(frame.buf) <= BufSize
  BY DEF Framing
<1>2. CASE frame.roundsLeft = 1
  <2>1. RoundDone(frame, next, rounds) = [frame EXCEPT !.state = next, !.roundsLeft = rounds]
    BY <1>2 DEF RoundDone
  <2>2. RoundDone(frame, next, rounds) \in Framing
    BY <1>1, <2>1 DEF Framing
  <2> QED
    BY <1>1, <1>2, <2>1, <2>2 DEF CountsDown
<1>3. CASE frame.roundsLeft # 1
  <2> DEFINE left == (frame.roundsLeft - 1) % 256
  <2>1. RoundDone(frame, next, rounds) = [frame EXCEPT !.roundsLeft = left]
    BY <1>3 DEF RoundDone
  <2>2. ASSUME NEW n \in 0..255, NEW m, m = (n - 1) % 256
        PROVE  /\ m \in 0..255
               /\ n > 1 => m = n - 1
               /\ n = 0 => m = 255
    BY <2>2
  <2>3. frame.roundsLeft \in 0..255
    BY <1>1
  <2>4. /\ left \in 0..255
        /\ frame.roundsLeft > 1 => left = frame.roundsLeft - 1
        /\ frame.roundsLeft = 0 => left = 255
    BY <2>2, <2>3
  <2> HIDE DEF left
  <2>5. RoundDone(frame, next, rounds) \in Framing
    BY <1>1, <2>1, <2>4 DEF Framing
  <2> QED
    BY <1>1, <1>3, <2>1, <2>4, <2>5 DEF CountsDown
<1> QED
  BY <1>2, <1>3

LEMMA StatesAndRounds ==
  {"HEADER", "LEN", "PAYLOAD_AND_CRC", "STOP", "FINISHED"} \subseteq FramingState
  /\ {0, 1, 2, 5} \subseteq 0..255
BY DEF FramingState

LEMMA StoredFields ==
  ASSUME NEW frame \in Framing, NEW byte \in 0..255, Size(frame) < 128
  PROVE  /\ Stored(frame, byte) \in Framing
         /\ Stored(frame, byte).state = frame.state
         /\ Stored(frame, byte).roundsLeft = frame.roundsLeft
         /\ Size(Stored(frame, byte)) = Size(frame) + 1
         /\ Size(frame) > 5 => LengthByte(Stored(frame, byte)) = LengthByte(frame)
         /\ Size(frame) = 5 => LengthByte(Stored(frame, byte)) = byte
<1> DEFINE longer == Append(frame.buf, byte)
<1>1. frame \in [state : FramingState, roundsLeft : 0..255, buf : Seq(0..255)]
  BY DEF Framing
<1>2. Stored(frame, byte) = [frame EXCEPT !.buf = longer]
  BY DEF Stored, Size, BufSize
<1>3. /\ longer \in Seq(0..255)
      /\ Len(longer) = Size(frame) + 1
      /\ \A i \in 1 .. Size(frame) : longer[i] = frame.buf[i]
      /\ longer[Size(frame) + 1] = byte
  BY <1>1, AppendProperties DEF Size
<1>4. Size(frame) \in Nat
  BY FramingFields
<1>5. /\ Size(frame) > 5 => longer[6] = LengthByte(frame)
      /\ Size(frame) = 5 => longer[6] = byte
  <2>1. Size(frame) > 5 => 6 \in 1 .. Size(frame)
    BY <1>4
  <2>2. Size(frame) = 5 => Size(frame) + 1 = 6
    OBVIOUS
  <2> HIDE DEF longer
  <2> QED
    BY <1>3, <2>1, <2>2 DEF LengthByte
<1>6. Size(frame) + 1 <= BufSize
  BY <1>4 DEF BufSize
<1> HIDE DEF longer
<1>7. Stored(frame, byte) \in Framing
  BY <1>1, <1>2, <1>3, <1>6 DEF Framing
<1> QED
  BY <1>1, <1>2, <1>3, <1>5, <1>7 DEF Size, LengthByte

LEMMA StoredBehind ==
  ASSUME NEW frame \in Framing, NEW byte, ~(Size(frame) < 128)
  PROVE  Stored(frame, byte) \in Framing /\ Stored(frame, byte).state = "UNDEFINED"
                                         /\ Stored(frame, byte).roundsLeft = 0
<1>1. Stored(frame, byte) = [state |-> "UNDEFINED", roundsLeft |-> 0, buf |-> <<>>]
  BY DEF Stored, Size, BufSize
<1>2. <<>> \in Seq(0..255) /\ Len(<<>>) = 0
  BY EmptySeq
<1> QED
  BY <1>1, <1>2 DEF Framing, FramingState, BufSize

LEMMA InitialFraming == Collecting(StreamFramingInitialize)
<1>1. <<>> \in Seq(0..255) /\ Len(<<>>) = 0
  BY EmptySeq
<1> QED
  BY <1>1 DEF StreamFramingInitialize, Framing, FramingState, BufSize, CollectsOneFrame,
              Collecting

(* The invariant of the properties, state by state. *)
LEMMA CollectedByState ==
  ASSUME NEW frame
  PROVE  /\ frame.state = "START" =>
              (CollectsOneFrame(frame) <=> Size(frame) = 0 /\ frame.roundsLeft \in 1..2)
         /\ frame.state = "HEADER" =>
              (CollectsOneFrame(frame) <=>
                 Size(frame) + frame.roundsLeft = 5 /\ frame.roundsLeft > 0)
         /\ frame.state = "LEN" =>
              (CollectsOneFrame(frame) <=>
                 \/ Size(frame) = 5 /\ frame.roundsLeft = 1
                 \/ /\ Size(frame) > 5 /\ (Size(frame) + frame.roundsLeft) % 256 = 6
                    /\ LengthByte(frame) >= THERMIT_MAX_PAYLOAD_LENGTH)
         /\ frame.state = "PAYLOAD_AND_CRC" =>
              (CollectsOneFrame(frame) <=>
                 /\ Size(frame) > 5 /\ frame.roundsLeft > 0
                 /\ Size(frame) + frame.roundsLeft = LengthByte(frame) + 8)
         /\ frame.state = "STOP" =>
              (CollectsOneFrame(frame) <=>
                 /\ Size(frame) > 5 /\ Size(frame) = LengthByte(frame) + 8
                 /\ frame.roundsLeft \in 1..2)
         /\ frame.state = "FINISHED" =>
              (CollectsOneFrame(frame) <=>
                 Size(frame) > 5 /\ Size(frame) = LengthByte(frame) + 8)
         /\ frame.state = "UNDEFINED" => CollectsOneFrame(frame)
BY DEF CollectsOneFrame, Size, LengthByte

-----------------------------------------------------------------------------
(* One byte, state by state.  Follows says what is proved of it: what is    *)
(* collected stays the beginning of one frame, and the buffer is run over   *)
(* only behind a length that is too long.                                   *)
Follows(frame, next) ==
  /\ Collecting(next)
  /\ frame.state # "UNDEFINED" /\ next.state = "UNDEFINED" =>
       frame.state = "LEN" /\ LengthByte(frame) >= THERMIT_MAX_PAYLOAD_LENGTH

LEMMA FollowStart ==
  ASSUME NEW frame, Collecting(frame), NEW byte \in 0..255, frame.state = "START"
  PROVE  Follows(frame, StreamFramingFollow(frame, byte))
<1> DEFINE next == StreamFramingFollow(frame, byte)
<1> SUFFICES Follows(frame, next)
  OBVIOUS
<1>1. frame \in Framing
  BY DEF Collecting
<1>2. CASE byte = START_CHAR
  <2>1. next = RoundDone(frame, "HEADER", 5)
    BY <1>2 DEF StreamFramingFollow
  <2>2. Size(frame) = 0 /\ frame.roundsLeft \in 1..2
    BY CollectedByState DEF Collecting
  <2> HIDE DEF next
  <2>3. CountsDown(frame, "HEADER", 5, next)
    BY <1>1, <2>1, RoundDoneFields, StatesAndRounds
  <2>4. Size(next) = 0
    BY <2>2, <2>3 DEF Size, CountsDown
  <2>5. CollectsOneFrame(next) /\ next.state \in {"START", "HEADER"}
    BY <2>2, <2>3, <2>4, CollectedByState DEF CountsDown
  <2> QED
    BY <2>3, <2>5 DEF Follows, Collecting, CountsDown
<1>3. CASE byte # START_CHAR
  <2>1. next = StreamFramingInitialize
    BY <1>3 DEF StreamFramingFollow, WrongByte
  <2> QED
    BY <2>1, InitialFraming DEF Follows, StreamFramingInitialize
<1> QED
  BY <1>2, <1>3

LEMMA FollowHeader ==
  ASSUME NEW frame, Collecting(frame), NEW byte \in 0..255, frame.state = "HEADER"
  PROVE  Follows(frame, StreamFramingFollow(frame, byte))
<1> DEFINE stored == Stored(frame, byte)
           next   == StreamFramingFollow(frame, byte)
<1> SUFFICES Follows(frame, next)
  OBVIOUS
<1>1. frame \in Framing
  BY DEF Collecting
<1>2. next = RoundDone(stored, "LEN", 1)
  BY DEF StreamFramingFollow
<1>3. Size(frame) + frame.roundsLeft = 5 /\ frame.roundsLeft > 0
  BY CollectedByState DEF Collecting
<1>4. Size(frame) \in Nat /\ frame.roundsLeft \in Nat
  BY <1>1, FramingFields
<1>5. Size(frame) < 128
  BY <1>3, <1>4
<1>6. /\ stored \in Framing /\ stored.state = "HEADER"
      /\ stored.roundsLeft = frame.roundsLeft
      /\ Size(stored) = Size(frame) + 1
  BY <1>1, <1>5, StoredFields
<1> HIDE DEF stored
<1> HIDE DEF next
<1>7. CountsDown(stored, "LEN", 1, next)
  BY <1>2, <1>6, RoundDoneFields, StatesAndRounds
<1>8. Size(next) = Size(frame) + 1
  BY <1>6, <1>7 DEF Size, CountsDown
<1>9. CollectsOneFrame(next)
  BY <1>3, <1>4, <1>6, <1>7, <1>8, CollectedByState DEF CountsDown
<1>10. next.state \in {"LEN", "HEADER"}
  BY <1>6, <1>7 DEF CountsDown
<1> QED
  BY <1>7, <1>9, <1>10 DEF Follows, Collecting, CountsDown

LEMMA FollowLength ==
  ASSUME NEW frame, Collecting(frame), NEW byte \in 0..255,
         frame.state = "LEN", Size(frame) = 5, frame.roundsLeft = 1
  PROVE  Follows(frame, StreamFramingFollow(frame, byte))
<1> DEFINE stored == Stored(frame, byte)
           next   == StreamFramingFollow(frame, byte)
<1> SUFFICES Follows(frame, next)
  OBVIOUS
<1>1. frame \in Framing
  BY DEF Collecting
<1>2. /\ stored \in Framing /\ stored.state = "LEN" /\ stored.roundsLeft = 1
      /\ Size(stored) = 6 /\ LengthByte(stored) = byte
  <2>1. Size(frame) < 128 /\ Size(frame) + 1 = 6
    OBVIOUS
  <2> QED
    BY <1>1, <2>1, StoredFields
<1>3. CASE byte < THERMIT_MAX_PAYLOAD_LENGTH
  <2>1. next = RoundDone(stored, "PAYLOAD_AND_CRC", byte + 2)
    BY <1>3 DEF StreamFramingFollow, AfterLength, THERMIT_MAX_PAYLOAD_LENGTH
  <2>2. byte + 2 \in 0..255
    BY <1>3 DEF THERMIT_MAX_PAYLOAD_LENGTH
  <2> HIDE DEF stored
  <2> HIDE DEF next
  <2>3. CountsDown(stored, "PAYLOAD_AND_CRC", byte + 2, next)
    BY <1>2, <2>1, <2>2, RoundDoneFields, StatesAndRounds
  <2>4. Size(next) = 6 /\ LengthByte(next) = byte
    BY <1>2, <2>3 DEF Size, LengthByte, CountsDown
  <2>5. CollectsOneFrame(next) /\ next.state = "PAYLOAD_AND_CRC"
    BY <1>2, <2>3, <2>4, CollectedByState DEF CountsDown
  <2> QED
    BY <1>3, <2>3, <2>4, <2>5 DEF Follows, Collecting, CountsDown
<1>4. CASE byte >= THERMIT_MAX_PAYLOAD_LENGTH
  <2>1. next = RoundDone(stored, "LEN", 0)
    BY <1>4 DEF StreamFramingFollow, THERMIT_MAX_PAYLOAD_LENGTH
  <2> HIDE DEF stored
  <2> HIDE DEF next
  <2>2. CountsDown(stored, "LEN", 0, next)
    BY <1>2, <2>1, RoundDoneFields, StatesAndRounds
  <2>3. Size(next) = 6 /\ LengthByte(next) = byte
    BY <1>2, <2>2 DEF Size, LengthByte, CountsDown
  <2>4. CollectsOneFrame(next) /\ next.state = "LEN"
    BY <1>2, <1>4, <2>2, <2>3, CollectedByState DEF CountsDown
  <2> QED
    BY <2>2, <2>4 DEF Follows, Collecting, CountsDown
<1> QED
  BY <1>3, <1>4 DEF THERMIT_MAX_PAYLOAD_LENGTH

(* Behind a length that is not believed the machine stays where it is: the *)
(* count has wrapped, and what it counts to lies behind the buffer.        *)
LEMMA CountsPastTheBuffer ==
  ASSUME NEW size \in Nat, size > 5, size <= 128, NEW rounds \in 0..255,
         (size + rounds) % 256 = 6
  PROVE  /\ rounds # 1
         /\ rounds > 1 => (size + 1 + (rounds - 1)) % 256 = 6
         /\ rounds = 0 => (size + 1 + 255) % 256 = 6
         /\ rounds > 1 \/ rounds = 0
<1>1. size + rounds = 6 \/ size + rounds = 262
  OBVIOUS
<1> QED
  BY <1>1

LEMMA FollowLongLength ==
  ASSUME NEW frame, Collecting(frame), NEW byte \in 0..255,
         frame.state = "LEN", ~(Size(frame) = 5 /\ frame.roundsLeft = 1)
  PROVE  Follows(frame, StreamFramingFollow(frame, byte))
<1> DEFINE stored == Stored(frame, byte)
           next   == StreamFramingFollow(frame, byte)
<1> SUFFICES Follows(frame, next)
  OBVIOUS
<1>1. frame \in Framing
  BY DEF Collecting
<1>2. /\ Size(frame) > 5 /\ (Size(frame) + frame.roundsLeft) % 256 = 6
      /\ LengthByte(frame) >= THERMIT_MAX_PAYLOAD_LENGTH
  BY CollectedByState DEF Collecting
<1>3. Size(frame) \in Nat /\ Size(frame) <= 128 /\ frame.roundsLeft \in 0..255
  BY <1>1, FramingFields
<1>4. /\ frame.roundsLeft # 1
      /\ frame.roundsLeft > 1 => (Size(frame) + 1 + (frame.roundsLeft - 1)) % 256 = 6
      /\ frame.roundsLeft = 0 => (Size(frame) + 1 + 255) % 256 = 6
      /\ frame.roundsLeft > 1 \/ frame.roundsLeft = 0
  BY <1>2, <1>3, CountsPastTheBuffer
<1>5. PICK after \in FramingState, rounds \in 0..255 : next = RoundDone(stored, after, rounds)
  <2>1. CASE byte < THERMIT_MAX_PAYLOAD_LENGTH
    <3>1. next = RoundDone(stored, "PAYLOAD_AND_CRC", byte + 2)
      BY <2>1 DEF StreamFramingFollow, AfterLength, THERMIT_MAX_PAYLOAD_LENGTH
    <3>2. byte + 2 \in 0..255
      BY <2>1 DEF THERMIT_MAX_PAYLOAD_LENGTH
    <3> QED
      BY <3>1, <3>2, StatesAndRounds
  <2>2. CASE byte >= THERMIT_MAX_PAYLOAD_LENGTH
    <3>1. next = RoundDone(stored, "LEN", 0)
      BY <2>2 DEF StreamFramingFollow, THERMIT_MAX_PAYLOAD_LENGTH
    <3> QED
      BY <3>1, StatesAndRounds
  <2> QED
    BY <2>1, <2>2 DEF THERMIT_MAX_PAYLOAD_LENGTH
<1>6. CASE Size(frame) < 128
  <2>1. /\ stored \in Framing /\ stored.state = "LEN"
        /\ stored.roundsLeft = frame.roundsLeft
        /\ Size(stored) = Size(frame) + 1 /\ LengthByte(stored) = LengthByte(frame)
    BY <1>1, <1>2, <1>6, StoredFields
  <2> HIDE DEF stored
  <2> HIDE DEF next
  <2>2. CountsDown(stored, after, rounds, next)
    BY <1>5, <2>1, RoundDoneFields
  <2>3. /\ next.state = "LEN" /\ Size(next) = Size(frame) + 1
        /\ LengthByte(next) = LengthByte(frame)
        /\ frame.roundsLeft > 1 => next.roundsLeft = frame.roundsLeft - 1
        /\ frame.roundsLeft = 0 => next.roundsLeft = 255
    BY <1>4, <2>1, <2>2 DEF CountsDown, Size, LengthByte
  <2>4. Size(next) > 5 /\ (Size(next) + next.roundsLeft) % 256 = 6
    BY <1>2, <1>3, <1>4, <2>3
  <2>5. CollectsOneFrame(next)
    BY <1>2, <2>3, <2>4, CollectedByState
  <2> QED
    BY <2>2, <2>3, <2>5 DEF Follows, Collecting, CountsDown
<1>7. CASE ~(Size(frame) < 128)
  <2>1. stored \in Framing /\ stored.state = "UNDEFINED" /\ stored.roundsLeft = 0
    BY <1>1, <1>7, StoredBehind
  <2> HIDE DEF stored
  <2> HIDE DEF next
  <2>2. CountsDown(stored, after, rounds, next)
    BY <1>5, <2>1, RoundDoneFields
  <2>3. next.state = "UNDEFINED"
    BY <2>1, <2>2 DEF CountsDown
  <2> QED
    BY <1>2, <2>2, <2>3, CollectedByState DEF Follows, Collecting, CountsDown
<1> QED
  BY <1>6, <1>7

LEMMA FollowPayload ==
  ASSUME NEW frame, Collecting(frame), NEW byte \in 0..255, frame.state = "PAYLOAD_AND_CRC"
  PROVE  Follows(frame, StreamFramingFollow(frame, byte))
<1> DEFINE stored == Stored(frame, byte)
           next   == StreamFramingFollow(frame, byte)
<1> SUFFICES Follows(frame, next)
  OBVIOUS
<1>1. frame \in Framing
  BY DEF Collecting
<1>2. next = RoundDone(stored, "STOP", 2)
  BY DEF StreamFramingFollow
<1>3. /\ Size(frame) > 5 /\ frame.roundsLeft > 0
      /\ Size(frame) + frame.roundsLeft = LengthByte(frame) + 8
      /\ LengthByte(frame) < 112
  BY CollectedByState DEF Collecting, THERMIT_MAX_PAYLOAD_LENGTH
<1>4. /\ Size(frame) \in Nat /\ frame.roundsLeft \in Nat
      /\ LengthByte(frame) \in Nat
  <2>1. frame.roundsLeft \in 0..255 /\ LengthByte(frame) \in 0..255
    BY <1>1, <1>3, FramingFields
  <2> QED
    BY <1>1, <2>1, FramingFields
<1>5. Size(frame) < 128
  BY <1>3, <1>4
<1>6. /\ stored \in Framing /\ stored.state = "PAYLOAD_AND_CRC"
      /\ stored.roundsLeft = frame.roundsLeft
      /\ Size(stored) = Size(frame) + 1 /\ LengthByte(stored) = LengthByte(frame)
  BY <1>1, <1>3, <1>5, StoredFields
<1> HIDE DEF stored
<1> HIDE DEF next
<1>7. CountsDown(stored, "STOP", 2, next)
  BY <1>2, <1>6, RoundDoneFields, StatesAndRounds
<1>8. Size(next) = Size(frame) + 1 /\ LengthByte(next) = LengthByte(frame)
  BY <1>6, <1>7 DEF Size, LengthByte, CountsDown
<1>9. next.state \in {"STOP", "PAYLOAD_AND_CRC"}
  BY <1>6, <1>7 DEF CountsDown
<1>10. CollectsOneFrame(next)
  <2>1. CASE frame.roundsLeft = 1
    <3>1. /\ next.state = "STOP" /\ next.roundsLeft = 2
          /\ Size(next) > 5 /\ Size(next) = LengthByte(next) + 8
      BY <1>3, <1>4, <1>6, <1>7, <1>8, <2>1 DEF CountsDown
    <3> QED
      BY <3>1, CollectedByState
  <2>2. CASE frame.roundsLeft > 1
    <3>1. /\ next.state = "PAYLOAD_AND_CRC" /\ next.roundsLeft > 0
          /\ Size(next) > 5 /\ Size(next) + next.roundsLeft = LengthByte(next) + 8
      BY <1>3, <1>4, <1>6, <1>7, <1>8, <2>2 DEF CountsDown
    <3> QED
      BY <3>1, CollectedByState
  <2> QED
    BY <1>3, <1>4, <2>1, <2>2
<1> QED
  BY <1>3, <1>7, <1>8, <1>9, <1>10 DEF Follows, Collecting, CountsDown, THERMIT_MAX_PAYLOAD_LENGTH

LEMMA FollowStop ==
  ASSUME NEW frame, Collecting(frame), NEW byte \in 0..255, frame.state = "STOP"
  PROVE  Follows(frame, StreamFramingFollow(frame, byte))
<1> DEFINE next == StreamFramingFollow(frame, byte)
<1> SUFFICES Follows(frame, next)
  OBVIOUS
<1>1. frame \in Framing
  BY DEF Collecting
<1>2. CASE byte = STOP_CHAR
  <2>1. next = RoundDone(frame, "FINISHED", 0)
    BY <1>2 DEF StreamFramingFollow
  <2>2. /\ Size(frame) > 5 /\ Size(frame) = LengthByte(frame) + 8
        /\ frame.roundsLeft \in 1..2
    BY CollectedByState DEF Collecting
  <2> HIDE DEF next
  <2>3. CountsDown(frame, "FINISHED", 0, next)
    BY <1>1, <2>1, RoundDoneFields, StatesAndRounds
  <2>4. Size(next) = Size(frame) /\ LengthByte(next) = LengthByte(frame)
    BY <2>3 DEF Size, LengthByte, CountsDown
  <2>5. \/ next.state = "FINISHED"
        \/ next.state = "STOP" /\ next.roundsLeft = 1
    BY <2>2, <2>3 DEF CountsDown
  <2>6. CollectsOneFrame(next)
    BY <2>2, <2>4, <2>5, CollectedByState
  <2> QED
    BY <2>3, <2>5, <2>6 DEF Follows, Collecting, CountsDown
<1>3. CASE byte # STOP_CHAR
  <2>1. next = StreamFramingInitialize
    BY <1>3 DEF StreamFramingFollow, WrongByte
  <2> QED
    BY <2>1, InitialFraming DEF Follows, StreamFramingInitialize
<1> QED
  BY <1>2, <1>3

LEMMA EveryByteFollows ==
  ASSUME NEW frame, Collecting(frame), NEW byte \in 0..255
  PROVE  Follows(frame, StreamFramingFollow(frame, byte))
<1>1. frame.state \in FramingState
  BY FramingFields DEF Collecting
<1>2. CASE frame.state \in {"FINISHED", "UNDEFINED"}
  <2>1. StreamFramingFollow(frame, byte) = frame
    BY <1>2 DEF StreamFramingFollow
  <2> QED
    BY <1>2, <2>1 DEF Follows
<1> QED
  BY <1>1, <1>2, FollowStart, FollowHeader, FollowLength, FollowLongLength, FollowPayload,
     FollowStop DEF FramingState

-----------------------------------------------------------------------------
(***************************************************************************)
(* With it goes that the wire carries bytes, of which the next frame       *)
(* written must be one of Traffic.                                         *)
(***************************************************************************)
FramingInv ==
  /\ wire \in Seq(Byte)
  /\ last \in DOMAIN Traffic
  /\ Collecting(framing)

LEMMA NextPlace ==
  ASSUME NEW n \in Nat, NEW i \in 1..n
  PROVE  (i % n) + 1 \in 1..n
OBVIOUS

LEMMA BytesAreWritten ==
  ASSUME last \in DOMAIN Traffic
  PROVE  /\ (last % Len(Traffic)) + 1 \in DOMAIN Traffic
         /\ NextWireBytes \in Seq(Byte)
<1>1. Traffic \in Seq(Packet)
  BY SerialAssumption
<1>2. Len(Traffic) \in Nat /\ DOMAIN Traffic = 1 .. Len(Traffic)
  BY <1>1, LenProperties
<1>3. (last % Len(Traffic)) + 1 \in DOMAIN Traffic
  BY <1>2, NextPlace
<1> QED
  BY <1>3, TrafficAssumption DEF NextWireBytes

LEMMA PartsOfTheWire ==
  ASSUME NEW w \in Seq(Byte)
  PROVE  /\ \A n \in 0 .. Len(w) - 1 : SubSeq(w, 1, n) \in Seq(Byte)
         /\ w # <<>> => Head(w) \in Byte /\ Tail(w) \in Seq(Byte)
         /\ w # <<>> => \A b \in Byte : [w EXCEPT ![1] = b] \in Seq(Byte)
<1>1. w # <<>> => Head(w) \in Byte /\ Tail(w) \in Seq(Byte)
  BY HeadTailProperties
<1>2. ASSUME NEW n \in 0 .. Len(w) - 1 PROVE SubSeq(w, 1, n) \in Seq(Byte)
  <2>1. PICK l \in Nat : l = Len(w)
    BY LenProperties
  <2>2. \A i \in 1 .. n : i \in 1 .. l
    BY <1>2, <2>1
  <2>3. \A i \in 1 .. n : w[i] \in Byte
    BY <2>1, <2>2, ElementOfSeq
  <2> QED
    BY <1>2, <2>3, SubSeqProperties
<1>3. ASSUME w # <<>>, NEW b \in Byte PROVE [w EXCEPT ![1] = b] \in Seq(Byte)
  <2>1. 1 \in 1 .. Len(w)
    BY <1>3, LenProperties
  <2> QED
    BY <1>3, <2>1, ExceptSeq
<1> QED
  BY <1>1, <1>2, <1>3

LEMMA FramingInit == Init => FramingInv
<1>1. <<>> \in Seq(Byte)
  BY EmptySeq
<1> QED
  BY <1>1, InitialFraming DEF Init, FramingInv

(* One step: what the properties say of it, and the invariant again. *)
LEMMA ByteRead ==
  ASSUME FramingInv, ReadsByte, NEW frame,
         frame \in {FollowedFrame, StreamFramingInitialize}
  PROVE  Follows(framing, frame)
<1>1. Head(wire) \in 0..255
  BY PartsOfTheWire DEF FramingInv, ReadsByte, Byte
<1>2. Follows(framing, FollowedFrame)
  BY <1>1, EveryByteFollows DEF FramingInv, FollowedFrame
<1>3. Follows(framing, StreamFramingInitialize)
  BY InitialFraming DEF Follows, StreamFramingInitialize
<1> QED
  BY <1>2, <1>3

LEMMA FramingStep ==
  ASSUME FramingInv, [Next]_vars
  PROVE  FramingInv' /\ (framing' # framing => Follows(framing, framing'))
<1>1. CASE DeviceRead
  <2>1. ReadsByte /\ framing' \in {FollowedFrame, StreamFramingInitialize}
    BY <1>1 DEF DeviceRead, ReadPacket, ReadByte
  <2>2. Follows(framing, framing')
    BY <2>1, ByteRead
  <2>3. wire' \in Seq(Byte) /\ last' = last
    BY <2>1, PartsOfTheWire DEF ReadsByte, FramingInv
  <2> QED
    BY <2>2, <2>3 DEF FramingInv, Follows
<1>2. CASE DeviceWrite \/ DeviceWriteFails
  <2>1. /\ Writes
        /\ \/ wire' = NextWireBytes
           \/ \E n \in 0 .. Len(NextWireBytes) - 1 : wire' = SubSeq(NextWireBytes, 1, n)
    BY <1>2 DEF DeviceWrite, DeviceWriteFails
  <2>2. NextWireBytes \in Seq(Byte) /\ last' \in DOMAIN Traffic /\ framing' = framing
    BY <2>1, BytesAreWritten DEF Writes, FramingInv
  <2>3. wire' \in Seq(Byte)
    BY <2>1, <2>2, PartsOfTheWire
  <2> QED
    BY <2>2, <2>3 DEF FramingInv
<1>3. CASE Damage \/ LoseByte
  <2>1. wire # <<>> /\ last' = last /\ framing' = framing
    BY <1>3 DEF Damage, LoseByte, Struck
  <2>2. wire' = Tail(wire) \/ \E b \in Byte : wire' = [wire EXCEPT ![1] = b]
    BY <1>3, SerialAssumption DEF Damage, LoseByte
  <2>3. wire' \in Seq(Byte)
    BY <2>1, <2>2, PartsOfTheWire DEF FramingInv
  <2> QED
    BY <2>1, <2>3 DEF FramingInv
<1>4. CASE Reopen
  <2>1. wire' \in Seq(Byte)
    BY <1>4, EmptySeq DEF Reopen
  <2> QED
    BY <1>4, <2>1 DEF Reopen, FramingInv
<1>5. CASE UNCHANGED vars
  BY <1>5 DEF vars, FramingInv
<1> QED
  BY <1>1, <1>2, <1>3, <1>4, <1>5 DEF Next

LEMMA FramingHolds == Spec => []FramingInv
<1>1. FramingInv /\ [Next]_vars => FramingInv'
  BY FramingStep
<1> QED
  BY <1>1, FramingInit, PTL DEF Spec

(***************************************************************************)
(* Whatever bytes come, in whatever order, and wherever the device is      *)
(* opened anew: header, length byte, bytes collected and rounds left       *)
(* always make one frame (streamFraming.c 48-86).                          *)
(***************************************************************************)
THEOREM OneFrameIsCollected == Spec => []FramingCollectsOneFrame
<1>1. FramingInv => FramingCollectsOneFrame
  BY DEF FramingInv, Collecting, FramingCollectsOneFrame
<1> QED
  BY <1>1, FramingHolds, PTL

(***************************************************************************)
(* No traffic and no noise takes the receive buffer beyond its 128 bytes   *)
(* but a length byte of 112 or more (streamFraming.c 49, 61-77).           *)
(***************************************************************************)
THEOREM OnlyLongLengthsOverrun == Spec => OverrunsAfterLongLength
<1>1. FramingInv /\ [Next]_vars =>
        [framing.state # "UNDEFINED" /\ framing'.state = "UNDEFINED"
           => framing.state = "LEN" /\ framing.buf[6] >= THERMIT_MAX_PAYLOAD_LENGTH]_vars
  BY FramingStep DEF Follows, LengthByte
<1> QED
  BY <1>1, FramingHolds, PTL DEF Spec, OverrunsAfterLongLength

-----------------------------------------------------------------------------
(* Whatever the framing hands over with a right length and a right CRC is  *)
(* a packet, if not the one that was sent.                                 *)
LEMMA WholeFrameIsPacket ==
  ASSUME NEW raw \in Seq(Byte), Len(raw) > 5, IsWholeFrame(raw)
  PROVE  ParsePacketContent(raw) \in Packet
<1> DEFINE l == raw[6]
<1>1. PICK n \in Nat : n = Len(raw)
  BY LenProperties
<1>2. n \in 6 .. 68 /\ l <= 60 /\ l + 6 + 2 = n
  <2>1. Len(raw) \in 1 .. 68
    BY DEF IsWholeFrame, MsgSizeMax
  <2>2. l <= 60 /\ l + 6 + 2 = Len(raw)
    BY DEF IsWholeFrame, ExpectedLength, PayloadOffset, PayloadSize
  <2>3. n \in 1 .. 68 /\ n > 5 /\ l + 6 + 2 = n
    BY <1>1, <2>1, <2>2
  <2> QED
    BY <2>2, <2>3
<1>3. l \in Byte
  BY <1>1, <1>2, ElementOfSeq
<1>4. l \in Nat
  <2> HIDE DEF l
  <2> QED
    BY <1>3 DEF Byte
<1>5. ASSUME NEW i \in 1 .. n PROVE raw[i] \in Byte
  BY <1>1, <1>5, ElementOfSeq
<1>6. SubSeq(raw, 1, 5) \in [1..5 -> Byte]
  <2>1. \A i \in 1 .. 5 : i \in 1 .. n
    BY <1>2
  <2>2. SubSeq(raw, 1, 5) \in Seq(Byte) /\ Len(SubSeq(raw, 1, 5)) = IF 1 <= 5 THEN 5 - 1 + 1 ELSE 0
    BY <1>5, <2>1, SubSeqProperties
  <2>3. Len(SubSeq(raw, 1, 5)) = 5
    BY <2>2
  <2> QED
    BY <2>2, <2>3, LenProperties
<1>7. SubSeq(raw, 7, 6 + l) \in Seq(Byte)
  <2>1. \A i \in 7 .. 6 + l : i \in 1 .. n
    BY <1>2, <1>4
  <2>2. 7 \in Int /\ 6 + l \in Int
    BY <1>4
  <2> QED
    BY <1>5, <2>1, <2>2, SubSeqProperties
<1>8. ParsePacketContent(raw)
        = [header |-> SubSeq(raw, 1, 5), payload |-> SubSeq(raw, 7, 6 + l)]
  BY DEF ParsePacketContent, PayloadOffset
<1> QED
  BY <1>6, <1>7, <1>8 DEF Packet

TypeInv ==
  /\ handed \in Packet
  /\ noise \in 0..NoiseMax
  /\ harm \in {"none", "noise", "cut"}
  /\ missed \in Nat

LEMMA InitTyped == Init => TypeInv
<1> SUFFICES ASSUME Init PROVE TypeInv
  OBVIOUS
<1>1. Traffic \in Seq(Packet) /\ NoiseMax \in Nat
  BY SerialAssumption
<1>2. last \in 1 .. Len(Traffic) /\ handed = Traffic[last]
  BY <1>1, LenProperties DEF Init
<1>3. handed \in Packet
  BY <1>1, <1>2, ElementOfSeq
<1> QED
  BY <1>1, <1>3 DEF Init, TypeInv

LEMMA HandedTyped ==
  ASSUME FramingInv, TypeInv, ReadPacket
  PROVE  handed' \in Packet
<1>1. ReadsByte /\ Fits(FollowedFrame) /\ IsWholeFrame(FollowedFrame.buf)
      /\ handed' = ParsePacketContent(FollowedFrame.buf)
  BY DEF ReadPacket
<1>2. Collecting(FollowedFrame)
  BY <1>1, ByteRead DEF Follows
<1>3. FollowedFrame.state = "FINISHED" /\ FollowedFrame \in Framing
  BY <1>1, <1>2 DEF Fits, IsReady, Collecting
<1>4. Size(FollowedFrame) > 5
  BY <1>2, <1>3, CollectedByState DEF Collecting
<1>5. FollowedFrame.buf \in Seq(Byte) /\ Len(FollowedFrame.buf) > 5
  BY <1>3, <1>4 DEF Framing, Size, Byte
<1> QED
  BY <1>1, <1>5, WholeFrameIsPacket

LEMMA StepTyped ==
  ASSUME FramingInv, TypeInv, [Next]_vars
  PROVE  TypeInv'
<1>1. handed \in Packet /\ noise \in 0..NoiseMax /\ missed \in Nat /\ NoiseMax \in Nat
  BY SerialAssumption DEF TypeInv
<1>2. handed' \in Packet
  <2>1. CASE ReadPacket
    BY <2>1, HandedTyped
  <2>2. CASE ~ReadPacket
    <3>1. handed' = handed
      BY <2>2 DEF Next, DeviceWrite, DeviceWriteFails, Writes, Damage, LoseByte, Struck,
         Reopen, DeviceRead, ReadByte, vars
    <3> QED
      BY <1>1, <3>1
  <2> QED
    BY <2>1, <2>2
<1>3. CASE NoiseStrikes
  <2>1. noise' \in 0..NoiseMax /\ missed' = 0
    BY <1>1, <1>3 DEF NoiseStrikes
  <2>2. harm' \in {"none", "noise", "cut"}
    BY DEF TypeInv, Next, DeviceWrite, DeviceWriteFails, Damage, LoseByte, Struck, Reopen,
       DeviceRead, ReadPacket, ReadByte, ReadsByte, vars
  <2> QED
    BY <1>2, <2>1, <2>2 DEF TypeInv
<1>4. CASE ~NoiseStrikes
  <2>1. noise' = noise /\ harm' \in {harm, "none"} /\ missed' \in {missed, 0, missed + 1}
    BY <1>4 DEF Next, DeviceWrite, DeviceWriteFails, Damage, LoseByte, Struck, Reopen,
       DeviceRead, ReadPacket, ReadByte, ReadsByte, vars
  <2> QED
    BY <1>1, <1>2, <2>1 DEF TypeInv
<1> QED
  BY <1>3, <1>4

(***************************************************************************)
(* Bytes, counters and what is handed over keep their types, whatever      *)
(* noise makes of the bytes (ioLinux.c 351-441, thermit.c 664-708).        *)
(***************************************************************************)
THEOREM LineTyped == Spec => []TypeOK
<1>1. FramingInv /\ TypeInv /\ [Next]_vars => TypeInv'
  BY StepTyped
<1>2. FramingInv /\ TypeInv => TypeOK
  BY DEF FramingInv, TypeInv, TypeOK, Collecting
<1> QED
  BY <1>1, <1>2, FramingHolds, InitTyped, PTL DEF Spec

-----------------------------------------------------------------------------
(***************************************************************************)
(* A frame and what is read back from it.  Count stands for Len, of which  *)
(* only the facts named here are used.                                     *)
(***************************************************************************)
Count(s) == Len(s)

Covered(pkt)  == pkt.header \o <<Len(pkt.payload)>> \o pkt.payload
CrcBytes(pkt) == U16Bytes(Crc16(Covered(pkt)))

(* Whatever the values of the CRC and the length, a frame is made of these. *)
Elements(pkt) == Byte \cup {Len(pkt.payload), CrcBytes(pkt)[1], CrcBytes(pkt)[2]}

(* What joined consists of, of s and t with m and n elements. *)
IsJoined(joined, S, s, m, t, n) ==
  /\ m \in Nat /\ n \in Nat
  /\ joined \in Seq(S) /\ Count(joined) = m + n
  /\ \A i \in 1 .. m : joined[i] = s[i]
  /\ \A i \in m + 1 .. m + n : joined[i] = t[i - m]
  /\ m > 0 => SubSeq(joined, 1, m) = s
  /\ \A i, j \in 1 .. m : SubSeq(joined, i, j) = SubSeq(s, i, j)
  /\ n > 0 => SubSeq(joined, m + 1, m + n) = t

LEMMA Concatenated ==
  ASSUME NEW S, NEW s \in Seq(S), NEW t \in Seq(S), NEW m, NEW n,
         m = Count(s), n = Count(t)
  PROVE  IsJoined(s \o t, S, s, m, t, n)
<1>1. m \in Nat /\ n \in Nat
  BY LenProperties DEF Count
<1>2. s \o t \in Seq(S) /\ Len(s \o t) = Len(s) + Len(t)
  BY ConcatProperties
<1>3. \A i, j \in 1 .. m : SubSeq(s \o t, i, j) = SubSeq(s, i, j)
  BY SubSeqOfConcat1 DEF Count
<1>4. m > 0 => SubSeq(s \o t, 1, m) = s
  <2>1. m > 0 => 1 \in 1 .. m /\ m \in 1 .. m
    BY <1>1
  <2>2. SubSeq(s, 1, m) = s
    BY SubSeqFull DEF Count
  <2> QED
    BY <1>3, <2>1, <2>2
<1>5. n > 0 => SubSeq(s \o t, m + 1, m + n) = t
  <2>1. n > 0 => m + 1 \in m + 1 .. m + n /\ m + n \in m + 1 .. m + n
    BY <1>1
  <2>2. (m + 1) - m = 1 /\ (m + n) - m = n
    BY <1>1
  <2>3. SubSeq(t, 1, n) = t
    BY SubSeqFull DEF Count
  <2> QED
    BY <2>1, <2>2, <2>3, SubSeqOfConcat2 DEF Count
<1> QED
  BY <1>1, <1>2, <1>3, <1>4, <1>5, ConcatProperties DEF Count, IsJoined

(* What a frame is, place by place. *)
Layout(pkt, frame, l) ==
  /\ l \in Nat /\ l = Count(pkt.payload)
  /\ frame \in Seq(Elements(pkt)) /\ Count(frame) = l + 8
  /\ frame[6] = l
  /\ SubSeq(frame, 1, 5) = pkt.header
  /\ SubSeq(frame, 7, l + 6) = pkt.payload
  /\ SubSeq(frame, 1, l + 6) = Covered(pkt)
  /\ SubSeq(frame, l + 7, l + 8) = CrcBytes(pkt)

LEMMA FrameLayout ==
  ASSUME NEW pkt \in Packet
  PROVE  Layout(pkt, FrameBytes(pkt), Count(pkt.payload))
<1> DEFINE S    == Elements(pkt)
           head == pkt.header
           leng == <<Len(pkt.payload)>>
           data == pkt.payload
           crc  == CrcBytes(pkt)
           l    == Count(data)
<1>1. pkt.header \in [1..5 -> Byte] /\ pkt.payload \in Seq(Byte)
  BY DEF Packet
<1>2. Byte \subseteq S
  BY DEF Elements
<1>3. head \in Seq(S) /\ Count(head) = 5
  <2>1. head \in [1..5 -> S]
    BY <1>1, <1>2
  <2>2. head \in Seq(S)
    BY <2>1, SeqDef
  <2>3. DOMAIN head = 1 .. 5 /\ DOMAIN head = 1 .. Len(head) /\ Len(head) \in Nat
    BY <2>1, <2>2, LenProperties
  <2>4. \A n \in Nat : 1 .. 5 = 1 .. n => n = 5
    OBVIOUS
  <2> QED
    BY <2>2, <2>3, <2>4 DEF Count
<1>4. leng \in Seq(S) /\ Count(leng) = 1 /\ leng[1] = l
  BY DEF Elements, Count
<1>5. data \in Seq(S)
  BY <1>1, <1>2, SeqMonotonic
<1>6. crc \in Seq(S) /\ Count(crc) = 2
  <2>1. crc = <<crc[1], crc[2]>>
    BY DEF CrcBytes, U16Bytes
  <2>2. crc[1] \in S /\ crc[2] \in S
    BY DEF Elements
  <2> HIDE DEF crc, S
  <2>3. <<crc[1], crc[2]>> \in Seq(S) /\ Len(<<crc[1], crc[2]>>) = 2
    BY <2>2
  <2> QED
    BY <2>1, <2>3 DEF Count
<1>7. Covered(pkt) = (head \o leng) \o data /\ FrameBytes(pkt) = Covered(pkt) \o crc
  BY DEF Covered, FrameBytes, CrcBytes
<1> HIDE DEF head, leng, data, crc, S, l
<1>8. /\ head \o leng \in Seq(S) /\ Count(head \o leng) = 6
      /\ (head \o leng)[6] = l
      /\ SubSeq(head \o leng, 1, 5) = head
  <2>1. IsJoined(head \o leng, S, head, 5, leng, 1)
    BY <1>3, <1>4, Concatenated
  <2>2. 5 + 1 = 6 /\ 6 \in 5 + 1 .. 5 + 1 /\ 6 - 5 = 1 /\ 5 > 0
    OBVIOUS
  <2> QED
    BY <1>4, <2>1, <2>2 DEF IsJoined
<1>9. /\ Covered(pkt) \in Seq(S) /\ l \in Nat /\ Count(Covered(pkt)) = l + 6
      /\ Covered(pkt)[6] = l
      /\ SubSeq(Covered(pkt), 1, 5) = head
      /\ l > 0 => SubSeq(Covered(pkt), 7, l + 6) = data
  <2>1. l = Count(data)
    BY DEF l
  <2>2. IsJoined(Covered(pkt), S, head \o leng, 6, data, l)
    BY <1>5, <1>7, <1>8, <2>1, Concatenated
  <2>3. l \in Nat
    BY <2>2 DEF IsJoined
  <2>4. /\ 6 + 1 = 7 /\ 6 + l = l + 6
        /\ 1 \in 1 .. 6 /\ 5 \in 1 .. 6 /\ 6 \in 1 .. 6
    BY <2>3
  <2> QED
    BY <1>8, <2>2, <2>4 DEF IsJoined
<1>10. /\ FrameBytes(pkt) \in Seq(S) /\ Count(FrameBytes(pkt)) = l + 8
       /\ FrameBytes(pkt)[6] = l
       /\ SubSeq(FrameBytes(pkt), 1, l + 6) = Covered(pkt)
       /\ SubSeq(FrameBytes(pkt), 1, 5) = head
       /\ l > 0 => SubSeq(FrameBytes(pkt), 7, l + 6) = data
       /\ SubSeq(FrameBytes(pkt), l + 7, l + 8) = crc
  <2>1. IsJoined(FrameBytes(pkt), S, Covered(pkt), l + 6, crc, 2)
    BY <1>6, <1>7, <1>9, Concatenated
  <2>2. /\ (l + 6) + 2 = l + 8 /\ (l + 6) + 1 = l + 7 /\ l + 6 > 0 /\ 2 > 0
        /\ 1 \in 1 .. l + 6 /\ 5 \in 1 .. l + 6 /\ 6 \in 1 .. l + 6
        /\ l > 0 => 7 \in 1 .. l + 6 /\ l + 6 \in 1 .. l + 6
    BY <1>9
  <2> QED
    BY <1>9, <2>1, <2>2 DEF IsJoined
<1>11. l = 0 => SubSeq(FrameBytes(pkt), 7, l + 6) = data
  <2>1. SubSeq(FrameBytes(pkt), 7, 6) = <<>>
    BY SubSeqEmpty
  <2>2. l = 0 => data = <<>>
    BY <1>5, EmptySeq DEF l, Count
  <2> QED
    BY <2>1, <2>2
<1> QED
  <2>1. l = Count(pkt.payload) /\ head = pkt.header /\ data = pkt.payload
        /\ crc = CrcBytes(pkt) /\ S = Elements(pkt)
    BY DEF l, head, data, crc, S
  <2>2. /\ l \in Nat /\ l = Count(data) /\ FrameBytes(pkt) \in Seq(S)
    BY <1>9, <1>10, <2>1
  <2>3. l > 0 \/ l = 0
    BY <2>2
  <2>4. SubSeq(FrameBytes(pkt), 7, l + 6) = data
    BY <1>10, <1>11, <2>3, Zenon
  <2>5. Layout(pkt, FrameBytes(pkt), l)
    BY <1>10, <2>1, <2>2, <2>4, Zenon DEF Layout
  <2> QED
    BY <2>1, <2>5

(* A frame that is not too long is taken for whole, and gives the packet   *)
(* back that it was made of.                                               *)
LEMMA FrameIsRead ==
  ASSUME NEW pkt \in Packet, Count(pkt.payload) <= PayloadSize
  PROVE  /\ IsWholeFrame(FrameBytes(pkt))
         /\ ParsePacketContent(FrameBytes(pkt)) = pkt
         /\ Count(FrameBytes(pkt)) <= MsgSizeMax
<1> DEFINE l     == Count(pkt.payload)
           frame == FrameBytes(pkt)
<1>1. Layout(pkt, frame, l)
  BY FrameLayout
<1> HIDE DEF l, frame
<1>2. /\ l \in Nat /\ frame[6] = l /\ Count(frame) = l + 8
      /\ SubSeq(frame, 1, 5) = pkt.header
      /\ SubSeq(frame, 7, l + 6) = pkt.payload
      /\ U16Bytes(Crc16(SubSeq(frame, 1, l + 6))) = SubSeq(frame, l + 7, l + 8)
  BY <1>1 DEF Layout, CrcBytes
<1>3. l <= 60
  BY DEF l, PayloadSize
<1>4. IsWholeFrame(frame)
  <2>1. /\ l + 8 \in 1 .. 68 /\ 6 + l = l + 6 /\ 6 + l + 1 = l + 7 /\ 6 + l + 2 = l + 8
        /\ l + 6 + 2 = l + 8
    BY <1>2, <1>3
  <2>2. Len(frame) = l + 8
    BY <1>2 DEF Count
  <2> QED
    BY <1>2, <1>3, <2>1, <2>2, Zenon DEF IsWholeFrame, MsgSizeMax, PayloadOffset, PayloadSize,
       ExpectedLength
<1>5. ParsePacketContent(frame) = pkt
  <2>1. 6 + 1 = 7 /\ 6 + l = l + 6
    BY <1>2
  <2>2. pkt = [header |-> pkt.header, payload |-> pkt.payload]
    BY DEF Packet
  <2> QED
    BY <1>2, <2>1, <2>2 DEF ParsePacketContent, PayloadOffset
<1>6. Count(frame) <= MsgSizeMax
  BY <1>2, <1>3 DEF MsgSizeMax
<1> QED
  BY <1>4, <1>5, <1>6 DEF frame

-----------------------------------------------------------------------------
(***************************************************************************)
(* A frame that arrives undamaged: what the framing is after p bytes of    *)
(* start characters, frame and stop characters.                            *)
(***************************************************************************)
Machine(s, rounds, kept) == [state |-> s, roundsLeft |-> rounds, buf |-> kept]

(* One byte more: kept becomes longer, if the byte is kept, or a round is  *)
(* done.                                                                   *)
Moves(r, kept, byte, longer) ==
  /\ byte = START_CHAR =>
       StreamFramingFollow(Machine("START", r, kept), byte)
         = IF r = 1 THEN Machine("HEADER", 5, kept) ELSE Machine("START", r - 1, kept)
  /\ StreamFramingFollow(Machine("HEADER", r, kept), byte)
       = IF r = 1 THEN Machine("LEN", 1, longer) ELSE Machine("HEADER", r - 1, longer)
  /\ byte < THERMIT_MAX_PAYLOAD_LENGTH =>
       StreamFramingFollow(Machine("LEN", 1, kept), byte)
         = Machine("PAYLOAD_AND_CRC", byte + 2, longer)
  /\ StreamFramingFollow(Machine("PAYLOAD_AND_CRC", r, kept), byte)
       = IF r = 1 THEN Machine("STOP", 2, longer)
                  ELSE Machine("PAYLOAD_AND_CRC", r - 1, longer)
  /\ byte = STOP_CHAR =>
       StreamFramingFollow(Machine("STOP", r, kept), byte)
         = IF r = 1 THEN Machine("FINISHED", 0, kept) ELSE Machine("STOP", r - 1, kept)

LEMMA MachineFollows ==
  ASSUME NEW r \in 1..255, NEW kept, Len(kept) < BufSize, NEW byte \in Byte,
         NEW longer, longer = Append(kept, byte)
  PROVE  Moves(r, kept, byte, longer)
<1>1. (r - 1) % 256 = r - 1
  OBVIOUS
<1>2. ASSUME NEW s PROVE Stored(Machine(s, r, kept), byte) = Machine(s, r, longer)
                         /\ Stored(Machine(s, 1, kept), byte) = Machine(s, 1, longer)
  BY Zenon DEF Stored, Machine
<1>3. ASSUME NEW s, NEW next, NEW rounds, NEW b
      PROVE  /\ RoundDone(Machine(s, r, b), next, rounds)
                  = IF r = 1 THEN Machine(next, rounds, b) ELSE Machine(s, r - 1, b)
             /\ RoundDone(Machine(s, 1, b), next, rounds) = Machine(next, rounds, b)
  <2>1. ASSUME NEW q, NEW left
        PROVE  /\ [Machine(s, q, b) EXCEPT !.state = next, !.roundsLeft = rounds]
                    = Machine(next, rounds, b)
               /\ [Machine(s, q, b) EXCEPT !.roundsLeft = left] = Machine(s, left, b)
               /\ Machine(s, q, b).roundsLeft = q
    <3>1. [Machine(s, q, b) EXCEPT !.state = next, !.roundsLeft = rounds]
            \in [state : {next}, roundsLeft : {rounds}, buf : {b}]
      BY DEF Machine
    <3>2. [Machine(s, q, b) EXCEPT !.state = next, !.roundsLeft = rounds]
            = Machine(next, rounds, b)
      <4>1. ASSUME NEW m, m \in [state : {next}, roundsLeft : {rounds}, buf : {b}]
            PROVE  m = Machine(next, rounds, b)
        BY <4>1 DEF Machine
      <4> QED
        BY <3>1, <4>1
    <3>3. [Machine(s, q, b) EXCEPT !.roundsLeft = left] = Machine(s, left, b)
      BY DEF Machine
    <3>4. Machine(s, q, b).roundsLeft = q
      BY DEF Machine
    <3> QED
      BY <3>2, <3>3, <3>4
  <2>2. CASE r = 1
    BY <2>1, <2>2 DEF RoundDone
  <2>3. CASE r # 1
    <3>1. RoundDone(Machine(s, r, b), next, rounds)
            = [Machine(s, r, b) EXCEPT !.roundsLeft = (r - 1) % 256]
      BY <2>1, <2>3 DEF RoundDone
    <3>2. RoundDone(Machine(s, 1, b), next, rounds) = Machine(next, rounds, b)
      BY <2>1 DEF RoundDone
    <3> QED
      BY <1>1, <2>1, <2>3, <3>1, <3>2
  <2> QED
    BY <2>2, <2>3
<1>4. ASSUME NEW s, NEW rounds PROVE Machine(s, rounds, kept).state = s
  BY DEF Machine
<1>5. byte = START_CHAR =>
        StreamFramingFollow(Machine("START", r, kept), byte)
          = RoundDone(Machine("START", r, kept), "HEADER", 5)
  BY <1>4 DEF StreamFramingFollow
<1>6. StreamFramingFollow(Machine("HEADER", r, kept), byte)
        = RoundDone(Stored(Machine("HEADER", r, kept), byte), "LEN", 1)
  BY <1>4 DEF StreamFramingFollow
<1>7. byte < THERMIT_MAX_PAYLOAD_LENGTH =>
        StreamFramingFollow(Machine("LEN", 1, kept), byte)
          = RoundDone(Stored(Machine("LEN", 1, kept), byte), "PAYLOAD_AND_CRC", byte + 2)
  <2>1. byte < THERMIT_MAX_PAYLOAD_LENGTH => ~(byte >= THERMIT_MAX_PAYLOAD_LENGTH)
    BY DEF Byte, THERMIT_MAX_PAYLOAD_LENGTH
  <2> QED
    BY <1>4, <2>1 DEF StreamFramingFollow, AfterLength
<1>8. StreamFramingFollow(Machine("PAYLOAD_AND_CRC", r, kept), byte)
        = RoundDone(Stored(Machine("PAYLOAD_AND_CRC", r, kept), byte), "STOP", 2)
  BY <1>4 DEF StreamFramingFollow
<1>9. byte = STOP_CHAR =>
        StreamFramingFollow(Machine("STOP", r, kept), byte)
          = RoundDone(Machine("STOP", r, kept), "FINISHED", 0)
  BY <1>4 DEF StreamFramingFollow
<1> QED
  BY <1>2, <1>3, <1>5, <1>6, <1>7, <1>8, <1>9 DEF Moves

(* What is written for a packet whose frame has n bytes, place by place.   *)
OnTheWire(pkt, w, n) ==
  /\ n \in Nat /\ n = Count(FrameBytes(pkt))
  /\ FrameBytes(pkt) \in Seq(Byte)
  /\ w \in Seq(Byte) /\ Count(w) = n + 4
  /\ w[1] = START_CHAR /\ w[2] = START_CHAR
  /\ \A i \in 1 .. n : w[i + 2] = FrameBytes(pkt)[i]
  /\ w[n + 3] = STOP_CHAR /\ w[n + 4] = STOP_CHAR

LEMMA TwoBytes ==
  ASSUME NEW S, NEW b \in S
  PROVE  /\ <<b, b>> \in Seq(S) /\ Count(<<b, b>>) = 2
         /\ <<b, b>>[1] = b /\ <<b, b>>[2] = b
BY DEF Count

LEMMA WireLayout ==
  ASSUME NEW pkt \in Packet, WireBytes(pkt) \in Seq(Byte)
  PROVE  OnTheWire(pkt, WireBytes(pkt), Count(FrameBytes(pkt)))
<1> DEFINE S      == Elements(pkt)
           frame  == FrameBytes(pkt)
           n      == Count(frame)
           starts == <<START_CHAR, START_CHAR>>
           stops  == <<STOP_CHAR, STOP_CHAR>>
           w      == WireBytes(pkt)
<1>1. frame \in Seq(S)
  BY FrameLayout DEF Layout
<1>2. /\ starts \in Seq(S) /\ Count(starts) = 2
      /\ starts[1] = START_CHAR /\ starts[2] = START_CHAR
      /\ stops \in Seq(S) /\ Count(stops) = 2
      /\ stops[1] = STOP_CHAR /\ stops[2] = STOP_CHAR
  <2>1. START_CHAR \in S /\ STOP_CHAR \in S
    BY DEF START_CHAR, STOP_CHAR, Elements, Byte
  <2> HIDE DEF S
  <2> QED
    BY <2>1, TwoBytes
<1>3. w = (starts \o frame) \o stops
  BY DEF WireBytes
<1> HIDE DEF S, frame, starts, stops, w
<1>4. IsJoined(starts \o frame, S, starts, 2, frame, n)
  BY <1>1, <1>2, Concatenated DEF n
<1> HIDE DEF n
<1>5. starts \o frame \in Seq(S) /\ Count(starts \o frame) = 2 + n /\ n \in Nat
  BY <1>4 DEF IsJoined
<1>6. IsJoined(w, S, starts \o frame, 2 + n, stops, 2)
  BY <1>2, <1>3, <1>5, Concatenated
<1>7. /\ Count(w) = (2 + n) + 2
      /\ \A i \in 1 .. 2 + n : w[i] = (starts \o frame)[i]
      /\ \A i \in (2 + n) + 1 .. (2 + n) + 2 : w[i] = stops[i - (2 + n)]
      /\ \A i \in 1 .. 2 : (starts \o frame)[i] = starts[i]
      /\ \A i \in 2 + 1 .. 2 + n : (starts \o frame)[i] = frame[i - 2]
  BY <1>4, <1>6 DEF IsJoined
<1>8. /\ w[1] = START_CHAR /\ w[2] = START_CHAR
      /\ w[n + 3] = STOP_CHAR /\ w[n + 4] = STOP_CHAR
  <2>1. /\ 1 \in 1 .. 2 + n /\ 2 \in 1 .. 2 + n /\ 1 \in 1 .. 2 /\ 2 \in 1 .. 2
        /\ n + 3 \in (2 + n) + 1 .. (2 + n) + 2 /\ (n + 3) - (2 + n) = 1
        /\ n + 4 \in (2 + n) + 1 .. (2 + n) + 2 /\ (n + 4) - (2 + n) = 2
    BY <1>5
  <2> QED
    BY <1>2, <1>7, <2>1
<1>9. ASSUME NEW i \in 1 .. n PROVE w[i + 2] = frame[i]
  <2>1. i + 2 \in 1 .. 2 + n /\ i + 2 \in 2 + 1 .. 2 + n /\ (i + 2) - 2 = i
    BY <1>5, <1>9
  <2> QED
    BY <1>7, <2>1
<1>10. frame \in Seq(Byte)
  <2>1. ASSUME NEW i \in 1 .. n PROVE frame[i] \in Byte
    <3>1. i + 2 \in 1 .. n + 4 /\ n + 4 = (2 + n) + 2
      BY <1>5, <2>1
    <3>2. w \in Seq(Byte) /\ i + 2 \in 1 .. Len(w)
      BY <1>7, <3>1 DEF w, Count
    <3>3. w[i + 2] \in Byte
      BY <3>2, ElementOfSeq
    <3> QED
      BY <1>9, <3>3
  <2>2. frame \in [1 .. n -> S]
    BY <1>1, LenProperties DEF n, Count
  <2>3. frame \in [1 .. n -> Byte]
    BY <2>1, <2>2
  <2> QED
    BY <1>5, <2>3, SeqDef
<1>11. (2 + n) + 2 = n + 4
  BY <1>5
<1>12. OnTheWire(pkt, w, n)
  BY <1>5, <1>7, <1>8, <1>9, <1>10, <1>11 DEF OnTheWire, w, n, frame
<1> QED
  BY <1>12 DEF w, n, frame

(* The first k elements, and the next one. *)
LEMMA OneMore ==
  ASSUME NEW S, NEW s \in Seq(S), NEW k \in 0 .. Count(s) - 1
  PROVE  /\ Append(SubSeq(s, 1, k), s[k + 1]) = SubSeq(s, 1, k + 1)
         /\ Len(SubSeq(s, 1, k)) = k
         /\ s[k + 1] \in S
<1>1. PICK n \in Nat : n = Count(s)
  BY LenProperties DEF Count
<1>2. k \in Nat /\ k + 1 \in 1 .. n /\ 1 \in 1 .. n /\ k + 1 \in 1 .. n
      /\ (k + 1) - 1 = k /\ k \in Int /\ 1 <= k + 1
  BY <1>1
<1>3. s[k + 1] \in S
  BY <1>1, <1>2, ElementOfSeq DEF Count
<1>4. \A i \in 1 .. k : i \in 1 .. n
  BY <1>1, <1>2
<1>5. SubSeq(s, 1, k) \in Seq(S) /\ Len(SubSeq(s, 1, k)) = IF 1 <= k THEN (k - 1) + 1 ELSE 0
  <2>1. \A i \in 1 .. k : s[i] \in S
    BY <1>1, <1>4, ElementOfSeq DEF Count
  <2> QED
    BY <1>2, <2>1, SubSeqProperties
<1>6. (IF 1 <= k THEN (k - 1) + 1 ELSE 0) = k
  BY <1>2
<1>7. SubSeq(s, 1, k + 1) = SubSeq(s, 1, (k + 1) - 1) \o <<s[k + 1]>>
  BY <1>1, <1>2, SubSeqRecursiveSecond DEF Count
<1>8. Append(SubSeq(s, 1, k), s[k + 1]) = SubSeq(s, 1, k) \o <<s[k + 1]>>
  BY <1>3, <1>5, AppendIsConcat
<1> QED
  BY <1>2, <1>3, <1>5, <1>6, <1>7, <1>8

After(frame, n, p) ==
  CASE p < 2               -> Machine("START", 2 - p, <<>>)
    [] p \in 2 .. 6        -> Machine("HEADER", 7 - p, SubSeq(frame, 1, p - 2))
    [] p = 7               -> Machine("LEN", 1, SubSeq(frame, 1, 5))
    [] p \in 8 .. n + 1    -> Machine("PAYLOAD_AND_CRC", n + 2 - p, SubSeq(frame, 1, p - 2))
    [] p \in n + 2 .. n + 3 -> Machine("STOP", n + 4 - p, frame)
    [] OTHER               -> Machine("FINISHED", 0, frame)

AfterByCase(frame, n, p) ==
  /\ p < 2 => After(frame, n, p) = Machine("START", 2 - p, <<>>)
  /\ p \in 2 .. 6 => After(frame, n, p) = Machine("HEADER", 7 - p, SubSeq(frame, 1, p - 2))
  /\ p = 7 => After(frame, n, p) = Machine("LEN", 1, SubSeq(frame, 1, 5))
  /\ p \in 8 .. n + 1 =>
       After(frame, n, p) = Machine("PAYLOAD_AND_CRC", n + 2 - p, SubSeq(frame, 1, p - 2))
  /\ p \in n + 2 .. n + 3 => After(frame, n, p) = Machine("STOP", n + 4 - p, frame)
  /\ p = n + 4 => After(frame, n, p) = Machine("FINISHED", 0, frame)

LEMMA CasesOfAfter ==
  ASSUME NEW frame, NEW n \in 8..68, NEW p \in Nat
  PROVE  AfterByCase(frame, n, p)
<1>1. p < 2 => ~(p \in 2 .. 6) /\ p # 7 /\ ~(p \in 8 .. n + 1) /\ ~(p \in n + 2 .. n + 3)
  OBVIOUS
<1>2. p \in 2 .. 6 => ~(p < 2) /\ p # 7 /\ ~(p \in 8 .. n + 1) /\ ~(p \in n + 2 .. n + 3)
                      /\ p # n + 4
  OBVIOUS
<1>3. p = 7 => ~(p < 2) /\ ~(p \in 2 .. 6) /\ ~(p \in 8 .. n + 1) /\ ~(p \in n + 2 .. n + 3)
               /\ p # n + 4
  OBVIOUS
<1>4. p \in 8 .. n + 1 => ~(p < 2) /\ ~(p \in 2 .. 6) /\ p # 7 /\ ~(p \in n + 2 .. n + 3)
                          /\ p # n + 4
  OBVIOUS
<1>5. p \in n + 2 .. n + 3 => ~(p < 2) /\ ~(p \in 2 .. 6) /\ p # 7 /\ ~(p \in 8 .. n + 1)
                              /\ p # n + 4
  OBVIOUS
<1>6. p = n + 4 => ~(p < 2) /\ ~(p \in 2 .. 6) /\ p # 7 /\ ~(p \in 8 .. n + 1)
                   /\ ~(p \in n + 2 .. n + 3)
  OBVIOUS
<1>7. p < 2 => After(frame, n, p) = Machine("START", 2 - p, <<>>)
  BY <1>1 DEF After
<1>8. p \in 2 .. 6 => After(frame, n, p) = Machine("HEADER", 7 - p, SubSeq(frame, 1, p - 2))
  BY <1>2 DEF After
<1>9. p = 7 => After(frame, n, p) = Machine("LEN", 1, SubSeq(frame, 1, 5))
  BY <1>3 DEF After
<1>10. p \in 8 .. n + 1 =>
         After(frame, n, p) = Machine("PAYLOAD_AND_CRC", n + 2 - p, SubSeq(frame, 1, p - 2))
  BY <1>4 DEF After
<1>11. p \in n + 2 .. n + 3 => After(frame, n, p) = Machine("STOP", n + 4 - p, frame)
  BY <1>5 DEF After
<1>12. p = n + 4 => After(frame, n, p) = Machine("FINISHED", 0, frame)
  BY <1>6 DEF After
<1> QED
  BY <1>7, <1>8, <1>9, <1>10, <1>11, <1>12 DEF AfterByCase

(* Byte by byte, an undamaged frame takes the machine from the start to the *)
(* end.                                                                     *)
LEMMA OneByteFurther ==
  ASSUME NEW pkt \in Packet, NEW w, NEW n \in 8..68, OnTheWire(pkt, w, n),
         FrameBytes(pkt)[6] = n - 8, NEW p \in 0 .. n + 3
  PROVE  StreamFramingFollow(After(FrameBytes(pkt), n, p), w[p + 1])
           = After(FrameBytes(pkt), n, p + 1)
<1> DEFINE frame == FrameBytes(pkt)
<1>1. /\ frame \in Seq(Byte) /\ n = Count(frame)
      /\ \A i \in 1 .. n : w[i + 2] = frame[i]
  BY DEF OnTheWire
<1>2. frame[6] = n - 8
  OBVIOUS
<1> HIDE DEF frame
<1>3. ASSUME NEW k \in 0 .. n - 1
      PROVE  /\ w[k + 3] = frame[k + 1] /\ frame[k + 1] \in Byte
             /\ SubSeq(frame, 1, k + 1) = Append(SubSeq(frame, 1, k), w[k + 3])
             /\ Len(SubSeq(frame, 1, k)) < BufSize
  <2>1. k + 1 \in 1 .. n /\ (k + 1) + 2 = k + 3 /\ k < 128
    BY <1>3
  <2>2. w[k + 3] = frame[k + 1]
    BY <1>1, <2>1
  <2>3. k \in 0 .. Count(frame) - 1
    BY <1>1, <1>3
  <2>4. /\ Append(SubSeq(frame, 1, k), frame[k + 1]) = SubSeq(frame, 1, k + 1)
        /\ Len(SubSeq(frame, 1, k)) = k
        /\ frame[k + 1] \in Byte
    BY <1>1, <2>3, OneMore
  <2> QED
    BY <2>1, <2>2, <2>4 DEF BufSize
<1>4. Len(<<>>) < BufSize /\ SubSeq(frame, 1, 0) = <<>>
  BY EmptySeq, SubSeqEmpty DEF BufSize
<1>5. AfterByCase(frame, n, p) /\ AfterByCase(frame, n, p + 1)
  <2>1. p \in Nat /\ p + 1 \in Nat
    OBVIOUS
  <2> QED
    BY <2>1, CasesOfAfter
<1>6. CASE p < 2
  <2>1. w[p + 1] = START_CHAR /\ START_CHAR \in Byte
    <3>1. p + 1 = 1 \/ p + 1 = 2
      BY <1>6
    <3> QED
      BY <3>1 DEF OnTheWire, START_CHAR, Byte
  <2>2. 2 - p \in 1 .. 255 /\ After(frame, n, p) = Machine("START", 2 - p, <<>>)
    BY <1>5, <1>6 DEF AfterByCase
  <2>3. StreamFramingFollow(Machine("START", 2 - p, <<>>), w[p + 1])
          = IF 2 - p = 1 THEN Machine("HEADER", 5, <<>>)
                         ELSE Machine("START", (2 - p) - 1, <<>>)
    <3>1. PICK longer : longer = Append(<<>>, w[p + 1])
      OBVIOUS
    <3>2. Moves(2 - p, <<>>, w[p + 1], longer)
      BY <1>4, <2>1, <2>2, <3>1, MachineFollows
    <3> QED
      BY <2>1, <3>2 DEF Moves
  <2>4. CASE p = 0
    <3>1. After(frame, n, p + 1) = Machine("START", 1, <<>>)
      BY <1>5, <2>4 DEF AfterByCase
    <3>2. 2 - p # 1 /\ (2 - p) - 1 = 1
      BY <2>4
    <3> QED
      BY <2>2, <2>3, <3>1, <3>2 DEF frame
  <2>5. CASE p = 1
    <3>1. After(frame, n, p + 1) = Machine("HEADER", 5, SubSeq(frame, 1, 0))
      <4>1. p + 1 \in 2 .. 6 /\ 7 - (p + 1) = 5 /\ (p + 1) - 2 = 0
        BY <2>5
      <4> QED
        BY <1>5, <4>1 DEF AfterByCase
    <3>2. 2 - p = 1
      BY <2>5
    <3> QED
      BY <1>4, <2>2, <2>3, <3>1, <3>2 DEF frame
  <2> QED
    BY <1>6, <2>4, <2>5
<1>7. CASE p \in 2 .. 6
  <2> DEFINE k == p - 2
  <2>1. /\ k \in 0 .. n - 1 /\ k + 3 = p + 1 /\ 7 - p \in 1 .. 255
        /\ (7 - p = 1) = (p = 6) /\ (7 - p) - 1 = 7 - (p + 1)
    BY <1>7
  <2>2. After(frame, n, p) = Machine("HEADER", 7 - p, SubSeq(frame, 1, k))
    BY <1>5, <1>7 DEF AfterByCase
  <2> HIDE DEF k
  <2>3. StreamFramingFollow(After(frame, n, p), w[p + 1])
          = IF 7 - p = 1 THEN Machine("LEN", 1, SubSeq(frame, 1, k + 1))
                         ELSE Machine("HEADER", (7 - p) - 1, SubSeq(frame, 1, k + 1))
    <3>1. /\ w[p + 1] \in Byte /\ Len(SubSeq(frame, 1, k)) < BufSize
          /\ SubSeq(frame, 1, k + 1) = Append(SubSeq(frame, 1, k), w[p + 1])
      BY <1>3, <2>1
    <3>2. Moves(7 - p, SubSeq(frame, 1, k), w[p + 1], SubSeq(frame, 1, k + 1))
      BY <2>1, <3>1, MachineFollows
    <3> QED
      BY <2>2, <3>2 DEF Moves
  <2>4. CASE p = 6
    <3>1. After(frame, n, p + 1) = Machine("LEN", 1, SubSeq(frame, 1, 5)) /\ k + 1 = 5
      BY <1>5, <2>1, <2>4 DEF AfterByCase
    <3> QED
      BY <2>1, <2>3, <2>4, <3>1 DEF frame
  <2>5. CASE p # 6
    <3>1. p + 1 \in 2 .. 6 /\ (p + 1) - 2 = k + 1
      BY <1>7, <2>5 DEF k
    <3>2. After(frame, n, p + 1) = Machine("HEADER", 7 - (p + 1), SubSeq(frame, 1, k + 1))
      BY <1>5, <3>1 DEF AfterByCase
    <3> QED
      BY <2>1, <2>3, <2>5, <3>2 DEF frame
  <2> QED
    BY <2>4, <2>5
<1>8. CASE p = 7
  <2>1. After(frame, n, p) = Machine("LEN", 1, SubSeq(frame, 1, 5))
    BY <1>5, <1>8 DEF AfterByCase
  <2>2. /\ w[p + 1] = n - 8 /\ n - 8 \in Byte
        /\ SubSeq(frame, 1, 6) = Append(SubSeq(frame, 1, 5), w[p + 1])
        /\ Len(SubSeq(frame, 1, 5)) < BufSize
    <3>1. 5 \in 0 .. n - 1 /\ 5 + 3 = p + 1 /\ 5 + 1 = 6
      BY <1>8
    <3> QED
      BY <1>2, <1>3, <3>1
  <2>3. n - 8 < THERMIT_MAX_PAYLOAD_LENGTH /\ (n - 8) + 2 = n + 2 - (p + 1) /\ 1 \in 1 .. 255
    BY <1>8 DEF THERMIT_MAX_PAYLOAD_LENGTH
  <2>4. StreamFramingFollow(After(frame, n, p), w[p + 1])
          = Machine("PAYLOAD_AND_CRC", (n - 8) + 2, SubSeq(frame, 1, 6))
    <3>1. Moves(1, SubSeq(frame, 1, 5), w[p + 1], SubSeq(frame, 1, 6))
      BY <2>2, <2>3, MachineFollows
    <3> QED
      BY <2>1, <2>2, <2>3, <3>1 DEF Moves
  <2>5. p + 1 \in 8 .. n + 1 /\ (p + 1) - 2 = 6
    BY <1>8
  <2>6. After(frame, n, p + 1)
          = Machine("PAYLOAD_AND_CRC", n + 2 - (p + 1), SubSeq(frame, 1, 6))
    BY <1>5, <2>5 DEF AfterByCase
  <2> QED
    BY <2>3, <2>4, <2>6 DEF frame
<1>9. CASE p \in 8 .. n + 1
  <2> DEFINE k == p - 2
  <2>1. /\ k \in 0 .. n - 1 /\ k + 3 = p + 1 /\ n + 2 - p \in 1 .. 255
        /\ (n + 2 - p = 1) = (p = n + 1) /\ (n + 2 - p) - 1 = n + 2 - (p + 1)
    BY <1>9
  <2>2. After(frame, n, p) = Machine("PAYLOAD_AND_CRC", n + 2 - p, SubSeq(frame, 1, k))
    BY <1>5, <1>9 DEF AfterByCase
  <2> HIDE DEF k
  <2>3. StreamFramingFollow(After(frame, n, p), w[p + 1])
          = IF n + 2 - p = 1
            THEN Machine("STOP", 2, SubSeq(frame, 1, k + 1))
            ELSE Machine("PAYLOAD_AND_CRC", (n + 2 - p) - 1, SubSeq(frame, 1, k + 1))
    <3>1. /\ w[p + 1] \in Byte /\ Len(SubSeq(frame, 1, k)) < BufSize
          /\ SubSeq(frame, 1, k + 1) = Append(SubSeq(frame, 1, k), w[p + 1])
      BY <1>3, <2>1
    <3>2. Moves(n + 2 - p, SubSeq(frame, 1, k), w[p + 1], SubSeq(frame, 1, k + 1))
      BY <2>1, <3>1, MachineFollows
    <3> QED
      BY <2>2, <3>2 DEF Moves
  <2>4. CASE p = n + 1
    <3>1. p + 1 \in n + 2 .. n + 3 /\ n + 4 - (p + 1) = 2 /\ k + 1 = n
      BY <2>1, <2>4
    <3>2. After(frame, n, p + 1) = Machine("STOP", 2, frame)
      BY <1>5, <3>1 DEF AfterByCase
    <3>3. SubSeq(frame, 1, n) = frame
      BY <1>1, SubSeqFull DEF Count
    <3> QED
      BY <2>1, <2>3, <2>4, <3>1, <3>2, <3>3 DEF frame
  <2>5. CASE p # n + 1
    <3>1. p + 1 \in 8 .. n + 1 /\ (p + 1) - 2 = k + 1
      BY <1>9, <2>5 DEF k
    <3>2. After(frame, n, p + 1)
            = Machine("PAYLOAD_AND_CRC", n + 2 - (p + 1), SubSeq(frame, 1, k + 1))
      BY <1>5, <3>1 DEF AfterByCase
    <3> QED
      BY <2>1, <2>3, <2>5, <3>2 DEF frame
  <2> QED
    BY <2>4, <2>5
<1>10. CASE p \in n + 2 .. n + 3
  <2>1. w[p + 1] = STOP_CHAR /\ STOP_CHAR \in Byte
    <3>1. p + 1 = n + 3 \/ p + 1 = n + 4
      BY <1>10
    <3> QED
      BY <3>1 DEF OnTheWire, STOP_CHAR, Byte
  <2>2. n + 4 - p \in 1 .. 255 /\ After(frame, n, p) = Machine("STOP", n + 4 - p, frame)
    BY <1>5, <1>10 DEF AfterByCase
  <2>3. Len(frame) < BufSize
    <3>1. n < 128
      OBVIOUS
    <3> QED
      BY <1>1, <3>1 DEF Count, BufSize
  <2>4. StreamFramingFollow(Machine("STOP", n + 4 - p, frame), w[p + 1])
          = IF n + 4 - p = 1 THEN Machine("FINISHED", 0, frame)
                             ELSE Machine("STOP", (n + 4 - p) - 1, frame)
    <3>1. PICK longer : longer = Append(frame, w[p + 1])
      OBVIOUS
    <3>2. Moves(n + 4 - p, frame, w[p + 1], longer)
      BY <2>1, <2>2, <2>3, <3>1, MachineFollows
    <3> QED
      BY <2>1, <3>2 DEF Moves
  <2>5. CASE p = n + 2
    <3>1. p + 1 \in n + 2 .. n + 3 /\ n + 4 - p # 1 /\ (n + 4 - p) - 1 = n + 4 - (p + 1)
      BY <2>5
    <3>2. After(frame, n, p + 1) = Machine("STOP", n + 4 - (p + 1), frame)
      BY <1>5, <3>1 DEF AfterByCase
    <3> QED
      BY <2>2, <2>4, <3>1, <3>2 DEF frame
  <2>6. CASE p = n + 3
    <3>1. p + 1 = n + 4 /\ n + 4 - p = 1
      BY <2>6
    <3>2. After(frame, n, p + 1) = Machine("FINISHED", 0, frame)
      BY <1>5, <3>1 DEF AfterByCase
    <3> QED
      BY <2>2, <2>4, <3>1, <3>2 DEF frame
  <2> QED
    BY <1>10, <2>5, <2>6
<1> QED
  BY <1>6, <1>7, <1>8, <1>9, <1>10

-----------------------------------------------------------------------------
(***************************************************************************)
(* The invariant of a line without noise: it is idle and what was written  *)
(* last has been handed over, or p bytes of it have been followed and the  *)
(* others are on the wire.                                                 *)
(***************************************************************************)
Rest(pkt, w, n, p) == p \in 0 .. n + 3 /\ w = SubSeq(WireBytes(pkt), p + 1, n + 4)

Followed(pkt, w, frame, n, p) == Rest(pkt, w, n, p) /\ frame = After(FrameBytes(pkt), n, p)

OnItsWay(pkt, w, frame) ==
  \E p \in Nat : Followed(pkt, w, frame, Count(FrameBytes(pkt)), p)

Idle == wire = <<>> /\ framing = StreamFramingInitialize /\ handed = Traffic[last]

QuietInv ==
  noise = 0 => /\ harm = "none" /\ missed = 0
               /\ Idle \/ OnItsWay(Traffic[last], wire, framing)

(* What is known of every packet of the traffic. *)
Sendable(pkt, n) ==
  /\ pkt \in Packet
  /\ n = Count(FrameBytes(pkt)) /\ n \in 8 .. 68
  /\ FrameBytes(pkt)[6] = n - 8
  /\ OnTheWire(pkt, WireBytes(pkt), n)
  /\ IsWholeFrame(FrameBytes(pkt)) /\ ParsePacketContent(FrameBytes(pkt)) = pkt

LEMMA TrafficIsSendable ==
  ASSUME NEW i \in DOMAIN Traffic
  PROVE  Sendable(Traffic[i], Count(FrameBytes(Traffic[i])))
<1> DEFINE pkt == Traffic[i]
           l   == Count(pkt.payload)
           n   == Count(FrameBytes(pkt))
<1>1. pkt \in Packet
  <2>1. Traffic \in Seq(Packet)
    BY SerialAssumption
  <2>2. i \in 1 .. Len(Traffic)
    BY <2>1, LenProperties
  <2> QED
    BY <2>1, <2>2, ElementOfSeq
<1>2. WireBytes(pkt) \in Seq(Byte) /\ l <= PayloadSize
  BY TrafficAssumption DEF Count
<1> HIDE DEF pkt
<1>3. Layout(pkt, FrameBytes(pkt), l)
  BY <1>1, FrameLayout
<1>4. l \in Nat /\ n = l + 8 /\ FrameBytes(pkt)[6] = l
  BY <1>3 DEF Layout
<1>5. IsWholeFrame(FrameBytes(pkt)) /\ ParsePacketContent(FrameBytes(pkt)) = pkt
  BY <1>1, <1>2, FrameIsRead
<1>6. OnTheWire(pkt, WireBytes(pkt), n)
  BY <1>1, <1>2, WireLayout
<1> HIDE DEF l, n
<1>7. n \in 8 .. 68 /\ FrameBytes(pkt)[6] = n - 8
  BY <1>2, <1>4 DEF PayloadSize
<1>8. n = Count(FrameBytes(pkt))
  BY DEF n
<1>9. Sendable(pkt, n)
  BY <1>1, <1>5, <1>6, <1>7, <1>8 DEF Sendable
<1> QED
  BY <1>8, <1>9 DEF pkt

(* The frame has just been written. *)
LEMMA WrittenFrame ==
  ASSUME NEW pkt, NEW n, Sendable(pkt, n)
  PROVE  OnItsWay(pkt, WireBytes(pkt), StreamFramingInitialize)
<1>1. n \in 8 .. 68 /\ n = Count(FrameBytes(pkt))
  BY DEF Sendable
<1>2. WireBytes(pkt) \in Seq(Byte) /\ Count(WireBytes(pkt)) = n + 4
  BY DEF Sendable, OnTheWire
<1>3. SubSeq(WireBytes(pkt), 1, n + 4) = WireBytes(pkt)
  BY <1>2, SubSeqFull DEF Count
<1>4. AfterByCase(FrameBytes(pkt), n, 0)
  BY <1>1, CasesOfAfter
<1>5. After(FrameBytes(pkt), n, 0) = StreamFramingInitialize
  BY <1>4 DEF AfterByCase, Machine, StreamFramingInitialize
<1>6. 0 \in Nat /\ 0 \in 0 .. n + 3 /\ 0 + 1 = 1
  BY <1>1
<1>7. Followed(pkt, WireBytes(pkt), StreamFramingInitialize, n, 0)
  BY <1>3, <1>5, <1>6 DEF Followed, Rest
<1> QED
  BY <1>1, <1>6, <1>7 DEF OnItsWay

(* What is left of it on the wire. *)
LEMMA RestOfTheWire ==
  ASSUME NEW pkt, NEW n, Sendable(pkt, n), NEW w, NEW p \in Nat, Rest(pkt, w, n, p)
  PROVE  /\ Head(w) = WireBytes(pkt)[p + 1] /\ Head(w) \in Byte
         /\ Tail(w) = SubSeq(WireBytes(pkt), p + 2, n + 4)
         /\ Len(w) = n + 4 - p
<1>1. n \in 8 .. 68 /\ p \in 0 .. n + 3
  BY DEF Sendable, Rest
<1>2. /\ WireBytes(pkt) \in Seq(Byte) /\ Count(WireBytes(pkt)) = n + 4
      /\ w = SubSeq(WireBytes(pkt), p + 1, n + 4)
  BY DEF Sendable, OnTheWire, Rest
<1>3. /\ p + 1 \in 1 .. n + 4 /\ n + 4 \in p + 1 .. n + 4 /\ (p + 1) + 1 = p + 2
      /\ p + 1 \in Int /\ n + 4 \in Int /\ p + 1 <= n + 4
      /\ ((n + 4) - (p + 1)) + 1 = n + 4 - p
  BY <1>1
<1>4. Head(w) = WireBytes(pkt)[p + 1] /\ Tail(w) = SubSeq(WireBytes(pkt), p + 2, n + 4)
  BY <1>2, <1>3, HeadTailOfSubSeq DEF Count
<1>5. WireBytes(pkt)[p + 1] \in Byte
  BY <1>2, <1>3, ElementOfSeq DEF Count
<1>6. Len(w) = n + 4 - p
  <2>1. \A i \in p + 1 .. n + 4 : i \in 1 .. n + 4
    BY <1>1
  <2>2. \A i \in p + 1 .. n + 4 : WireBytes(pkt)[i] \in Byte
    BY <1>2, <2>1, ElementOfSeq DEF Count
  <2>3. Len(w) = IF p + 1 <= n + 4 THEN ((n + 4) - (p + 1)) + 1 ELSE 0
    BY <1>2, <1>3, <2>2, SubSeqProperties
  <2> QED
    BY <1>3, <2>3
<1> QED
  BY <1>4, <1>5, <1>6

(* One byte of it is followed. *)
LEMMA FollowedByte ==
  ASSUME NEW pkt, NEW n, Sendable(pkt, n), NEW w, NEW frame, NEW p \in Nat,
         Followed(pkt, w, frame, n, p)
  PROVE  /\ StreamFramingFollow(frame, Head(w)) = After(FrameBytes(pkt), n, p + 1)
         /\ Tail(w) = SubSeq(WireBytes(pkt), p + 2, n + 4)
         /\ Len(w) = n + 4 - p
<1>1. n \in 8 .. 68 /\ p \in 0 .. n + 3 /\ frame = After(FrameBytes(pkt), n, p)
  BY DEF Sendable, Followed, Rest
<1>2. /\ Head(w) = WireBytes(pkt)[p + 1]
      /\ Tail(w) = SubSeq(WireBytes(pkt), p + 2, n + 4)
      /\ Len(w) = n + 4 - p
  BY RestOfTheWire DEF Followed
<1>3. StreamFramingFollow(After(FrameBytes(pkt), n, p), WireBytes(pkt)[p + 1])
        = After(FrameBytes(pkt), n, p + 1)
  BY <1>1, OneByteFurther DEF Sendable
<1> QED
  BY <1>1, <1>2, <1>3

(* Before the last byte no frame is finished; with the last byte the frame *)
(* is, and it is whole.                                                    *)
LEMMA FrameFinished ==
  ASSUME NEW pkt, NEW n, Sendable(pkt, n), NEW p \in 0 .. n + 3
  PROVE  /\ p # n + 3 => ~Fits(After(FrameBytes(pkt), n, p + 1))
         /\ p = n + 3 => /\ Fits(After(FrameBytes(pkt), n, p + 1))
                         /\ After(FrameBytes(pkt), n, p + 1).buf = FrameBytes(pkt)
<1>1. n \in 8 .. 68 /\ Count(FrameBytes(pkt)) = n
  BY DEF Sendable
<1>2. p + 1 \in Nat
  BY <1>1
<1>3. AfterByCase(FrameBytes(pkt), n, p + 1)
  BY <1>1, <1>2, CasesOfAfter
<1>4. CASE p # n + 3
  <2>1. \/ p + 1 < 2 \/ p + 1 \in 2 .. 6 \/ p + 1 = 7 \/ p + 1 \in 8 .. n + 1
        \/ p + 1 \in n + 2 .. n + 3
    BY <1>1, <1>4
  <2>2. After(FrameBytes(pkt), n, p + 1).state # "FINISHED"
    BY <1>3, <2>1 DEF AfterByCase, Machine
  <2> QED
    BY <1>4, <2>2 DEF Fits, IsReady
<1>5. CASE p = n + 3
  <2>1. p + 1 = n + 4 /\ n <= 68
    BY <1>1, <1>5
  <2>2. After(FrameBytes(pkt), n, p + 1) = Machine("FINISHED", 0, FrameBytes(pkt))
    BY <1>3, <2>1 DEF AfterByCase
  <2>3. Len(FrameBytes(pkt)) <= MsgSizeMax
    BY <1>1, <2>1 DEF Count, MsgSizeMax
  <2> QED
    BY <1>5, <2>2, <2>3 DEF Machine, Fits, IsReady
<1> QED
  BY <1>4, <1>5

(* A frame on its way is not over. *)
LEMMA StillOnTheWire ==
  ASSUME NEW pkt, NEW w, NEW frame, Sendable(pkt, Count(FrameBytes(pkt))),
         OnItsWay(pkt, w, frame)
  PROVE  w # <<>>
<1>1. PICK n : Sendable(pkt, n) /\ n = Count(FrameBytes(pkt))
  OBVIOUS
<1>2. PICK p \in Nat : Followed(pkt, w, frame, n, p)
  BY <1>1 DEF OnItsWay
<1>3. Len(w) = n + 4 - p
  BY <1>1, <1>2, FollowedByte
<1>4. n + 4 - p # 0
  BY <1>1, <1>2 DEF Sendable, Followed, Rest
<1> QED
  BY <1>3, <1>4, EmptySeq

LEMMA QuietInit == Init => QuietInv
BY DEF Init, QuietInv, Idle

LEMMA QuietWrite ==
  ASSUME FramingInv, QuietInv, DeviceWrite
  PROVE  QuietInv'
<1> SUFFICES ASSUME noise' = 0 PROVE harm' = "none" /\ missed' = 0
                                    /\ OnItsWay(Traffic[last'], wire', framing')
  BY DEF QuietInv
<1>1. noise = 0 /\ wire = <<>> /\ harm' = "none" /\ missed' = missed /\ framing' = framing
  BY DEF DeviceWrite, Writes
<1>2. missed = 0 /\ framing = StreamFramingInitialize
  <2>1. Idle \/ OnItsWay(Traffic[last], wire, framing)
    BY <1>1 DEF QuietInv
  <2>2. ASSUME OnItsWay(Traffic[last], wire, framing) PROVE FALSE
    <3>1. Sendable(Traffic[last], Count(FrameBytes(Traffic[last])))
      BY TrafficIsSendable DEF FramingInv
    <3> QED
      BY <1>1, <2>2, <3>1, StillOnTheWire
  <2> QED
    BY <1>1, <2>1, <2>2 DEF QuietInv, Idle
<1>3. last' \in DOMAIN Traffic /\ wire' = WireBytes(Traffic[last'])
  BY BytesAreWritten DEF DeviceWrite, Writes, NextWireBytes, FramingInv
<1>4. OnItsWay(Traffic[last'], wire', StreamFramingInitialize)
  BY <1>3, TrafficIsSendable, WrittenFrame
<1> QED
  BY <1>1, <1>2, <1>4

LEMMA QuietRead ==
  ASSUME FramingInv, QuietInv, DeviceRead
  PROVE  QuietInv'
<1> DEFINE pkt == Traffic[last]
<1> SUFFICES ASSUME noise' = 0
             PROVE  /\ harm' = "none" /\ missed' = 0
                    /\ Idle' \/ OnItsWay(Traffic[last'], wire', framing')
  BY DEF QuietInv
<1>1. /\ noise = 0 /\ wire # <<>> /\ wire' = Tail(wire)
      /\ last' = last /\ harm' = harm
      /\ ReadPacket \/ ReadByte
  BY DEF DeviceRead, ReadPacket, ReadByte, ReadsByte
<1>2. harm = "none" /\ missed = 0 /\ OnItsWay(pkt, wire, framing)
  BY <1>1 DEF QuietInv, Idle
<1>3. PICK n : n = Count(FrameBytes(pkt)) /\ Sendable(pkt, n)
  BY TrafficIsSendable DEF FramingInv
<1>4. PICK p \in Nat : Followed(pkt, wire, framing, n, p)
  BY <1>2, <1>3 DEF OnItsWay
<1> HIDE DEF pkt
<1>5. n \in 8 .. 68 /\ p \in 0 .. n + 3
  BY <1>3, <1>4 DEF Sendable, Followed, Rest
<1>6. /\ FollowedFrame = After(FrameBytes(pkt), n, p + 1)
      /\ wire' = SubSeq(WireBytes(pkt), p + 2, n + 4)
      /\ Len(wire) = n + 4 - p
  BY <1>1, <1>3, <1>4, FollowedByte DEF FollowedFrame
<1>7. CASE p # n + 3
  <2>1. ~Fits(FollowedFrame)
    BY <1>3, <1>5, <1>6, <1>7, FrameFinished
  <2>2. framing' = FollowedFrame /\ missed' = IF MissesOne THEN missed + 1 ELSE missed
    BY <1>1, <2>1 DEF ReadPacket, ReadByte
  <2>3. n + 4 - p # 1
    BY <1>5, <1>7
  <2>4. ~MissesOne
    BY <1>6, <2>3 DEF MissesOne
  <2>5. p + 1 \in Nat /\ p + 1 \in 0 .. n + 3 /\ (p + 1) + 1 = p + 2
    BY <1>5, <1>7
  <2>6. Followed(pkt, wire', framing', n, p + 1)
    BY <1>6, <2>2, <2>5 DEF Followed, Rest
  <2>7. OnItsWay(pkt, wire', framing')
    BY <1>3, <2>5, <2>6 DEF OnItsWay
  <2> QED
    BY <1>1, <1>2, <2>2, <2>4, <2>7 DEF pkt
<1>8. CASE p = n + 3
  <2>1. Fits(FollowedFrame) /\ FollowedFrame.buf = FrameBytes(pkt)
    BY <1>3, <1>5, <1>6, <1>8, FrameFinished
  <2>2. IsWholeFrame(FollowedFrame.buf) /\ ParsePacketContent(FollowedFrame.buf) = pkt
    BY <1>3, <2>1 DEF Sendable
  <2>3. framing' = StreamFramingInitialize /\ handed' = pkt /\ missed' = 0
    BY <1>1, <2>1, <2>2 DEF ReadPacket, ReadByte
  <2>4. p + 2 \in Int /\ n + 4 \in Int /\ n + 4 < p + 2
    BY <1>5, <1>8
  <2>5. wire' = <<>>
    BY <1>6, <2>4, SubSeqEmpty
  <2> QED
    BY <1>1, <1>2, <2>3, <2>5 DEF Idle, pkt
<1> QED
  BY <1>7, <1>8

LEMMA QuietStep ==
  ASSUME noise \in Nat, FramingInv, QuietInv, [Next]_vars
  PROVE  QuietInv'
<1>1. CASE DeviceWriteFails \/ Damage \/ LoseByte \/ Reopen
  <2>1. noise' = noise + 1
    BY <1>1 DEF DeviceWriteFails, Damage, LoseByte, Struck, Reopen, NoiseStrikes
  <2>2. noise' # 0
    BY <2>1
  <2> QED
    BY <2>2 DEF QuietInv
<1>2. CASE UNCHANGED vars
  BY <1>2 DEF vars, QuietInv, Idle
<1> QED
  BY <1>1, <1>2, QuietWrite, QuietRead DEF Next

LEMMA NoiseCounted == Spec => [](noise \in Nat)
<1>1. Init => noise \in Nat
  BY DEF Init
<1>2. noise \in Nat /\ [Next]_vars => (noise \in Nat)'
  <2> SUFFICES ASSUME noise \in Nat, [Next]_vars PROVE noise' \in Nat
    OBVIOUS
  <2>1. noise' = noise \/ noise' = noise + 1
    BY DEF Next, DeviceWrite, DeviceWriteFails, Damage, LoseByte, Struck, Reopen,
       NoiseStrikes, DeviceRead, ReadPacket, ReadByte, ReadsByte, vars
  <2> QED
    BY <2>1
<1> QED
  BY <1>1, <1>2, PTL DEF Spec

(***************************************************************************)
(* What one end writes the other hands over, packet by packet, as long as  *)
(* nothing happens to the bytes between them: for every sequence of        *)
(* packets that can be sent, whatever their bytes look like (thermit.c     *)
(* 664-782, streamFraming.c 24-121, ioLinux.c 351-427).                    *)
(***************************************************************************)
THEOREM EveryPacketIsDelivered == Spec => []QuietLineDelivers
<1>1. FramingInv /\ QuietInv => QuietLineDelivers
  <2> SUFFICES ASSUME FramingInv, QuietInv, noise = 0, wire = <<>>
               PROVE  handed = Traffic[last]
    BY DEF QuietLineDelivers, QuietInv
  <2>1. CASE Idle
    BY <2>1 DEF Idle
  <2>2. CASE OnItsWay(Traffic[last], wire, framing)
    <3>1. Sendable(Traffic[last], Count(FrameBytes(Traffic[last])))
      BY TrafficIsSendable DEF FramingInv
    <3> QED
      BY <2>2, <3>1, StillOnTheWire
  <2> QED
    BY <2>1, <2>2 DEF QuietInv
<1>2. noise \in Nat /\ FramingInv /\ QuietInv /\ [Next]_vars => QuietInv'
  BY QuietStep
<1> QED
  BY <1>1, <1>2, QuietInit, FramingHolds, NoiseCounted, PTL DEF Spec
-----------------------------------------------------------------------------
(***************************************************************************)
(* After noise.  A frame that the machine has begun to collect covers so   *)
(* many of the bytes that follow, at most, as its state allows.            *)
(***************************************************************************)
Lost(frame) ==
  \/ IsReady(frame)
  \/ frame.state = "LEN" /\ frame.roundsLeft # 1
  \/ frame.state = "UNDEFINED"

Begun(frame) ==
  \/ frame.state = "START" /\ frame.roundsLeft = 1
  \/ frame.state \in {"HEADER", "LEN", "PAYLOAD_AND_CRC", "STOP"}

Covers(frame) ==
  CASE frame.state = "START"           -> 122
    [] frame.state = "HEADER"          -> frame.roundsLeft + 116
    [] frame.state = "LEN"             -> 116
    [] frame.state = "PAYLOAD_AND_CRC" -> frame.roundsLeft + 2
    [] OTHER                           -> frame.roundsLeft

LEMMA CoversByState ==
  ASSUME NEW frame
  PROVE  /\ frame.state = "START" => Covers(frame) = 122
         /\ frame.state = "HEADER" => Covers(frame) = frame.roundsLeft + 116
         /\ frame.state = "LEN" => Covers(frame) = 116
         /\ frame.state = "PAYLOAD_AND_CRC" => Covers(frame) = frame.roundsLeft + 2
         /\ frame.state = "STOP" => Covers(frame) = frame.roundsLeft
BY DEF Covers

(* The rounds that are left in each state. *)
LEMMA RoundsByState ==
  ASSUME NEW frame, Collecting(frame)
  PROVE  /\ frame.roundsLeft \in 0..255
         /\ frame.state = "START" => frame.roundsLeft \in 1..2 /\ Size(frame) = 0
         /\ frame.state = "HEADER" => frame.roundsLeft \in 1..5 /\ Size(frame) < 128
         /\ frame.state = "LEN" /\ frame.roundsLeft = 1 => Size(frame) = 5
         /\ frame.state = "PAYLOAD_AND_CRC" =>
              frame.roundsLeft \in 1..113 /\ Size(frame) < 128
         /\ frame.state = "STOP" => frame.roundsLeft \in 1..2
<1>1. frame \in Framing /\ CollectsOneFrame(frame)
  BY DEF Collecting
<1>2. /\ frame.roundsLeft \in 0..255
      /\ Size(frame) \in Nat /\ Size(frame) <= 128
      /\ Size(frame) > 5 => LengthByte(frame) \in 0..255
  BY <1>1, FramingFields
<1>3. CASE frame.state = "START"
  BY <1>1, <1>2, <1>3, CollectedByState
<1>4. CASE frame.state = "HEADER"
  BY <1>1, <1>2, <1>4, CollectedByState
<1>5. CASE frame.state = "LEN"
  <2>1. \/ Size(frame) = 5 /\ frame.roundsLeft = 1
        \/ Size(frame) > 5 /\ (Size(frame) + frame.roundsLeft) % 256 = 6
    BY <1>1, <1>5, CollectedByState
  <2>2. CASE Size(frame) > 5 /\ (Size(frame) + frame.roundsLeft) % 256 = 6
    BY <1>2, <1>5, <2>2, CountsPastTheBuffer
  <2> QED
    BY <1>2, <1>5, <2>1, <2>2
<1>6. CASE frame.state = "PAYLOAD_AND_CRC"
  <2>1. /\ Size(frame) > 5 /\ frame.roundsLeft > 0
        /\ Size(frame) + frame.roundsLeft = LengthByte(frame) + 8
    BY <1>1, <1>6, CollectedByState
  <2>2. LengthByte(frame) < 112
    BY <1>6 DEF Collecting, THERMIT_MAX_PAYLOAD_LENGTH
  <2>3. LengthByte(frame) \in 0..255
    BY <1>2, <2>1
  <2>4. frame.roundsLeft \in 1..113 /\ Size(frame) < 128
    <3>1. ASSUME NEW s \in Nat, NEW r \in Nat, NEW l \in Nat,
                 s > 5, r > 0, s + r = l + 8, l < 112
          PROVE  r \in 1..113 /\ s < 128
      BY <3>1
    <3>2. Size(frame) \in Nat /\ frame.roundsLeft \in Nat /\ LengthByte(frame) \in Nat
      BY <1>2, <2>3
    <3> QED
      BY <2>1, <2>2, <3>1, <3>2
  <2> QED
    BY <1>2, <1>6, <2>4
<1>7. CASE frame.state = "STOP"
  BY <1>1, <1>2, <1>7, CollectedByState
<1>8. CASE frame.state \notin {"START", "HEADER", "LEN", "PAYLOAD_AND_CRC", "STOP"}
  BY <1>2, <1>8
<1> QED
  BY <1>3, <1>4, <1>5, <1>6, <1>7, <1>8

LEMMA CoversSoMuch ==
  ASSUME NEW frame, Collecting(frame), Begun(frame)
  PROVE  Covers(frame) \in 1..122
<1>1. CASE frame.state \in {"START", "LEN"}
  BY <1>1, CoversByState
<1>2. CASE frame.state = "HEADER"
  BY <1>2, CoversByState, RoundsByState
<1>3. CASE frame.state = "PAYLOAD_AND_CRC"
  BY <1>3, CoversByState, RoundsByState
<1>4. CASE frame.state = "STOP"
  BY <1>4, CoversByState, RoundsByState
<1> QED
  BY <1>1, <1>2, <1>3, <1>4 DEF Begun

(* A byte brings the end of the frame nearer, or it is no frame any more,  *)
(* or the machine is lost.                                                 *)
Nearer(frame, next) ==
  \/ Lost(next)
  \/ next = StreamFramingInitialize
  \/ Begun(next) /\ Covers(next) \in Nat /\ Covers(next) < Covers(frame)

LEMMA ComesNearer ==
  ASSUME NEW frame, Collecting(frame), Begun(frame), ~Lost(frame), NEW byte \in 0..255
  PROVE  Nearer(frame, StreamFramingFollow(frame, byte))
<1> DEFINE stored == Stored(frame, byte)
           next   == StreamFramingFollow(frame, byte)
<1>1. frame \in Framing
  BY DEF Collecting
<1>2. CASE frame.state = "START"
  <2>1. frame.roundsLeft = 1
    BY <1>2 DEF Begun
  <2>2. CASE byte = START_CHAR
    <3>1. next = RoundDone(frame, "HEADER", 5)
      BY <1>2, <2>2 DEF StreamFramingFollow
    <3> HIDE DEF next
    <3>2. CountsDown(frame, "HEADER", 5, next)
      BY <1>1, <3>1, RoundDoneFields, StatesAndRounds
    <3>3. next.state = "HEADER" /\ next.roundsLeft = 5
      BY <2>1, <3>2 DEF CountsDown
    <3>4. Covers(next) = 121 /\ Covers(frame) = 122
      BY <1>2, <3>3, CoversByState
    <3>5. Nearer(frame, next)
      BY <3>3, <3>4 DEF Nearer, Begun
    <3> QED
      BY <3>5 DEF next
  <2>3. CASE byte # START_CHAR
    BY <1>2, <2>3 DEF StreamFramingFollow, WrongByte, Nearer
  <2> QED
    BY <2>2, <2>3
<1>3. CASE frame.state = "HEADER"
  <2>1. next = RoundDone(stored, "LEN", 1)
    BY <1>3 DEF StreamFramingFollow
  <2>2. frame.roundsLeft \in 1..5 /\ Size(frame) < 128
    BY <1>3, RoundsByState
  <2>3. stored \in Framing /\ stored.state = "HEADER" /\ stored.roundsLeft = frame.roundsLeft
    BY <1>1, <1>3, <2>2, StoredFields
  <2> HIDE DEF stored, next
  <2>4. CountsDown(stored, "LEN", 1, next)
    BY <2>1, <2>3, RoundDoneFields, StatesAndRounds
  <2>5. \/ next.state = "LEN" /\ next.roundsLeft = 1
        \/ next.state = "HEADER" /\ next.roundsLeft = frame.roundsLeft - 1
    BY <2>2, <2>3, <2>4 DEF CountsDown
  <2>6. Covers(next) \in Nat /\ Covers(next) < Covers(frame)
    BY <1>3, <2>2, <2>5, CoversByState
  <2>7. Nearer(frame, next)
    BY <2>5, <2>6 DEF Nearer, Begun
  <2> QED
    BY <2>7 DEF next
<1>4. CASE frame.state = "LEN"
  <2>1. frame.roundsLeft = 1 /\ Size(frame) = 5 /\ Size(frame) < 128
    BY <1>4, RoundsByState DEF Lost
  <2>2. stored \in Framing /\ stored.state = "LEN" /\ stored.roundsLeft = 1
    BY <1>1, <1>4, <2>1, StoredFields
  <2>3. CASE byte < THERMIT_MAX_PAYLOAD_LENGTH
    <3>1. next = RoundDone(stored, "PAYLOAD_AND_CRC", byte + 2)
      BY <1>4, <2>3 DEF StreamFramingFollow, AfterLength, THERMIT_MAX_PAYLOAD_LENGTH
    <3>2. byte + 2 \in 0..255 /\ byte + 4 < 116
      BY <2>3 DEF THERMIT_MAX_PAYLOAD_LENGTH
    <3> HIDE DEF stored, next
    <3>3. CountsDown(stored, "PAYLOAD_AND_CRC", byte + 2, next)
      BY <2>2, <3>1, <3>2, RoundDoneFields, StatesAndRounds
    <3>4. next.state = "PAYLOAD_AND_CRC" /\ next.roundsLeft = byte + 2
      BY <2>2, <3>3 DEF CountsDown
    <3>5. Covers(next) \in Nat /\ Covers(next) < Covers(frame)
      BY <1>4, <3>2, <3>4, CoversByState
    <3>6. Nearer(frame, next)
      BY <3>4, <3>5 DEF Nearer, Begun
    <3> QED
      BY <3>6 DEF next
  <2>4. CASE byte >= THERMIT_MAX_PAYLOAD_LENGTH
    <3>1. next = RoundDone(stored, "LEN", 0)
      BY <1>4, <2>4 DEF StreamFramingFollow, THERMIT_MAX_PAYLOAD_LENGTH
    <3> HIDE DEF stored, next
    <3>2. CountsDown(stored, "LEN", 0, next)
      BY <2>2, <3>1, RoundDoneFields, StatesAndRounds
    <3>3. next.state = "LEN" /\ next.roundsLeft = 0
      BY <2>2, <3>2 DEF CountsDown
    <3>4. Nearer(frame, next)
      BY <3>3 DEF Nearer, Lost
    <3> QED
      BY <3>4 DEF next
  <2> QED
    BY <2>3, <2>4 DEF THERMIT_MAX_PAYLOAD_LENGTH
<1>5. CASE frame.state = "PAYLOAD_AND_CRC"
  <2>1. next = RoundDone(stored, "STOP", 2)
    BY <1>5 DEF StreamFramingFollow
  <2>2. frame.roundsLeft \in 1..113 /\ Size(frame) < 128
    BY <1>5, RoundsByState
  <2>3. /\ stored \in Framing /\ stored.state = "PAYLOAD_AND_CRC"
        /\ stored.roundsLeft = frame.roundsLeft
    BY <1>1, <1>5, <2>2, StoredFields
  <2> HIDE DEF stored, next
  <2>4. CountsDown(stored, "STOP", 2, next)
    BY <2>1, <2>3, RoundDoneFields, StatesAndRounds
  <2>5. \/ frame.roundsLeft = 1 /\ next.state = "STOP" /\ next.roundsLeft = 2
        \/ next.state = "PAYLOAD_AND_CRC" /\ next.roundsLeft = frame.roundsLeft - 1
    BY <2>2, <2>3, <2>4 DEF CountsDown
  <2>6. Covers(next) \in Nat /\ Covers(next) < Covers(frame)
    BY <1>5, <2>2, <2>5, CoversByState
  <2>7. Nearer(frame, next)
    BY <2>5, <2>6 DEF Nearer, Begun
  <2> QED
    BY <2>7 DEF next
<1>6. CASE frame.state = "STOP"
  <2>1. frame.roundsLeft \in 1..2
    BY <1>6, RoundsByState
  <2>2. CASE byte = STOP_CHAR
    <3>1. next = RoundDone(frame, "FINISHED", 0)
      BY <1>6, <2>2 DEF StreamFramingFollow
    <3> HIDE DEF next
    <3>2. CountsDown(frame, "FINISHED", 0, next)
      BY <1>1, <3>1, RoundDoneFields, StatesAndRounds
    <3>3. \/ next.state = "FINISHED"
          \/ frame.roundsLeft = 2 /\ next.state = "STOP" /\ next.roundsLeft = 1
      BY <1>6, <2>1, <3>2 DEF CountsDown
    <3>4. Nearer(frame, next)
      BY <1>6, <3>3, CoversByState DEF Nearer, Begun, Lost, IsReady
    <3> QED
      BY <3>4 DEF next
  <2>3. CASE byte # STOP_CHAR
    BY <1>6, <2>3 DEF StreamFramingFollow, WrongByte, Nearer
  <2> QED
    BY <2>2, <2>3
<1> QED
  BY <1>2, <1>3, <1>4, <1>5, <1>6 DEF Begun

(* A lost machine stays lost. *)
LEMMA LostStaysLost ==
  ASSUME NEW frame, Collecting(frame), Lost(frame), ~IsReady(frame), NEW byte \in 0..255
  PROVE  /\ Lost(StreamFramingFollow(frame, byte))
         /\ ~IsReady(StreamFramingFollow(frame, byte))
<1> DEFINE stored == Stored(frame, byte)
           next   == StreamFramingFollow(frame, byte)
<1>1. frame \in Framing
  BY DEF Collecting
<1>2. CASE frame.state = "UNDEFINED"
  <2>1. next = frame
    BY <1>2 DEF StreamFramingFollow
  <2> QED
    BY <2>1
<1>3. CASE frame.state = "LEN" /\ frame.roundsLeft # 1
  <2>1. PICK after \in FramingState, rounds \in 0..255 : next = RoundDone(stored, after, rounds)
    <3>1. CASE byte < THERMIT_MAX_PAYLOAD_LENGTH
      <4>1. next = RoundDone(stored, "PAYLOAD_AND_CRC", byte + 2)
        BY <1>3, <3>1 DEF StreamFramingFollow, AfterLength, THERMIT_MAX_PAYLOAD_LENGTH
      <4>2. byte + 2 \in 0..255
        BY <3>1 DEF THERMIT_MAX_PAYLOAD_LENGTH
      <4> QED
        BY <4>1, <4>2, StatesAndRounds
    <3>2. CASE byte >= THERMIT_MAX_PAYLOAD_LENGTH
      <4>1. next = RoundDone(stored, "LEN", 0)
        BY <1>3, <3>2 DEF StreamFramingFollow, THERMIT_MAX_PAYLOAD_LENGTH
      <4> QED
        BY <4>1, StatesAndRounds
    <3> QED
      BY <3>1, <3>2 DEF THERMIT_MAX_PAYLOAD_LENGTH
  <2>2. \/ stored.state = "UNDEFINED" /\ stored.roundsLeft = 0 /\ stored \in Framing
        \/ /\ stored.state = "LEN" /\ stored.roundsLeft = frame.roundsLeft
           /\ Size(stored) = Size(frame) + 1 /\ stored \in Framing
    <3>1. CASE Size(frame) < 128
      BY <1>1, <1>3, <3>1, StoredFields
    <3>2. CASE ~(Size(frame) < 128)
      BY <1>1, <3>2, StoredBehind
    <3> QED
      BY <3>1, <3>2
  <2>3. Collecting(next)
    BY EveryByteFollows DEF Follows
  <2>4. Size(frame) \in Nat /\ Size(frame) > 5
    <3>1. \/ Size(frame) = 5 /\ frame.roundsLeft = 1
          \/ Size(frame) > 5 /\ (Size(frame) + frame.roundsLeft) % 256 = 6
      BY <1>3, CollectedByState DEF Collecting
    <3> QED
      BY <1>1, <1>3, <3>1, FramingFields
  <2> HIDE DEF stored, next
  <2>5. CountsDown(stored, after, rounds, next)
    BY <2>1, <2>2, RoundDoneFields
  <2>6. next.state = "UNDEFINED" \/ (next.state = "LEN" /\ Size(next) = Size(frame) + 1)
    BY <1>3, <2>2, <2>5 DEF CountsDown, Size
  <2>7. Lost(next) /\ ~IsReady(next)
    <3>1. next.state = "LEN" => next.roundsLeft # 1
      BY <2>3, <2>4, <2>6, RoundsByState
    <3> QED
      BY <2>6, <3>1 DEF Lost, IsReady
  <2> QED
    BY <2>7 DEF next
<1> QED
  BY <1>2, <1>3 DEF Lost

-----------------------------------------------------------------------------
(***************************************************************************)
(* The reader after noise, with m frames missed and p bytes read of an     *)
(* undamaged frame of n bytes: it collects this frame, or it is still      *)
(* collecting another, or it is waiting for the next one.  The bytes left  *)
(* of the other and those of the frames missed for it are no more than the *)
(* longest frame covers.                                                   *)
(***************************************************************************)
Aligned(pkt, frame, m, n, p) == frame = After(FrameBytes(pkt), n, p) /\ m <= 11

Swallows(frame, m, p) == Begun(frame) /\ 12 * m + p + Covers(frame) <= 122

Waits(pkt, frame, m, p) ==
  /\ p >= 1 /\ m <= 10 /\ frame.state = "START"
  /\ frame.roundsLeft = 1 => p >= 2 /\ WireBytes(pkt)[p] = START_CHAR

Listens(pkt, frame, m, n, p) ==
  Aligned(pkt, frame, m, n, p) \/ Swallows(frame, m, p) \/ Waits(pkt, frame, m, p)

(* Between two frames. *)
Between(frame, m) ==
  (frame = StreamFramingInitialize /\ m <= 11) \/ Swallows(frame, m, 0)

LEMMA NoneMissedYet ==
  ASSUME NEW frame, Collecting(frame), ~Lost(frame)
  PROVE  Between(frame, 0)
<1>1. CASE Begun(frame)
  <2>1. Covers(frame) \in 1..122
    BY <1>1, CoversSoMuch
  <2>2. 12 * 0 + 0 + Covers(frame) <= 122
    BY <2>1
  <2> QED
    BY <1>1, <2>2 DEF Between, Swallows
<1>2. CASE ~Begun(frame)
  <2>1. frame \in Framing
    BY DEF Collecting
  <2>2. frame.state \in FramingState
    BY <2>1, FramingFields
  <2>3. frame.state = "START"
    BY <1>2, <2>2 DEF Begun, Lost, IsReady, FramingState
  <2>4. frame.roundsLeft = 2 /\ Size(frame) = 0
    BY <1>2, <2>3, RoundsByState DEF Begun
  <2>5. /\ frame \in [state : FramingState, roundsLeft : 0..255, buf : Seq(0..255)]
        /\ frame.buf \in Seq(0..255)
    BY <2>1 DEF Framing
  <2>6. frame.buf = <<>>
    BY <2>4, <2>5, EmptySeq DEF Size
  <2>7. frame = StreamFramingInitialize
    BY <2>3, <2>4, <2>5, <2>6 DEF StreamFramingInitialize
  <2> QED
    BY <2>7 DEF Between
<1> QED
  BY <1>1, <1>2

LEMMA FrameBegins ==
  ASSUME NEW pkt, NEW n, Sendable(pkt, n), NEW frame, NEW m, Between(frame, m)
  PROVE  Listens(pkt, frame, m, n, 0)
<1>1. n \in 8 .. 68
  BY DEF Sendable
<1>2. AfterByCase(FrameBytes(pkt), n, 0)
  BY <1>1, CasesOfAfter
<1>3. After(FrameBytes(pkt), n, 0) = StreamFramingInitialize
  BY <1>2 DEF AfterByCase, Machine, StreamFramingInitialize
<1> QED
  BY <1>3 DEF Between, Listens, Aligned

(* A read byte; with the last one the frame is heard or missed. *)
Heard(next) == Fits(next) /\ IsWholeFrame(next.buf)

Reads(next, m, ends, after, counted) ==
  \/ Heard(next) /\ after = StreamFramingInitialize /\ counted = 0
  \/ /\ ~Heard(next)
     /\ after = IF Fits(next) THEN StreamFramingInitialize ELSE next
     /\ counted = IF ends /\ m <= 11 THEN m + 1 ELSE m

GoesOn(pkt, after, counted, n, p) ==
  \/ Lost(after)
  \/ p # n + 3 /\ Listens(pkt, after, counted, n, p + 1)
  \/ p = n + 3 /\ Between(after, counted)

LEMMA AlignedReads ==
  ASSUME NEW pkt, NEW n, Sendable(pkt, n), NEW p \in 0 .. n + 3,
         NEW frame, NEW m \in Nat, Aligned(pkt, frame, m, n, p),
         NEW after, NEW counted,
         Reads(StreamFramingFollow(frame, WireBytes(pkt)[p + 1]), m, p = n + 3, after, counted)
  PROVE  GoesOn(pkt, after, counted, n, p)
<1> DEFINE next == StreamFramingFollow(frame, WireBytes(pkt)[p + 1])
<1>1. n \in 8 .. 68
  BY DEF Sendable
<1>2. next = After(FrameBytes(pkt), n, p + 1)
  BY <1>1, OneByteFurther DEF Sendable, Aligned
<1> HIDE DEF next
<1>3. CASE p # n + 3
  <2>1. ~Fits(next)
    BY <1>2, <1>3, FrameFinished
  <2>2. after = next /\ counted = m
    BY <1>3, <2>1 DEF next, Reads, Heard
  <2> QED
    BY <1>2, <1>3, <2>2 DEF GoesOn, Listens, Aligned
<1>4. CASE p = n + 3
  <2>1. Fits(next) /\ next.buf = FrameBytes(pkt)
    BY <1>2, <1>4, FrameFinished
  <2>2. Heard(next)
    BY <2>1 DEF Heard, Sendable
  <2>3. after = StreamFramingInitialize /\ counted = 0
    BY <2>2 DEF next, Reads
  <2> QED
    BY <1>4, <2>3 DEF GoesOn, Between
<1> QED
  BY <1>3, <1>4

LEMMA SwallowingReads ==
  ASSUME NEW pkt, NEW n \in 8 .. 68, NEW p \in 0 .. n + 3, NEW byte \in 0 .. 255,
         NEW frame, Collecting(frame), ~Lost(frame),
         NEW m \in Nat, Swallows(frame, m, p),
         NEW after, NEW counted,
         Reads(StreamFramingFollow(frame, byte), m, p = n + 3, after, counted)
  PROVE  GoesOn(pkt, after, counted, n, p)
<1> DEFINE next == StreamFramingFollow(frame, byte)
           left == Covers(frame)
<1>1. Nearer(frame, next)
  BY ComesNearer DEF Swallows
<1>2. left \in 1 .. 122 /\ 12 * m + p + left <= 122
  BY CoversSoMuch DEF Swallows
<1> HIDE DEF next, left
<1>3. after = StreamFramingInitialize \/ (after = next /\ ~Fits(next))
  BY DEF next, Reads
<1>4. counted \in {0, m} \/ (p = n + 3 /\ counted = m + 1)
  BY DEF next, Reads
<1>5. CASE after = StreamFramingInitialize
  <2>1. CASE p # n + 3
    <3>1. counted <= 10 /\ p + 1 >= 1
      BY <1>2, <1>4, <2>1
    <3>2. Waits(pkt, after, counted, p + 1)
      BY <1>5, <3>1 DEF Waits, StreamFramingInitialize
    <3> QED
      BY <2>1, <3>2 DEF GoesOn, Listens
  <2>2. CASE p = n + 3
    <3>1. counted <= 11
      BY <1>2, <1>4
    <3> QED
      BY <1>5, <2>2, <3>1 DEF GoesOn, Between
  <2> QED
    BY <2>1, <2>2
<1>6. CASE after = next /\ Lost(next)
  BY <1>6 DEF GoesOn
<1>7. CASE after = next /\ next # StreamFramingInitialize /\ ~Lost(next)
  <2> DEFINE less == Covers(next)
  <2>1. Begun(next) /\ less \in Nat /\ less < left
    BY <1>1, <1>7 DEF Nearer, left
  <2> HIDE DEF less
  <2>2. CASE p # n + 3
    <3>1. 12 * counted + (p + 1) + less <= 122
      BY <1>2, <1>4, <2>1, <2>2
    <3>2. Swallows(after, counted, p + 1)
      BY <1>7, <2>1, <3>1 DEF Swallows, less
    <3> QED
      BY <2>2, <3>2 DEF GoesOn, Listens
  <2>3. CASE p = n + 3
    <3>1. 12 * counted + 0 + less <= 122
      BY <1>2, <1>4, <2>1, <2>3
    <3>2. Swallows(after, counted, 0)
      BY <1>7, <2>1, <3>1 DEF Swallows, less
    <3> QED
      BY <2>3, <3>2 DEF GoesOn, Between
  <2> QED
    BY <2>2, <2>3
<1> QED
  BY <1>3, <1>5, <1>6, <1>7

LEMMA WaitingReads ==
  ASSUME NEW pkt, NEW n, Sendable(pkt, n), NEW p \in 0 .. n + 3,
         \A k \in 2 .. n + 3 :
           WireBytes(pkt)[k] = START_CHAR => WireBytes(pkt)[k + 1] # START_CHAR,
         NEW frame, Collecting(frame), NEW m \in Nat, Waits(pkt, frame, m, p),
         NEW after, NEW counted,
         Reads(StreamFramingFollow(frame, WireBytes(pkt)[p + 1]), m, p = n + 3, after, counted)
  PROVE  GoesOn(pkt, after, counted, n, p)
<1> DEFINE byte == WireBytes(pkt)[p + 1]
           next == StreamFramingFollow(frame, byte)
<1>1. n \in 8 .. 68 /\ p >= 1 /\ m <= 10 /\ frame.state = "START"
  BY DEF Sendable, Waits
<1>2. frame.roundsLeft \in 1..2 /\ frame \in Framing
  BY <1>1, RoundsByState DEF Collecting
<1>3. /\ next.state = "START"
      /\ next.roundsLeft = 1 => frame.roundsLeft = 2 /\ byte = START_CHAR
      /\ byte # START_CHAR => next = StreamFramingInitialize
  <2>1. CASE byte # START_CHAR
    <3>1. next = StreamFramingInitialize
      BY <1>1, <2>1 DEF StreamFramingFollow, WrongByte
    <3> QED
      BY <3>1 DEF StreamFramingInitialize
  <2>2. CASE byte = START_CHAR
    <3>1. frame.roundsLeft = 2
      <4> SUFFICES ASSUME frame.roundsLeft = 1 PROVE FALSE
        BY <1>2
      <4>1. p >= 2 /\ WireBytes(pkt)[p] = START_CHAR
        BY DEF Waits
      <4>2. p \in 2 .. n + 3
        BY <1>1, <4>1
      <4> QED
        BY <2>2, <4>1, <4>2
    <3>2. next = RoundDone(frame, "HEADER", 5)
      BY <1>1, <2>2 DEF StreamFramingFollow
    <3> HIDE DEF next
    <3>3. CountsDown(frame, "HEADER", 5, next)
      BY <1>2, <3>2, RoundDoneFields, StatesAndRounds
    <3> QED
      BY <1>1, <2>2, <3>1, <3>3 DEF CountsDown
  <2> QED
    BY <2>1, <2>2
<1>4. p = n + 3 => byte # START_CHAR
  <2> SUFFICES ASSUME p = n + 3 PROVE byte # START_CHAR
    OBVIOUS
  <2>1. p + 1 = n + 4
    BY <1>1
  <2> QED
    BY <2>1 DEF Sendable, OnTheWire, START_CHAR, STOP_CHAR
<1> HIDE DEF next
<1>5. ~Fits(next)
  BY <1>3 DEF Fits, IsReady
<1>6. after = next /\ counted = IF p = n + 3 /\ m <= 11 THEN m + 1 ELSE m
  BY <1>5 DEF next, byte, Reads, Heard
<1>7. CASE p # n + 3
  <2>1. counted <= 10 /\ p + 1 >= 2 /\ p + 1 >= 1
    BY <1>1, <1>6, <1>7
  <2>2. Waits(pkt, after, counted, p + 1)
    BY <1>3, <1>6, <2>1 DEF Waits, byte
  <2> QED
    BY <1>7, <2>2 DEF GoesOn, Listens
<1>8. CASE p = n + 3
  <2>1. counted <= 11 /\ after = StreamFramingInitialize
    BY <1>1, <1>3, <1>4, <1>6, <1>8
  <2> QED
    BY <1>8, <2>1 DEF GoesOn, Between
<1> QED
  BY <1>7, <1>8

(***************************************************************************)
(* The invariant: the reader is lost, or what it has missed of undamaged   *)
(* frames is within the bounds above, or the frame on the wire is not      *)
(* undamaged and none has been missed since.                               *)
(***************************************************************************)
OnTheLine(pkt, w, frame, m) ==
  \E p \in Nat : /\ Rest(pkt, w, Count(FrameBytes(pkt)), p)
                 /\ Listens(pkt, frame, m, Count(FrameBytes(pkt)), p)

HearsInv ==
  /\ missed \in Nat
  /\ \/ Lost(framing)
     \/ harm # "none" /\ missed = 0
     \/ /\ harm = "none"
        /\ \/ wire = <<>> /\ Between(framing, missed)
           \/ OnTheLine(Traffic[last], wire, framing, missed)

LEMMA HearsInit == Init => HearsInv
BY DEF Init, HearsInv, Between

(* Noise sets the count back; nothing but a byte that is read moves the framing. *)
LEMMA NoiseStartsOver ==
  ASSUME HearsInv, DeviceWriteFails \/ Damage \/ LoseByte \/ Reopen
  PROVE  HearsInv'
<1>1. missed' = 0 /\ harm' # "none" /\ framing' = framing
  BY DEF DeviceWriteFails, Writes, Damage, LoseByte, Struck, Reopen, NoiseStrikes
<1> QED
  BY <1>1 DEF HearsInv

LEMMA HearsWrite ==
  ASSUME FramingInv, HearsInv, DeviceWrite
  PROVE  HearsInv'
<1>1. wire = <<>> /\ harm' = "none" /\ missed' = missed /\ framing' = framing
  BY DEF DeviceWrite, Writes
<1>2. missed \in Nat
  BY DEF HearsInv
<1>3. CASE Lost(framing)
  BY <1>1, <1>2, <1>3 DEF HearsInv
<1>4. CASE ~Lost(framing)
  <2>1. Between(framing, missed)
    <3>1. CASE harm # "none"
      BY <1>4, <3>1, NoneMissedYet DEF HearsInv, FramingInv
    <3>2. CASE harm = "none"
      <4>1. ASSUME OnTheLine(Traffic[last], wire, framing, missed) PROVE FALSE
        <5>1. PICK n : n = Count(FrameBytes(Traffic[last])) /\ Sendable(Traffic[last], n)
          BY TrafficIsSendable DEF FramingInv
        <5>2. PICK p \in Nat : Rest(Traffic[last], wire, n, p)
          BY <4>1, <5>1 DEF OnTheLine
        <5>3. Len(wire) = n + 4 - p
          BY <5>1, <5>2, RestOfTheWire
        <5>4. n + 4 - p # 0
          BY <5>1, <5>2 DEF Sendable, Rest
        <5> QED
          BY <1>1, <5>3, <5>4, EmptySeq
      <4> QED
        BY <1>4, <3>2, <4>1 DEF HearsInv
    <3> QED
      BY <3>1, <3>2
  <2>2. last' \in DOMAIN Traffic /\ wire' = WireBytes(Traffic[last'])
    BY BytesAreWritten DEF DeviceWrite, Writes, NextWireBytes, FramingInv
  <2>3. PICK n : n = Count(FrameBytes(Traffic[last'])) /\ Sendable(Traffic[last'], n)
    BY <2>2, TrafficIsSendable
  <2>4. Rest(Traffic[last'], wire', n, 0)
    <3>1. n \in 8 .. 68 /\ Count(wire') = n + 4 /\ wire' \in Seq(Byte)
      BY <2>2, <2>3 DEF Sendable, OnTheWire
    <3>2. 0 \in 0 .. n + 3 /\ 0 + 1 = 1
      BY <3>1
    <3>3. SubSeq(wire', 1, n + 4) = wire'
      BY <3>1, SubSeqFull DEF Count
    <3> QED
      BY <2>2, <3>2, <3>3 DEF Rest
  <2>5. Listens(Traffic[last'], framing', missed', n, 0)
    BY <1>1, <2>1, <2>3, FrameBegins
  <2>6. OnTheLine(Traffic[last'], wire', framing', missed')
    BY <2>3, <2>4, <2>5 DEF OnTheLine
  <2> QED
    BY <1>1, <1>2, <2>6 DEF HearsInv
<1> QED
  BY <1>3, <1>4

LEMMA HearsRead ==
  ASSUME NoDoubleStart, FramingInv, HearsInv, DeviceRead
  PROVE  HearsInv'
<1> DEFINE pkt  == Traffic[last]
           next == FollowedFrame
<1>1. /\ wire # <<>> /\ wire' = Tail(wire) /\ ~IsReady(framing)
      /\ last' = last /\ harm' = harm
      /\ ReadPacket \/ ReadByte
  BY DEF DeviceRead, ReadPacket, ReadByte, ReadsByte
<1>2. Head(wire) \in 0 .. 255 /\ Collecting(framing) /\ missed \in Nat
  BY <1>1, PartsOfTheWire DEF FramingInv, HearsInv, Byte
<1>3. ResyncFrames = 11
  BY DEF ResyncFrames, ShortestFrame, THERMIT_MAX_PAYLOAD_LENGTH
<1>4. Reads(next, missed, Len(wire) = 1 /\ harm = "none", framing', missed')
  BY <1>1, <1>3 DEF ReadPacket, ReadByte, Reads, Heard, MissesOne
<1>5. missed' \in Nat
  BY <1>2, <1>4 DEF Reads
<1>6. CASE Lost(framing)
  <2>1. Lost(next) /\ ~IsReady(next)
    BY <1>1, <1>2, <1>6, LostStaysLost DEF FollowedFrame
  <2>2. framing' = next
    BY <1>4, <2>1 DEF Reads, Heard, Fits
  <2> QED
    BY <1>5, <2>1, <2>2 DEF HearsInv
<1>7. CASE ~Lost(framing) /\ harm # "none"
  <2>1. missed = 0
    BY <1>7 DEF HearsInv
  <2>2. missed' = 0
    BY <1>4, <1>7, <2>1 DEF Reads
  <2> QED
    BY <1>1, <1>7, <2>2 DEF HearsInv
<1>8. CASE ~Lost(framing) /\ harm = "none"
  <2>1. OnTheLine(pkt, wire, framing, missed)
    BY <1>1, <1>8 DEF HearsInv
  <2>2. PICK n : n = Count(FrameBytes(pkt)) /\ Sendable(pkt, n)
    BY TrafficIsSendable DEF FramingInv
  <2>3. PICK p \in Nat : Rest(pkt, wire, n, p) /\ Listens(pkt, framing, missed, n, p)
    BY <2>1, <2>2 DEF OnTheLine
  <2>4. n \in 8 .. 68 /\ p \in 0 .. n + 3
    BY <2>2, <2>3 DEF Sendable, Rest
  <2>5. /\ Head(wire) = WireBytes(pkt)[p + 1]
        /\ wire' = SubSeq(WireBytes(pkt), p + 2, n + 4)
        /\ Len(wire) = n + 4 - p
    BY <1>1, <2>2, <2>3, RestOfTheWire
  <2>6. \A k \in 2 .. n + 3 :
          WireBytes(pkt)[k] = START_CHAR => WireBytes(pkt)[k + 1] # START_CHAR
    <3>1. Len(WireBytes(pkt)) = n + 4
      BY <2>2 DEF Sendable, OnTheWire, Count
    <3>2. (n + 4) - 1 = n + 3
      BY <2>4
    <3> QED
      BY <3>1, <3>2 DEF NoDoubleStart, FramingInv
  <2>7. (Len(wire) = 1 /\ harm = "none") <=> p = n + 3
    <3>1. n + 4 - p = 1 <=> p = n + 3
      BY <2>4
    <3> QED
      BY <1>8, <2>5, <3>1
  <2>8. Reads(StreamFramingFollow(framing, WireBytes(pkt)[p + 1]), missed, p = n + 3,
              framing', missed')
    BY <1>4, <2>5, <2>7 DEF FollowedFrame, Reads
  <2> HIDE DEF pkt
  <2>9. GoesOn(pkt, framing', missed', n, p)
    <3>1. CASE Aligned(pkt, framing, missed, n, p)
      BY <1>2, <2>2, <2>4, <2>8, <3>1, AlignedReads
    <3>2. CASE Swallows(framing, missed, p)
      BY <1>2, <1>8, <2>4, <2>5, <2>8, <3>2, SwallowingReads
    <3>3. CASE Waits(pkt, framing, missed, p)
      BY <1>2, <2>2, <2>4, <2>6, <2>8, <3>3, WaitingReads
    <3> QED
      BY <2>3, <3>1, <3>2, <3>3 DEF Listens
  <2>10. CASE Lost(framing')
    BY <1>5, <2>10 DEF HearsInv
  <2>11. CASE p # n + 3 /\ Listens(pkt, framing', missed', n, p + 1)
    <3>1. p + 1 \in Nat /\ p + 1 \in 0 .. n + 3 /\ (p + 1) + 1 = p + 2
      BY <2>4, <2>11
    <3>2. Rest(pkt, wire', n, p + 1)
      BY <2>5, <3>1 DEF Rest
    <3>3. OnTheLine(pkt, wire', framing', missed')
      BY <2>2, <2>11, <3>1, <3>2 DEF OnTheLine
    <3> QED
      BY <1>1, <1>5, <1>8, <3>3 DEF HearsInv, pkt
  <2>12. CASE p = n + 3 /\ Between(framing', missed')
    <3>1. p + 2 \in Int /\ n + 4 \in Int /\ n + 4 < p + 2
      BY <2>4, <2>12
    <3>2. wire' = <<>>
      BY <2>5, <3>1, SubSeqEmpty
    <3> QED
      BY <1>1, <1>5, <1>8, <2>12, <3>2 DEF HearsInv
  <2> QED
    BY <2>9, <2>10, <2>11, <2>12 DEF GoesOn
<1> QED
  BY <1>6, <1>7, <1>8

LEMMA HearsStep ==
  ASSUME NoDoubleStart, FramingInv, HearsInv, [Next]_vars
  PROVE  HearsInv'
<1>1. CASE UNCHANGED vars
  BY <1>1 DEF vars, HearsInv
<1> QED
  BY <1>1, NoiseStartsOver, HearsWrite, HearsRead DEF Next

LEMMA HearsInvImplies == FramingInv /\ HearsInv => HearsAgainSoon
<1> SUFFICES ASSUME FramingInv, HearsInv, ~Lost(framing) PROVE missed <= 11
  BY DEF HearsAgainSoon, LostForGood, Lost, ResyncFrames, ShortestFrame,
     THERMIT_MAX_PAYLOAD_LENGTH
<1>1. missed \in Nat /\ Collecting(framing)
  BY DEF HearsInv, FramingInv
<1>2. ASSUME NEW p \in Nat, Swallows(framing, missed, p) PROVE missed <= 11
  <2>1. Covers(framing) \in 1 .. 122
    BY <1>1, <1>2, CoversSoMuch DEF Swallows
  <2>2. 12 * missed + p + Covers(framing) <= 122
    BY <1>2 DEF Swallows
  <2> QED
    BY <1>1, <1>2, <2>1, <2>2
<1>3. ASSUME Between(framing, missed) PROVE missed <= 11
  BY <1>2, <1>3 DEF Between
<1>4. ASSUME OnTheLine(Traffic[last], wire, framing, missed) PROVE missed <= 11
  <2> DEFINE n == Count(FrameBytes(Traffic[last]))
  <2>1. PICK p \in Nat : Listens(Traffic[last], framing, missed, n, p)
    BY <1>4 DEF OnTheLine
  <2>2. ASSUME Waits(Traffic[last], framing, missed, p) PROVE missed <= 11
    BY <1>1, <2>2 DEF Waits
  <2> QED
    BY <1>2, <2>1, <2>2 DEF Listens, Aligned
<1> QED
  BY <1>1, <1>3, <1>4 DEF HearsInv

(***************************************************************************)
(* However long the noise lasts and whatever bytes it makes: afterwards    *)
(* the reader, unless it is lost, misses no more than ResyncFrames frames  *)
(* in a row.  For every traffic without two start characters in a row      *)
(* inside a frame (streamFraming.c 26-121, ioLinux.c 351-396).             *)
(***************************************************************************)
THEOREM HeardAgainSoon ==
  ASSUME NoDoubleStart
  PROVE  Spec => []HearsAgainSoon
<1>1. FramingInv /\ HearsInv /\ [Next]_vars => HearsInv'
  BY HearsStep
<1> QED
  BY <1>1, HearsInit, HearsInvImplies, FramingHolds, PTL DEF Spec
=============================================================================
