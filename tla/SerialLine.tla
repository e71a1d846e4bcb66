----------------------------- MODULE SerialLine -----------------------------
(***************************************************************************)
(* A serial line of ioLinux.c: ioDeviceWrite at one end, ioDeviceRead over *)
(* streamFraming.c at the other, and parsePacketContent on what it hands   *)
(* over.  Between them bytes are damaged and lost.                         *)
(***************************************************************************)
EXTENDS StreamFraming, Frames, FiniteSets

CONSTANTS
  Traffic,      \* the packets the peer's protocol sends, over and over
  NoiseBytes,   \* what a damaged byte may turn into
  NoiseMax      \* bound: bytes damaged or lost, writes cut short, devices reopened

ASSUME SerialAssumption ==
  /\ Traffic \in Seq(Packet) /\ Traffic # <<>>
  /\ NoiseBytes \subseteq Byte
  /\ NoiseMax \in Nat

VARIABLES
  wire,      \* the bytes written and not yet read
  last,      \* the place in Traffic of the frame written last
  framing,   \* frameStorage[0]
  handed,    \* the packet last handed over with a right CRC
  noise,     \* what noise has done so far
  harm,      \* what noise has done to the frame on the wire
  missed     \* whole frames read in vain since noise struck

vars == <<wire, last, framing, handed, noise, harm, missed>>

TypeOK ==
  /\ wire \in Seq(Byte)
  /\ last \in DOMAIN Traffic
  /\ handed \in Packet
  /\ framing \in Framing
  /\ noise \in 0..NoiseMax
  /\ harm \in {"none", "noise", "cut"}
  /\ missed \in Nat

Init ==
  /\ wire = <<>>
  /\ framing = StreamFramingInitialize
  /\ last \in DOMAIN Traffic /\ handed = Traffic[last]
  /\ noise = 0 /\ harm = "none" /\ missed = 0

-----------------------------------------------------------------------------
(* ioDeviceWrite: start characters, frame, stop characters. *)
WireBytes(pkt) ==
  <<START_CHAR, START_CHAR>> \o FrameBytes(pkt) \o <<STOP_CHAR, STOP_CHAR>>

(* What is written are bytes, and no payload is longer than frameFinalize   *)
(* accepts.                                                                *)
ASSUME TrafficAssumption ==
  \A i \in DOMAIN Traffic :
    /\ WireBytes(Traffic[i]) \in Seq(Byte)
    /\ Len(Traffic[i].payload) <= PayloadSize

(* Bound: the peer's next frame is written when the one before is read.     *)
Writes ==
  /\ wire = <<>>
  /\ last' = (last % Len(Traffic)) + 1
  /\ UNCHANGED <<framing, handed>>

NextWireBytes == WireBytes(Traffic[(last % Len(Traffic)) + 1])

DeviceWrite ==
  /\ Writes
  /\ wire' = NextWireBytes
  /\ harm' = "none"
  /\ UNCHANGED <<noise, missed>>

(* Bound: noise strikes one frame NoiseMax times. *)
NoiseStrikes ==
  /\ noise < NoiseMax
  /\ noise > 0 => harm # "none"
  /\ noise' = noise + 1
  /\ missed' = 0

(* A write() fails: the frame is left without its end. *)
DeviceWriteFails ==
  /\ Writes
  /\ NoiseStrikes
  /\ harm' = "cut"
  /\ \E n \in 0 .. Len(NextWireBytes) - 1 : wire' = SubSeq(NextWireBytes, 1, n)

Struck ==
  /\ wire # <<>>
  /\ NoiseStrikes
  /\ harm' = IF harm = "cut" THEN "cut" ELSE "noise"
  /\ UNCHANGED <<last, framing, handed>>

Damage ==
  /\ Struck
  /\ \E b \in NoiseBytes \ {Head(wire)} : wire' = [wire EXCEPT ![1] = b]

LoseByte ==
  /\ Struck
  /\ wire' = Tail(wire)

(* Another instance opens the device: what is pending is read and dropped.  *)
(* frameStorage is static, so that a frame begun by the instance before is  *)
(* still being collected.                                                   *)
Reopen ==
  /\ NoiseStrikes
  /\ wire' = <<>>
  /\ harm' = "noise"
  /\ UNCHANGED <<last, framing, handed>>

-----------------------------------------------------------------------------
(***************************************************************************)
(* ioDeviceRead, one turn of its loop: a byte is read as long as there is  *)
(* no finished frame, and frame is what the framing makes of it.           *)
(***************************************************************************)
FollowedFrame == StreamFramingFollow(framing, Head(wire))

ReadsByte ==
  /\ wire # <<>> /\ ~IsReady(framing)
  /\ wire' = Tail(wire)
  /\ UNCHANGED <<last, noise, harm>>

(* A finished frame that fits into the caller's buffer is handed over. *)
Fits(frame) == IsReady(frame) /\ Len(frame.buf) <= MsgSizeMax

ReadPacket ==
  /\ ReadsByte
  /\ Fits(FollowedFrame) /\ IsWholeFrame(FollowedFrame.buf)
  /\ framing' = StreamFramingInitialize
  /\ handed' = ParsePacketContent(FollowedFrame.buf)
  /\ missed' = 0

(* The frames of the shortest kind that the longest length the machine      *)
(* believes can cover, and two.                                             *)
ShortestFrame == 12
ResyncFrames  == (THERMIT_MAX_PAYLOAD_LENGTH + 7) \div ShortestFrame + 2

(* Was the last byte of an undamaged frame read in vain?  Bound: counted to *)
(* one more than ResyncFrames.                                              *)
MissesOne == Len(wire) = 1 /\ harm = "none" /\ missed <= ResyncFrames

(* No frame is finished, or parsePacketContent drops it, or it is too long  *)
(* for the caller and left where it is.                                     *)
ReadByte ==
  /\ ReadsByte
  /\ ~(Fits(FollowedFrame) /\ IsWholeFrame(FollowedFrame.buf))
  /\ framing' = IF Fits(FollowedFrame) THEN StreamFramingInitialize ELSE FollowedFrame
  /\ missed' = IF MissesOne THEN missed + 1 ELSE missed
  /\ UNCHANGED handed

DeviceRead == ReadPacket \/ ReadByte

Next == DeviceWrite \/ DeviceWriteFails \/ Damage \/ LoseByte \/ Reopen \/ DeviceRead

Spec == Init /\ [][Next]_vars

(* The peer steps for ever, and so does the reader. *)
Fairness == WF_vars(DeviceWrite) /\ WF_vars(DeviceRead)

FairSpec == Spec /\ Fairness

-----------------------------------------------------------------------------
(***************************************************************************)
(* The framing never holds anything but the beginning of one frame, as     *)
(* long as its length byte says it is (streamFraming.c 48-86).             *)
(***************************************************************************)
FramingCollectsOneFrame == CollectsOneFrame(framing)

(***************************************************************************)
(* The buffer is run over after a length of 112 or more and in no other    *)
(* way, although nothing checks the room in it: neither noise nor what was *)
(* collected before can add up to that (streamFraming.c 49, 61-77).        *)
(***************************************************************************)
OverrunsAfterLongLength ==
  [][framing.state # "UNDEFINED" /\ framing'.state = "UNDEFINED"
       => framing.state = "LEN" /\ framing.buf[6] >= THERMIT_MAX_PAYLOAD_LENGTH]_vars

(* Nothing is read any more, or nothing can be said of what is read: a      *)
(* finished frame is too long for the caller, or a length of 112 or more    *)
(* was taken and the buffer is being run over.                              *)
LostForGood ==
  \/ IsReady(framing)
  \/ framing.state = "LEN" /\ framing.roundsLeft # 1
  \/ framing.state = "UNDEFINED"

(***************************************************************************)
(* Without noise every frame that was written is handed over as it was     *)
(* sent, and none is missed: lengths, counts and CRC of the two ends fit   *)
(* (thermit.c 664-782, streamFraming.c 24-121, ioLinux.c 351-427).         *)
(***************************************************************************)
QuietLineDelivers ==
  noise = 0 => /\ missed = 0
               /\ wire = <<>> => handed = Traffic[last]

(* No frame has two start characters in a row inside; with such a frame     *)
(* sent again and again the reader can begin in its middle each time.       *)
NoDoubleStart ==
  \A i \in DOMAIN Traffic :
    LET bytes == WireBytes(Traffic[i])
    IN \A k \in 2 .. Len(bytes) - 1 : bytes[k] = START_CHAR => bytes[k + 1] # START_CHAR

(***************************************************************************)
(* After noise the framing finds the frames again: while it is not lost    *)
(* for good it misses, of the undamaged frames that follow, no more than   *)
(* one swallowed frame can cover, one in whose start that one ends, and    *)
(* one more.  This is for traffic with NoDoubleStart (streamFraming.c      *)
(* 35-46, 88-121, ioLinux.c 379-392).                                      *)
(***************************************************************************)
HearsAgainSoon == LostForGood \/ missed <= ResyncFrames

(***************************************************************************)
(* "automatic re-synchronization after communication loss" (README.md:16): *)
(* when frames are missed, one is heard again in the end.  Nothing is      *)
(* claimed of a machine that ran over its buffer.                          *)
(***************************************************************************)
HearsAgain == missed > 0 ~> missed = 0 \/ framing.state = "UNDEFINED"
=============================================================================
