-------------------------- MODULE ThermitProgress --------------------------
(***************************************************************************)
(* thermitProgress_t: what an endpoint knows of the one file it is sending *)
(* or receiving, with the operations of thermit.c on it.  The bitmap       *)
(* chunkStatus (1 = dirty, 0 = done) is the set of the dirty chunks; the   *)
(* percentages, which only feed the debug output, are left out.            *)
(***************************************************************************)
EXTENDS Integers

CONSTANT
  FileIdMax         \* THERMIT_FILEID_MAX, 250 in the code

(* File ids are uint8_t. *)
ASSUME FileIdMaxAssumption == FileIdMax \in 1..255

UInt8 == 0..255

FEEDBACK_FILE_IS_READY == 255

(* Files are named 1, 2, ...; NoName is the empty string memset leaves. *)
NoName == 0

Progress == [running              : BOOLEAN,
             fileSize             : Nat,
             fileId               : UInt8,
             chunkNo              : UInt8,
             fileName             : Nat,
             chunkStatus          : SUBSET UInt8,
             numberOfChunksNeeded : UInt8,
             waitForFeedback      : BOOLEAN]

(* The progress of a new instance: reserveInstance clears the whole struct. *)
NoProgress == [running              |-> FALSE,
               fileSize             |-> 0,
               fileId               |-> 0,
               chunkNo              |-> 0,
               fileName             |-> NoName,
               chunkStatus          |-> {},
               numberOfChunksNeeded |-> 0,
               waitForFeedback      |-> FALSE]

(* DIVISION_ROUNDED_UP *)
DivisionRoundedUp(value, divider) ==
  IF value % divider = 0 THEN value \div divider ELSE value \div divider + 1

(* progressInitialize returns -1 and changes nothing unless this holds. *)
ProgressInitializable(size, params) == size > 0 /\ size <= params.maxFileSize

(* progressInitialize: all used chunks dirty, every other field cleared. The *)
(* chunk count is a uint8_t.                                                 *)
ProgressInitialize(size, params) ==
  LET chunks == DivisionRoundedUp(size, params.chunkSize) % 256
  IN [NoProgress EXCEPT !.running              = TRUE,
                        !.fileSize             = size,
                        !.chunkStatus          = 0 .. chunks - 1,
                        !.numberOfChunksNeeded = chunks]

(* progressSetChunkStatus(.., TRUE): chunk numbers outside the file are ignored. *)
ProgressSetChunkDone(progress, chunkNo) ==
  [progress EXCEPT !.chunkStatus =
     IF chunkNo < progress.numberOfChunksNeeded THEN @ \ {chunkNo} ELSE @]

(* The variables of the loop of progressGetFirstDirty. *)
Cursor == [chunksLeft : Nat, byteIdx : Nat, bitIdx : Nat]

(* No chunk of the eight in this byte of the bitmap is dirty. *)
ByteIsZero(dirty, byteIdx) == dirty \cap (8 * byteIdx .. 8 * byteIdx + 7) = {}

(***************************************************************************)
(* An iteration of that loop; chunksLeft of c is what it is before the     *)
(* test of the loop, and walk is what comes of the later iterations.       *)
(* Skipping a zero byte takes the loop's own decrement and 8 - bitIdx from *)
(* chunksLeft.  bitIdx never gets to 8, where the code would not reset it: *)
(* in a byte that is not zero a dirty chunk is found first.  The value is  *)
(* the chunk found, or FEEDBACK_FILE_IS_READY (not a chunk number) when    *)
(* the loop ends without one.                                              *)
(***************************************************************************)
WalkOn(walk, dirty, c) ==
  LET chunksLeft == c.chunksLeft - 1
      jumps      == 8 - c.bitIdx
      chunk      == 8 * c.byteIdx + c.bitIdx
  IN IF c.chunksLeft = 0 THEN FEEDBACK_FILE_IS_READY
     ELSE IF ByteIsZero(dirty, c.byteIdx)
     THEN IF chunksLeft > jumps
          THEN walk[[chunksLeft |-> chunksLeft - jumps,
                     byteIdx    |-> c.byteIdx + 1,
                     bitIdx     |-> 0]]
          ELSE FEEDBACK_FILE_IS_READY
     ELSE IF chunk \in dirty
     THEN chunk
     ELSE walk[[chunksLeft |-> chunksLeft,
                byteIdx    |-> c.byteIdx,
                bitIdx     |-> c.bitIdx + 1]]

FirstDirtyWalk(progress) ==
  LET walk[c \in Cursor] == WalkOn(walk, progress.chunkStatus, c)
  IN walk[[chunksLeft |-> progress.numberOfChunksNeeded, byteIdx |-> 0, bitIdx |-> 0]]

(* Mutants: the jump takes nothing extra; a chunk too many is taken. *)
InReachAll(d, n) == d < n
InReachOneLess(d, n) == d + d \div 8 + 1 < n

(***************************************************************************)
(* What the loop amounts to: it is out of chunksLeft before it gets to     *)
(* chunk d of n exactly when d + d \div 8 >= n, one too many being taken   *)
(* for each byte skipped.  WalkMatchesClosedForm (ProgressLife) says that  *)
(* it does; the endpoints use this form.                                   *)
(***************************************************************************)
InReach(d, n) == d + d \div 8 < n

DirtyFound(progress) ==
  \E d \in progress.chunkStatus : InReach(d, progress.numberOfChunksNeeded)

(* Mutant: the last dirty chunk. *)
LastDirty(progress) ==
  CHOOSE d \in progress.chunkStatus : \A c \in progress.chunkStatus : c <= d

FirstDirty(progress) ==
  CHOOSE d \in progress.chunkStatus : \A c \in progress.chunkStatus : d <= c

(* getFeedback: what an endpoint reports of the file it is receiving. *)
GetFeedback(rx) ==
  IF rx.running /\ DirtyFound(rx) THEN FirstDirty(rx) ELSE FEEDBACK_FILE_IS_READY

(***************************************************************************)
(* The sender's place: the next chunk to send, or after the last of them   *)
(* the wait for feedback.  Feedback ends the wait and names the chunk to   *)
(* go on from, unless the file has no such chunk.                          *)
(***************************************************************************)

(* Mutants: the wait is never entered; it is entered one chunk too late. *)
ChunkSentNoWait(progress) == [progress EXCEPT !.chunkNo = @ + 1]
ChunkSentLateWait(progress) ==
  [progress EXCEPT !.chunkNo = @ + 1,
                   !.waitForFeedback = @ \/ progress.chunkNo >= progress.numberOfChunksNeeded]

ChunkSent(progress) ==
  LET nextChunk == progress.chunkNo + 1
  IN [progress EXCEPT
        !.chunkNo = nextChunk,
        !.waitForFeedback = @ \/ nextChunk >= progress.numberOfChunksNeeded]

(* Mutants: feedback taken for the last chunk that arrived; the wait not ended. *)
NextRoundAfter(progress, feedback) ==
  [progress EXCEPT !.waitForFeedback = FALSE, !.chunkNo = feedback + 1]
NextRoundWaiting(progress, feedback) == [progress EXCEPT !.chunkNo = feedback]

NextRound(progress, feedback) ==
  [progress EXCEPT
     !.waitForFeedback = FALSE,
     !.chunkNo = IF feedback < progress.numberOfChunksNeeded THEN feedback ELSE @]

(* Mutant: the last chunk as long as the others. *)
ChunkLengthFull(chunkNo, progress, chunkSize) == chunkSize

(* THERMIT_CHUNK_LENGTH_TX: the remainder for the last chunk, even when it is 0. *)
ChunkLength(chunkNo, progress, chunkSize) ==
  IF chunkNo = progress.numberOfChunksNeeded - 1
  THEN progress.fileSize % chunkSize
  ELSE chunkSize
=============================================================================
