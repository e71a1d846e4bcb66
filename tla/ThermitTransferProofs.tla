------------------------ MODULE ThermitTransferProofs ------------------------
(***************************************************************************)
(* What gets into the files, and what the feedback about them is worth:    *)
(* NoMixing, FeedbackIsSound and RewindSkipsNothing, for ends that are     *)
(* built alike and sessions in which no file id is used twice.  Then ends  *)
(* that step in turn: they implement FileTransfer.                         *)
(***************************************************************************)
EXTENDS ThermitProofs, ThermitPromise, FiniteSetTheorems

IsStart(f) == f.code = "NEW_FILE_START"
IsData(f)  == f.code = "DATA_TRANSFER"

(* A chunk under way is the part of the file its frame says it is. *)
ChunkInPlace(f) ==
  IsData(f) /\ f.payload.length > 0 =>
    /\ f.payload.name = f.sndFileId + 1
    /\ f.payload.from = f.sndChunkNo * BuiltChunkSize

ChunksInPlace == \A e \in Role : \A i \in DOMAIN link[e] : ChunkInPlace(link[e][i])

MixInv == ChunksInPlace /\ NoMixing

(* The starts of files under way to e are of later files than the one e has *)
(* received last, and in their order.                                       *)
StartsInOrder(e) ==
  \A i \in DOMAIN link[e] : IsStart(link[e][i]) =>
    /\ rx[e].fileName < link[e][i].payload.name
    /\ \A j \in DOMAIN link[e] : i < j /\ IsStart(link[e][j]) =>
         link[e][i].payload.name < link[e][j].payload.name

(* Feedback f under way to e that misses a chunk is about the file its peer *)
(* has received last, or an earlier one.                                    *)
IsOfStarted(e, f) ==
  IsData(f) /\ f.recFeedback # FEEDBACK_FILE_IS_READY =>
    f.recFileId < rx[Peer(e)].fileName

(* What f says of a file that is still being received is so. *)
IsSound(e, f) ==
  IsData(f) /\ f.recFeedback # FEEDBACK_FILE_IS_READY =>
    (rx[Peer(e)].running /\ f.recFileId = rx[Peer(e)].fileId
      => \A c \in rx[Peer(e)].chunkStatus : f.recFeedback <= c)

FeedbackInv ==
  \A e \in Role :
    /\ rx[e].fileName <= opened[Peer(e)]
    /\ StartsInOrder(e)
    /\ \A i \in DOMAIN link[e] : IsOfStarted(e, link[e][i]) /\ IsSound(e, link[e][i])

-----------------------------------------------------------------------------
(* Lemmas about the lines. *)

LEMMA TailPlaces ==
  ASSUME NEW s \in Seq(Frame), s # <<>>
  PROVE  /\ 1 \in DOMAIN s /\ Head(s) = s[1]
         /\ \A i \in DOMAIN Tail(s) :
              i \in Nat \ {0} /\ i + 1 \in DOMAIN s /\ Tail(s)[i] = s[i + 1]
<1> DEFINE t == Tail(s)
<1>1. /\ Len(s) \in Nat \ {0} /\ DOMAIN s = 1 .. Len(s) /\ Head(s) = s[1]
      /\ DOMAIN t = 1 .. Len(s) - 1
      /\ \A i \in 1 .. Len(s) - 1 : t[i] = s[i + 1]
  BY HeadTailProperties, LenProperties, EmptySeq
<1> HIDE DEF t
<1> QED
  BY <1>1 DEF t

LEMMA AppendPlaces ==
  ASSUME NEW s \in Seq(Frame), NEW f \in Frame
  PROVE  /\ DOMAIN s \subseteq 1 .. Len(s)
         /\ \A i \in DOMAIN Append(s, f) :
              \/ i \in DOMAIN s /\ Append(s, f)[i] = s[i]
              \/ i = Len(s) + 1 /\ Append(s, f)[i] = f
<1> DEFINE t == Append(s, f)
<1>1. /\ Len(s) \in Nat /\ DOMAIN s = 1 .. Len(s)
      /\ DOMAIN t = 1 .. Len(s) + 1
      /\ \A i \in 1 .. Len(s) : t[i] = s[i]
      /\ t[Len(s) + 1] = f
  BY AppendProperties, LenProperties
<1> HIDE DEF t
<1> QED
  BY <1>1 DEF t

(* What e may say, and about what. *)
MaySay(e, f) ==
  /\ IsData(f) => \E chunk \in {NoChunk, CurrentChunk(e)} :
                    /\ f = DataFrame(e, chunk)
                    /\ chunk # NoChunk => tx[e].running
  /\ IsStart(f) => /\ FileAvailable(e)
                   /\ f.payload.name = opened[e] + 1
                   /\ f.sndFileId = NextOutgoingFileId(e)
                   /\ opened' = [opened EXCEPT ![e] = opened[e] + 1]
  /\ f.code = "SYNC_PROPOSAL" => f.payload = parameters[e]

Says(e, f) == MaySay(e, f) /\ link' = [link EXCEPT ![Peer(e)] = Append(@, f)]

LEMMA WhatIsSaid ==
  ASSUME TypeOK, NEW e \in Role, HandleOutgoing(e)
  PROVE  link' = link \/ \E f \in Frame : Says(e, f)
<1>1. ASSUME NEW f, f \in Frame, Sends(e, f), MaySay(e, f)
      PROVE  \E g \in Frame : Says(e, g)
  BY <1>1 DEF Sends, Says
<1>2. CASE SendSyncProposal(e)
  <2> DEFINE f == [code |-> "SYNC_PROPOSAL", payload |-> parameters[e]]
  <2>1. f \in Frame /\ MaySay(e, f)
    BY DEF Frame, TypeOK, MaySay, IsData, IsStart
  <2> QED
    BY <1>1, <1>2, <2>1 DEF SendSyncProposal
<1>3. CASE SendSyncResponse(e)
  <2> DEFINE f == [code |-> "SYNC_RESPONSE", payload |-> parameters[e]]
  <2>1. f \in Frame /\ MaySay(e, f)
    BY DEF Frame, TypeOK, MaySay, IsData, IsStart
  <2> QED
    BY <1>1, <1>3, <2>1 DEF SendSyncResponse
<1>4. ASSUME NEW code \in {"SYNC_ACK", "OUT_OF_SYNC", "WRITE_TERMINATED_FORCEFULLY"},
             Sends(e, [code |-> code])
      PROVE  \E g \in Frame : Says(e, g)
  <2>1. [code |-> code] \in Frame /\ MaySay(e, [code |-> code])
    BY <1>4 DEF Frame, MaySay, IsData, IsStart
  <2> QED
    BY <1>1, <1>4, <2>1
<1>5. CASE SendSyncAck(e) \/ SendWTF(e)
  BY <1>4, <1>5 DEF SendSyncAck, SendWTF
<1>6. CASE LeaveOutOfSync(e)
  BY <1>4, <1>6 DEF LeaveOutOfSync
<1>7. CASE SendChunk(e)
  <2>1. tx[e].running /\ Sends(e, DataFrame(e, CurrentChunk(e)))
    BY <1>7 DEF SendChunk, MaySendChunk
  <2>2. DataFrame(e, CurrentChunk(e)) \in Frame
    BY ChunkTyped, DataFrameTyped
  <2>3. MaySay(e, DataFrame(e, CurrentChunk(e)))
    BY <2>1 DEF MaySay, IsStart, DataFrame
  <2> QED
    BY <1>1, <2>1, <2>2, <2>3
<1>8. CASE SendEmptyData(e)
  <2>1. Sends(e, DataFrame(e, NoChunk))
    BY <1>8 DEF SendEmptyData
  <2>2. DataFrame(e, NoChunk) \in Frame
    BY ChunkTyped, DataFrameTyped
  <2>3. MaySay(e, DataFrame(e, NoChunk))
    BY DEF MaySay, IsStart, DataFrame
  <2> QED
    BY <1>1, <2>1, <2>2, <2>3
<1>9. CASE SendFileInfo(e)
  <2> DEFINE name == opened[e] + 1
             size == NextFileSize(e)
             id   == NextOutgoingFileId(e)
             f    == [code |-> "NEW_FILE_START", sndFileId |-> id,
                      payload |-> [name |-> name, size |-> size]]
  <2>1. Sends(e, f) /\ opened' = [opened EXCEPT ![e] = name] /\ FileAvailable(e)
    BY <1>9 DEF SendFileInfo
  <2>2. MaySay(e, f)
    BY <2>1 DEF MaySay, IsData
  <2>3. f \in Frame
    BY <1>9, FileInfoTyped DEF SendFileInfo
  <2> QED
    BY <1>1, <2>1, <2>2, <2>3
<1>10. CASE AwaitHandshake(e) \/ SendNoChunk(e) \/ RefuseFile(e)
  BY <1>10 DEF AwaitHandshake, SendNoChunk, RefuseFile
<1> QED
  BY <1>2, <1>3, <1>5, <1>6, <1>7, <1>8, <1>9, <1>10 DEF HandleOutgoing

(* A step takes a frame off a line, says one, or leaves the lines alone. *)
LEMMA LineChanges ==
  ASSUME TypeOK, [Next]_vars
  PROVE  \/ link' = link
         \/ \E e \in Role : link[e] # <<>> /\ link' = [link EXCEPT ![e] = Tail(@)]
         \/ \E e \in Role : \E f \in Frame : Says(e, f)
<1>1. ASSUME NEW e \in Role, HandleIncoming(e)
      PROVE  link' = link \/ (link[e] # <<>> /\ link' = [link EXCEPT ![e] = Tail(@)])
  BY <1>1 DEF HandleIncoming, ReadNothing, WaitForSyncProposal, WaitForSyncResponse,
         WaitForSyncAck, IllegalFrame, HandleDataMessage, StartReception,
         CannotStartReception, RejectReception, ReadsFileStart, Reads
<1>2. ASSUME NEW e \in Role, OfferFile(e) \/ LoseFrame(e)
      PROVE  link' = link \/ (link[e] # <<>> /\ link' = [link EXCEPT ![e] = Tail(@)])
  BY <1>2 DEF OfferFile, LoseFrame
<1>3. CASE UNCHANGED vars
  BY <1>3 DEF vars
<1> QED
  BY <1>1, <1>2, <1>3, WhatIsSaid DEF Next, Step

(* The steps that change what is received. *)
LEMMA ReceptionChanges ==
  ASSUME [Next]_vars
  PROVE  \/ rx' = rx /\ storage' = storage
         \/ \E e \in Role : StartReception(e)
         \/ \E e \in Role : HandleDataMessage(e) /\ ChunkWritten(e, Head(link[e]))
<1>1. ASSUME NEW e \in Role, HandleIncoming(e)
      PROVE  \/ rx' = rx /\ storage' = storage
             \/ StartReception(e)
             \/ HandleDataMessage(e) /\ ChunkWritten(e, Head(link[e]))
  BY <1>1 DEF HandleIncoming, ReadNothing, WaitForSyncProposal, WaitForSyncResponse,
         WaitForSyncAck, IllegalFrame, HandleDataMessage, ChunkNotWritten,
         CannotStartReception, RejectReception, transfer, files
<1>2. ASSUME NEW e \in Role, HandleOutgoing(e) \/ OfferFile(e) \/ LoseFrame(e)
      PROVE  rx' = rx /\ storage' = storage
  BY <1>2 DEF HandleOutgoing, SendSyncProposal, SendSyncResponse, SendSyncAck,
         LeaveOutOfSync, AwaitHandshake, SendWTF, SendChunk, SendNoChunk, SendFileInfo,
         RefuseFile, SendEmptyData, OfferFile, LoseFrame, transfer, files
<1>3. CASE UNCHANGED vars
  BY <1>3 DEF vars, transfer, files
<1> QED
  BY <1>1, <1>2, <1>3 DEF Next, Step

-----------------------------------------------------------------------------
(* The files hold what belongs to them. *)

(* A chunk that is sent begins where its number says. *)
LEMMA SaidInPlace ==
  ASSUME TypeOK, PlaceInv, NEW e \in Role, NEW f \in Frame, MaySay(e, f)
  PROVE  ChunkInPlace(f)
<1> SUFFICES ASSUME IsData(f), f.payload.length > 0
             PROVE  /\ f.payload.name = f.sndFileId + 1
                    /\ f.payload.from = f.sndChunkNo * BuiltChunkSize
  BY DEF ChunkInPlace
<1>1. PICK chunk \in {NoChunk, CurrentChunk(e)} :
        f = DataFrame(e, chunk) /\ (chunk # NoChunk => tx[e].running)
  BY DEF MaySay
<1>2. f.payload = chunk
  BY <1>1 DEF DataFrame
<1>3. NoChunk.length = 0
  BY DEF NoChunk
<1>4. chunk # NoChunk /\ chunk = CurrentChunk(e) /\ tx[e].running
  BY <1>1, <1>2, <1>3
<1>5. /\ chunk.name = tx[e].fileName
      /\ chunk.from = tx[e].chunkNo * BuiltChunkSize
  BY <1>4 DEF CurrentChunk, PlaceInv, SizesStand
<1>6. f.sndFileId = tx[e].fileId /\ f.sndChunkNo = tx[e].chunkNo
  BY <1>1, <1>4 DEF DataFrame
<1>7. tx[e].fileId = tx[e].fileName - 1 /\ tx[e].fileName \in Nat
  BY <1>4 DEF PlaceInv, SenderKnowsItsFile, IsRecordOf, TypeOK, Progress
<1> QED
  BY <1>2, <1>5, <1>6, <1>7

LEMMA ChunksStayInPlace ==
  ASSUME TypeOK, PlaceInv, ChunksInPlace, [Next]_vars
  PROVE  ChunksInPlace'
<1>1. ASSUME NEW e \in Role, link[e] # <<>>, link' = [link EXCEPT ![e] = Tail(@)]
      PROVE  ChunksInPlace'
  <2>1. ASSUME NEW x \in Role, NEW i \in DOMAIN link'[x]
        PROVE  \E j \in DOMAIN link[x] : link'[x][i] = link[x][j]
    <3>1. CASE x = e
      <4>1. link[e] \in Seq(Frame) /\ link'[e] = Tail(link[e])
        BY <1>1 DEF TypeOK
      <4> QED
        BY <1>1, <2>1, <3>1, <4>1, TailPlaces
    <3>2. CASE x # e
      BY <1>1, <2>1, <3>2 DEF TypeOK
    <3> QED
      BY <3>1, <3>2
  <2> QED
    BY <2>1 DEF ChunksInPlace, ChunkInPlace
<1>2. ASSUME NEW e \in Role, NEW f \in Frame, Says(e, f)
      PROVE  ChunksInPlace'
  <2>1. ASSUME NEW x \in Role, NEW i \in DOMAIN link'[x]
        PROVE  (\E j \in DOMAIN link[x] : link'[x][i] = link[x][j]) \/ link'[x][i] = f
    <3>1. CASE x = Peer(e)
      <4>1. link[x] \in Seq(Frame) /\ link'[x] = Append(link[x], f)
        BY <1>2, <3>1 DEF TypeOK, Says
      <4> QED
        BY <2>1, <4>1, AppendPlaces
    <3>2. CASE x # Peer(e)
      BY <1>2, <2>1, <3>2 DEF TypeOK, Says
    <3> QED
      BY <3>1, <3>2
  <2>2. ChunkInPlace(f)
    BY <1>2, SaidInPlace DEF Says
  <2> QED
    BY <2>1, <2>2 DEF ChunksInPlace, ChunkInPlace
<1>3. CASE link' = link
  BY <1>3 DEF ChunksInPlace, ChunkInPlace
<1> QED
  BY <1>1, <1>2, <1>3, LineChanges

(* Nothing but bytes of file name, each at its own offset. *)
OwnBytes(written, name) == \A b \in written : b.name = name /\ b.byte = b.at

(* What a chunk in its place leaves in its file. *)
LEMMA WrittenInPlace ==
  ASSUME NEW written, NEW name, NEW offset \in Nat, NEW p \in Chunk,
         p.length > 0 => p.name = name /\ p.from = offset,
         OwnBytes(written, name)
  PROVE  OwnBytes(FileWrite(written, offset, p), name)
<1> DEFINE last == offset + p.length - 1
<1>1. p.from \in Nat /\ p.length \in Nat
  BY DEF Chunk
<1>2. ASSUME NEW o \in offset .. last
      PROVE  p.name = name /\ p.from + o - offset = o
  <2>1. p.length > 0
    BY <1>1, <1>2
  <2> QED
    BY <1>1, <1>2, <2>1
<1> HIDE DEF last
<1>3. FileWrite(written, offset, p) =
        {b \in written : b.at \notin offset .. last}
        \cup {[at |-> o, name |-> p.name, byte |-> p.from + o - offset] : o \in offset .. last}
  BY DEF FileWrite, last
<1>4. ASSUME NEW o \in offset .. last
      PROVE  LET b == [at |-> o, name |-> p.name, byte |-> p.from + o - offset]
             IN b.name = name /\ b.byte = b.at
  BY <1>2, <1>4
<1> QED
  BY <1>3, <1>4 DEF OwnBytes

LEMMA NothingGetsMixed ==
  ASSUME TypeOK, PlaceInv, MixInv, [Next]_vars
  PROVE  NoMixing'
<1>1. CASE rx' = rx /\ storage' = storage
  BY <1>1 DEF MixInv, NoMixing
<1>2. ASSUME NEW e \in Role, StartReception(e) PROVE NoMixing'
  <2>1. \A x \in Role : /\ x # e => rx'[x] = rx[x] /\ storage'[x] = storage[x]
                        /\ storage'[e].written = {}
    BY <1>2 DEF StartReception, TypeOK
  <2> QED
    BY <2>1 DEF MixInv, NoMixing
<1>3. ASSUME NEW e \in Role, HandleDataMessage(e), ChunkWritten(e, Head(link[e]))
      PROVE  NoMixing'
  <2> DEFINE f       == Head(link[e])
             offset  == f.sndChunkNo * parameters[e].chunkSize
             written == FileWrite(storage[e].written, offset, f.payload)
             after   == ProgressSetChunkDone(rx[e], f.sndChunkNo)
             ready   == ~DirtyFound(after)
  <2>1. /\ rx[e].running /\ f.sndFileId = rx[e].fileId
        /\ storage' = [storage EXCEPT ![e].written = written]
        /\ rx' = [rx EXCEPT ![e] = [after EXCEPT !.running = ~ready]]
    BY <1>3 DEF ChunkWritten, IsForCurrentFile
  <2>2. link[e] # <<>> /\ IsData(f)
    BY <1>3 DEF HandleDataMessage, Reads, IsData
  <2>3. /\ link[e] \in Seq(Frame) /\ rx[e] \in Progress /\ storage[e] \in Storage
        /\ parameters[e].chunkSize = BuiltChunkSize
    BY DEF TypeOK, PlaceInv, SizesStand
  <2>4. f \in Frame /\ ChunkInPlace(f)
    BY <2>2, <2>3, TailPlaces, HeadIsGood DEF MixInv, ChunksInPlace, PlaceInv
  <2>5. f.sndChunkNo \in Nat /\ f.payload \in Chunk
    <3> HIDE DEF f
    <3>1. f.sndChunkNo \in UInt8 /\ f.payload \in Chunk
      BY <2>2, <2>4, FrameFields DEF IsData
    <3> QED
      BY <3>1 DEF UInt8
  <2>6. rx[e].fileId = rx[e].fileName - 1 /\ rx[e].fileName \in Nat
    BY <2>1, <2>3 DEF PlaceInv, ReceiverKnowsItsFile, IsRecordOf, Progress
  <2>7. f.payload.length > 0 => f.payload.name = rx[e].fileName /\ f.payload.from = offset
    BY <2>1, <2>2, <2>3, <2>4, <2>6 DEF ChunkInPlace
  <2>8. offset \in Nat
    <3> HIDE DEF f
    <3> QED
      BY <2>3, <2>5, BuiltTyped
  <2>9. OwnBytes(storage[e].written, rx[e].fileName)
    BY <2>1 DEF MixInv, NoMixing, OwnBytes
  <2>10. OwnBytes(written, rx[e].fileName)
    <3> HIDE DEF f, offset
    <3> QED
      BY <2>5, <2>7, <2>8, <2>9, WrittenInPlace
  <2>11. after.fileName = rx[e].fileName /\ after \in [DOMAIN rx[e] -> {after[k] : k \in DOMAIN rx[e]}]
    BY <2>3 DEF ProgressSetChunkDone, Progress
  <2> HIDE DEF f, written, after, ready
  <2>12. rx'[e].fileName = rx[e].fileName /\ storage'[e].written = written
    BY <2>1, <2>3, <2>11 DEF TypeOK, Progress, Storage
  <2>13. \A x \in Role : x # e => rx'[x] = rx[x] /\ storage'[x] = storage[x]
    BY <2>1 DEF TypeOK
  <2> QED
    BY <2>10, <2>12, <2>13 DEF MixInv, NoMixing, OwnBytes
<1> QED
  BY <1>1, <1>2, <1>3, ReceptionChanges

(***************************************************************************)
(* What a receiver has written while a file is being received came from    *)
(* that file, each byte at its own offset, whatever is lost, refused or    *)
(* late (handleDataMessage 1029-1038).  Beyond the ends being alike this   *)
(* needs that no file id is used twice: nothing but the id tells the       *)
(* chunks of two files apart.                                              *)
(***************************************************************************)
THEOREM NothingIsMixed ==
  ASSUME BuiltAlike, NoIdTwice
  PROVE  Spec => []NoMixing
<1>1. Init => TypeOK /\ PlaceInv /\ MixInv
  <2> SUFFICES ASSUME Init PROVE MixInv
    BY InitTyped, InitHasPlace
  <2>1. \A e \in Role : DOMAIN link[e] = {} /\ ~rx[e].running
    BY DEF Init, NoProgress
  <2> QED
    BY <2>1 DEF MixInv, ChunksInPlace, NoMixing
<1>2. TypeOK /\ PlaceInv /\ MixInv /\ [Next]_vars => (TypeOK /\ PlaceInv /\ MixInv)'
  BY StepTyped, StepKeepsPlace, ChunksStayInPlace, NothingGetsMixed DEF MixInv
<1>3. MixInv => NoMixing
  BY DEF MixInv
<1> QED
  BY <1>1, <1>2, <1>3, PTL DEF Spec

-----------------------------------------------------------------------------
(* The feedback is sound. *)

(* What may change while lines and records stay in order: receivers start   *)
(* later files only, and of the file they go on with they miss less.        *)
ReceiversGoOn ==
  \A e \in Role :
    /\ rx[e].fileName <= rx'[e].fileName
    /\ rx'[e].fileName <= opened'[Peer(e)]
    /\ \/ rx[e].fileName < rx'[e].fileName /\ rx'[e].fileId = rx'[e].fileName - 1
       \/ /\ rx'[e].fileName = rx[e].fileName /\ rx'[e].fileId = rx[e].fileId
          /\ rx'[e].running => rx[e].running
          /\ rx'[e].chunkStatus \subseteq rx[e].chunkStatus

LEMMA FeedbackStands ==
  ASSUME TypeOK, TypeOK', ReceiversGoOn, NEW e \in Role, NEW f \in Frame,
         IsOfStarted(e, f), IsSound(e, f)
  PROVE  IsOfStarted(e, f)' /\ IsSound(e, f)'
<1> SUFFICES ASSUME IsData(f), f.recFeedback # FEEDBACK_FILE_IS_READY
             PROVE  /\ f.recFileId < rx'[Peer(e)].fileName
                    /\ rx'[Peer(e)].running /\ f.recFileId = rx'[Peer(e)].fileId
                         => \A c \in rx'[Peer(e)].chunkStatus : f.recFeedback <= c
  BY DEF IsOfStarted, IsSound, IsData
<1> DEFINE p == Peer(e)
<1>1. p \in Role /\ f.recFileId \in Nat
  BY PeerTyped, FrameFields DEF IsData, UInt8
<1>2. rx[p].fileName \in Nat /\ rx'[p].fileName \in Nat
  BY <1>1 DEF TypeOK, Progress
<1>3. /\ f.recFileId < rx[p].fileName
      /\ rx[p].running /\ f.recFileId = rx[p].fileId
           => \A c \in rx[p].chunkStatus : f.recFeedback <= c
  BY DEF IsOfStarted, IsSound
<1>4. rx[p].fileName <= rx'[p].fileName
  BY <1>1 DEF ReceiversGoOn
<1>5. f.recFileId < rx'[p].fileName
  BY <1>1, <1>2, <1>3, <1>4
<1>6. CASE rx[p].fileName < rx'[p].fileName /\ rx'[p].fileId = rx'[p].fileName - 1
  <2>1. f.recFileId # rx'[p].fileId
    BY <1>1, <1>2, <1>3, <1>6
  <2> QED
    BY <1>5, <2>1
<1>7. CASE /\ rx'[p].fileName = rx[p].fileName /\ rx'[p].fileId = rx[p].fileId
           /\ rx'[p].running => rx[p].running
           /\ rx'[p].chunkStatus \subseteq rx[p].chunkStatus
  BY <1>3, <1>5, <1>7
<1> QED
  BY <1>1, <1>6, <1>7 DEF ReceiversGoOn

(* Whatever receivers do, the frames that stay keep their order. *)
LEMMA FramesKeepOrder ==
  ASSUME TypeOK, TypeOK', FeedbackInv, ReceiversGoOn, link' = link, rx' = rx
  PROVE  FeedbackInv'
<1>1. ASSUME NEW e \in Role, NEW i \in DOMAIN link[e]
      PROVE  IsOfStarted(e, link[e][i])' /\ IsSound(e, link[e][i])'
  BY <1>1 DEF FeedbackInv, IsOfStarted, IsSound
<1>2. ASSUME NEW e \in Role PROVE StartsInOrder(e)'
  BY <1>2 DEF FeedbackInv, StartsInOrder
<1> QED
  BY <1>1, <1>2 DEF FeedbackInv, ReceiversGoOn

(* A frame is taken off the line to e; if it starts a file, e has begun it. *)
LEMMA ReadingKeepsOrder ==
  ASSUME TypeOK, TypeOK', FeedbackInv, ReceiversGoOn, NEW e \in Role,
         link[e] # <<>>, link' = [link EXCEPT ![e] = Tail(@)],
         \A x \in Role : \/ rx'[x].fileName = rx[x].fileName
                         \/ /\ x = e /\ IsStart(Head(link[e]))
                            /\ rx'[e].fileName = Head(link[e]).payload.name
  PROVE  FeedbackInv'
<1> DEFINE s == link[e]
           t == Tail(s)
<1>1. /\ s \in Seq(Frame) /\ link'[e] = t
      /\ \A x \in Role : x # e => link'[x] = link[x]
  BY DEF TypeOK
<1>2. /\ 1 \in DOMAIN s /\ Head(s) = s[1]
      /\ \A i \in DOMAIN t : i \in Nat \ {0} /\ i + 1 \in DOMAIN s /\ t[i] = s[i + 1]
  BY <1>1, TailPlaces
<1> HIDE DEF s, t
<1>3. StartsInOrder(e)'
  <2>1. /\ \A i \in DOMAIN s : IsStart(s[i]) => rx[e].fileName < s[i].payload.name
        /\ \A i, j \in DOMAIN s : i < j /\ IsStart(s[i]) /\ IsStart(s[j]) =>
             s[i].payload.name < s[j].payload.name
    BY DEF FeedbackInv, StartsInOrder, s
  <2>2. \/ rx'[e].fileName = rx[e].fileName
        \/ IsStart(s[1]) /\ rx'[e].fileName = s[1].payload.name
    BY <1>2 DEF s
  <2>3. ASSUME NEW i \in DOMAIN t, IsStart(t[i])
        PROVE  /\ rx'[e].fileName < t[i].payload.name
               /\ \A j \in DOMAIN t : i < j /\ IsStart(t[j]) =>
                    t[i].payload.name < t[j].payload.name
    <3>1. i \in Nat \ {0} /\ i + 1 \in DOMAIN s /\ t[i] = s[i + 1] /\ 1 < i + 1
      BY <1>2, <2>3
    <3>2. rx'[e].fileName < t[i].payload.name
      BY <1>2, <2>1, <2>2, <2>3, <3>1
    <3>3. ASSUME NEW j \in DOMAIN t, i < j, IsStart(t[j])
          PROVE  t[i].payload.name < t[j].payload.name
      <4>1. j \in Nat /\ j + 1 \in DOMAIN s /\ t[j] = s[j + 1] /\ i + 1 < j + 1
        BY <1>2, <3>1, <3>3
      <4> QED
        BY <2>1, <2>3, <3>1, <3>3, <4>1
    <3> QED
      BY <3>2, <3>3
  <2> QED
    BY <1>1, <2>3 DEF StartsInOrder
<1>4. ASSUME NEW x \in Role PROVE StartsInOrder(x)'
  <2>1. CASE x # e
    BY <1>1, <2>1 DEF FeedbackInv, StartsInOrder
  <2> QED
    BY <1>3, <2>1
<1>5. ASSUME NEW x \in Role, NEW i \in DOMAIN link'[x]
      PROVE  IsOfStarted(x, link[x][i])' /\ IsSound(x, link[x][i])'
  <2>1. PICK j \in DOMAIN link[x] : link'[x][i] = link[x][j]
    BY <1>1, <1>2, <1>5 DEF s
  <2>2. link[x] \in Seq(Frame)
    BY DEF TypeOK
  <2>3. PICK f \in Frame : f = link[x][j]
    BY <2>1, <2>2, ElementOfSeq, LenProperties
  <2>4. IsOfStarted(x, f) /\ IsSound(x, f)
    BY <2>3 DEF FeedbackInv
  <2>5. IsOfStarted(x, f)' /\ IsSound(x, f)'
    BY <2>4, FeedbackStands
  <2> QED
    BY <2>1, <2>3, <2>5 DEF IsOfStarted, IsSound
<1> QED
  BY <1>4, <1>5 DEF FeedbackInv, ReceiversGoOn

(* Feedback that misses a chunk names the first one that is missing. *)
LEMMA FeedbackIsLeast ==
  ASSUME NEW p \in Progress, GetFeedback(p) # FEEDBACK_FILE_IS_READY
  PROVE  \A c \in p.chunkStatus : GetFeedback(p) <= c
<1>1. DirtyFound(p) /\ GetFeedback(p) = FirstDirty(p)
  BY DEF GetFeedback
<1>2. p.chunkStatus \in SUBSET UInt8 /\ p.chunkStatus # {}
  BY <1>1 DEF Progress, DirtyFound
<1>3. PICK d \in p.chunkStatus : \A c \in p.chunkStatus : d <= c
  BY <1>2, LeastByte
<1> QED
  BY <1>1, <1>3 DEF FirstDirty

LEMMA SaidIsSound ==
  ASSUME TypeOK, PlaceInv, NEW e \in Role, NEW f \in Frame, MaySay(e, f)
  PROVE  IsOfStarted(Peer(e), f) /\ IsSound(Peer(e), f)
<1> SUFFICES ASSUME IsData(f), f.recFeedback # FEEDBACK_FILE_IS_READY
             PROVE  /\ f.recFileId < rx[e].fileName
                    /\ \A c \in rx[e].chunkStatus : f.recFeedback <= c
  BY PeerTyped DEF IsOfStarted, IsSound
<1>1. rx[e] \in Progress
  BY DEF TypeOK
<1>2. /\ f.recFeedback = GetFeedback(rx[e])
      /\ f.recFileId = IF rx[e].running THEN rx[e].fileId ELSE 0
  BY DEF MaySay, DataFrame
<1>3. rx[e].running
  BY <1>1, <1>2, FeedbackNamesDirty
<1>4. f.recFileId = rx[e].fileName - 1 /\ rx[e].fileName \in Nat
  BY <1>1, <1>2, <1>3 DEF PlaceInv, ReceiverKnowsItsFile, IsRecordOf, Progress
<1> QED
  BY <1>1, <1>2, <1>4, FeedbackIsLeast

(* A frame is said: the start of a file that is new, or what its sender has *)
(* received.                                                                *)
LEMMA SayingKeepsOrder ==
  ASSUME TypeOK, TypeOK', PlaceInv, FeedbackInv, NEW e \in Role, NEW f \in Frame,
         Says(e, f), rx' = rx, ReceiversGoOn
  PROVE  FeedbackInv'
<1> DEFINE p == Peer(e)
           s == link[p]
           t == Append(s, f)
<1>1. /\ p \in Role /\ Peer(p) = e /\ s \in Seq(Frame) /\ link'[p] = t
      /\ \A x \in Role : x # p => link'[x] = link[x]
  BY PeerTyped DEF TypeOK, Says
<1>2. /\ DOMAIN s \subseteq 1 .. Len(s)
      /\ \A i \in DOMAIN t : \/ i \in DOMAIN s /\ t[i] = s[i]
                             \/ i = Len(s) + 1 /\ t[i] = f
  BY <1>1, AppendPlaces
<1>3. Len(s) \in Nat
  BY <1>1, LenProperties
<1> HIDE DEF p, s, t
<1>4. IsStart(f) => /\ rx[p].fileName < f.payload.name
                    /\ \A i \in DOMAIN s : IsStart(s[i]) => s[i].payload.name < f.payload.name
  <2> SUFFICES ASSUME IsStart(f)
               PROVE  /\ rx[p].fileName < f.payload.name
                      /\ \A i \in DOMAIN s : IsStart(s[i]) => s[i].payload.name < f.payload.name
    OBVIOUS
  <2>1. f.payload.name = opened[e] + 1 /\ opened[e] \in Nat
    BY DEF Says, MaySay, TypeOK
  <2>2. rx[p].fileName <= opened[e] /\ rx[p].fileName \in Nat
    BY <1>1 DEF FeedbackInv, TypeOK, Progress
  <2>3. ASSUME NEW i \in DOMAIN s, IsStart(s[i]) PROVE s[i].payload.name \in 1 .. opened[e]
    BY <1>1, <2>3 DEF PlaceInv, GoodLine, GoodFrame, IsStart, s
  <2> QED
    BY <2>1, <2>2, <2>3
<1>5. StartsInOrder(p)'
  <2>1. /\ \A i \in DOMAIN s : IsStart(s[i]) => rx[p].fileName < s[i].payload.name
        /\ \A i, j \in DOMAIN s : i < j /\ IsStart(s[i]) /\ IsStart(s[j]) =>
             s[i].payload.name < s[j].payload.name
    BY <1>1 DEF FeedbackInv, StartsInOrder, s
  <2>2. ASSUME NEW i \in DOMAIN t, IsStart(t[i])
        PROVE  /\ rx[p].fileName < t[i].payload.name
               /\ \A j \in DOMAIN t : i < j /\ IsStart(t[j]) =>
                    t[i].payload.name < t[j].payload.name
    <3>1. rx[p].fileName < t[i].payload.name
      BY <1>2, <1>4, <2>1, <2>2
    <3>2. ASSUME NEW j \in DOMAIN t, i < j, IsStart(t[j])
          PROVE  t[i].payload.name < t[j].payload.name
      <4>1. i \in DOMAIN s /\ t[i] = s[i]
        BY <1>2, <1>3, <3>2
      <4> QED
        BY <1>2, <1>4, <2>1, <2>2, <3>2, <4>1
    <3> QED
      BY <3>1, <3>2
  <2> QED
    BY <1>1, <2>2 DEF StartsInOrder
<1>6. ASSUME NEW x \in Role PROVE StartsInOrder(x)'
  <2>1. CASE x # p
    BY <1>1, <2>1 DEF FeedbackInv, StartsInOrder
  <2> QED
    BY <1>5, <2>1
<1>7. IsOfStarted(p, f) /\ IsSound(p, f)
  BY <1>1, SaidIsSound DEF Says, p
<1>8. ASSUME NEW x \in Role, NEW i \in DOMAIN link'[x]
      PROVE  IsOfStarted(x, link[x][i])' /\ IsSound(x, link[x][i])'
  <2>1. (\E j \in DOMAIN link[x] : link'[x][i] = link[x][j]) \/ (x = p /\ link'[x][i] = f)
    BY <1>1, <1>2, <1>8 DEF s
  <2> QED
    BY <1>7, <2>1 DEF FeedbackInv, IsOfStarted, IsSound
<1> QED
  BY <1>6, <1>8 DEF FeedbackInv, ReceiversGoOn

(* What a receiver goes on to is the file whose start it has just read. *)
LEMMA ReadingGoesOn ==
  ASSUME BuiltAlike, TypeOK, PlaceInv, FeedbackInv, NEW e \in Role, HandleIncoming(e)
  PROVE  /\ ReceiversGoOn
         /\ \A x \in Role : \/ rx'[x].fileName = rx[x].fileName
                            \/ /\ x = e /\ link[e] # <<>> /\ IsStart(Head(link[e]))
                               /\ rx'[e].fileName = Head(link[e]).payload.name
<1> DEFINE f == Head(link[e])
           Less(x) == /\ rx'[x].fileName = rx[x].fileName /\ rx'[x].fileId = rx[x].fileId
                      /\ rx'[x].running => rx[x].running
                      /\ rx'[x].chunkStatus \subseteq rx[x].chunkStatus
<1>1. opened' = opened
  BY ReadingKeepsFiles
<1>2. \A x \in Role : /\ rx[x] \in Progress /\ rx[x].fileName \in Nat
                      /\ opened[Peer(x)] \in Nat
                      /\ rx[x].fileName <= opened[Peer(x)]
  BY PeerTyped DEF TypeOK, Progress, FeedbackInv
<1>3. ASSUME \A x \in Role : Less(x)
      PROVE  ReceiversGoOn /\ \A x \in Role : rx'[x].fileName = rx[x].fileName
  <2>1. \A x \in Role : rx[x].fileName <= rx'[x].fileName /\ rx'[x].fileName <= opened'[Peer(x)]
    BY <1>1, <1>2, <1>3
  <2> QED
    BY <1>3, <2>1 DEF ReceiversGoOn
<1>4. CASE rx' = rx
  BY <1>3, <1>4
<1>5. CASE HandleDataMessage(e) /\ ChunkWritten(e, f)
  <2> DEFINE after == ProgressSetChunkDone(rx[e], f.sndChunkNo)
             p     == [after EXCEPT !.running = ~~DirtyFound(after)]
  <2>1. rx' = [rx EXCEPT ![e] = p] /\ rx[e].running
    BY <1>5 DEF ChunkWritten, IsForCurrentFile
  <2>2. /\ after.fileName = rx[e].fileName /\ after.fileId = rx[e].fileId
        /\ after.chunkStatus \subseteq rx[e].chunkStatus
        /\ DOMAIN after = DOMAIN rx[e]
    BY <1>2 DEF ProgressSetChunkDone, Progress
  <2> HIDE DEF after
  <2>3. /\ p.fileName = rx[e].fileName /\ p.fileId = rx[e].fileId
        /\ p.chunkStatus \subseteq rx[e].chunkStatus
    BY <1>2, <2>2 DEF Progress
  <2> HIDE DEF p
  <2>4. rx'[e] = p /\ \A x \in Role : x # e => rx'[x] = rx[x]
    BY <2>1 DEF TypeOK
  <2>5. \A x \in Role : Less(x)
    BY <2>1, <2>3, <2>4
  <2> QED
    BY <1>3, <2>5
<1>6. CASE StartReception(e)
  <2> DEFINE size  == f.payload.size
             fresh == IF ProgressInitializable(size, parameters[e])
                      THEN ProgressInitialize(size, parameters[e])
                      ELSE rx[e]
             p     == [fresh EXCEPT !.running  = TRUE,
                                    !.fileId   = f.sndFileId,
                                    !.fileName = f.payload.name]
  <2>1. link[e] # <<>> /\ IsStart(f) /\ rx' = [rx EXCEPT ![e] = p]
    BY <1>6 DEF StartReception, ReadsFileStart, Reads, IsStart
  <2>2. link[e] \in Seq(Frame) /\ 1 \in DOMAIN link[e] /\ f = link[e][1]
    BY <2>1, TailPlaces DEF TypeOK
  <2>3. f \in Frame /\ GoodFrame(e, f)
    BY <2>1, HeadIsGood DEF PlaceInv
  <2>4. /\ f.payload.name \in 1 .. opened[Peer(e)]
        /\ f.sndFileId = f.payload.name - 1
        /\ rx[e].fileName < f.payload.name
    BY <2>1, <2>2, <2>3 DEF GoodFrame, FeedbackInv, StartsInOrder, IsStart
  <2>5. fresh \in Progress
    <3>1. size \in Nat
      BY <2>1, <2>3, FrameFields DEF IsStart, FileInfo
    <3> QED
      BY <1>2, <3>1, ProgressInitializeTyped DEF TypeOK
  <2> HIDE DEF f, fresh
  <2>6. p.fileName = f.payload.name /\ p.fileId = f.sndFileId
    BY <2>5 DEF Progress
  <2> HIDE DEF p
  <2>7. rx'[e] = p /\ \A x \in Role : x # e => rx'[x] = rx[x]
    BY <2>1 DEF TypeOK
  <2>8. /\ rx[e].fileName < rx'[e].fileName /\ rx'[e].fileId = rx'[e].fileName - 1
        /\ rx[e].fileName <= rx'[e].fileName /\ rx'[e].fileName <= opened'[Peer(e)]
    BY <1>1, <1>2, <2>4, <2>6, <2>7
  <2>9. \A x \in Role : x # e => /\ rx[x].fileName <= rx'[x].fileName
                                 /\ rx'[x].fileName <= opened'[Peer(x)] /\ Less(x)
    BY <1>1, <1>2, <2>7
  <2>10. ReceiversGoOn
    BY <2>8, <2>9 DEF ReceiversGoOn
  <2> QED
    BY <2>1, <2>6, <2>7, <2>10 DEF f
<1>7. rx' = rx \/ (HandleDataMessage(e) /\ ChunkWritten(e, f)) \/ StartReception(e)
  BY DEF HandleIncoming, ReadNothing, WaitForSyncProposal, WaitForSyncResponse,
         WaitForSyncAck, IllegalFrame, HandleDataMessage, ChunkNotWritten,
         CannotStartReception, RejectReception, transfer
<1> QED
  BY <1>3, <1>4, <1>5, <1>6, <1>7

LEMMA OpeningGoesOn ==
  ASSUME TypeOK, TypeOK', FeedbackInv, rx' = rx,
         \A x \in Role : opened[x] <= opened'[x]
  PROVE  ReceiversGoOn
<1> SUFFICES ASSUME NEW x \in Role
             PROVE  rx[x].fileName <= rx[x].fileName /\ rx[x].fileName <= opened'[Peer(x)]
  BY DEF ReceiversGoOn
<1>1. /\ rx[x].fileName \in Nat /\ opened[Peer(x)] \in Nat /\ opened'[Peer(x)] \in Nat
      /\ rx[x].fileName <= opened[Peer(x)] /\ opened[Peer(x)] <= opened'[Peer(x)]
  BY PeerTyped DEF TypeOK, Progress, FeedbackInv
<1> QED
  BY <1>1

LEMMA OpenedGrows ==
  ASSUME TypeOK,
         \/ opened' = opened
         \/ \E e \in Role : opened' = [opened EXCEPT ![e] = opened[e] + 1]
  PROVE  \A x \in Role : opened[x] <= opened'[x]
<1> SUFFICES ASSUME NEW x \in Role PROVE opened[x] <= opened'[x]
  OBVIOUS
<1>1. opened \in [Role -> Nat]
  BY DEF TypeOK
<1>2. opened'[x] = opened[x] \/ opened'[x] = opened[x] + 1
  BY <1>1
<1>3. opened[x] \in Nat
  BY <1>1
<1> QED
  BY <1>2, <1>3

LEMMA FeedbackStep ==
  ASSUME BuiltAlike, TypeOK, PlaceInv, FeedbackInv, [Next]_vars
  PROVE  FeedbackInv'
<1>1. TypeOK'
  BY StepTyped
<1>2. ASSUME NEW e \in Role, HandleIncoming(e) PROVE FeedbackInv'
  <2>1. /\ ReceiversGoOn
        /\ \A x \in Role : \/ rx'[x].fileName = rx[x].fileName
                           \/ /\ x = e /\ link[e] # <<>> /\ IsStart(Head(link[e]))
                              /\ rx'[e].fileName = Head(link[e]).payload.name
    BY <1>2, ReadingGoesOn
  <2>2. CASE ReadNothing(e)
    <3>1. link' = link /\ rx' = rx
      BY <2>2 DEF ReadNothing, transfer
    <3> QED
      BY <1>1, <2>1, <3>1, FramesKeepOrder
  <2>3. CASE ~ReadNothing(e)
    <3>1. link[e] # <<>> /\ link' = [link EXCEPT ![e] = Tail(@)]
      BY <1>2, <2>3 DEF HandleIncoming, WaitForSyncProposal, WaitForSyncResponse,
         WaitForSyncAck, IllegalFrame, HandleDataMessage, StartReception,
         CannotStartReception, RejectReception, ReadsFileStart, Reads
    <3> QED
      BY <1>1, <2>1, <3>1, ReadingKeepsOrder
  <2> QED
    BY <2>2, <2>3
<1>3. ASSUME NEW e \in Role, HandleOutgoing(e) PROVE FeedbackInv'
  <2>1. rx' = rx /\ \A x \in Role : opened[x] <= opened'[x]
    <3>1. rx' = rx /\ (opened' = opened \/ opened' = [opened EXCEPT ![e] = opened[e] + 1])
      BY <1>3 DEF HandleOutgoing, SendSyncProposal, SendSyncResponse, SendSyncAck,
         LeaveOutOfSync, AwaitHandshake, SendWTF, SendChunk, SendNoChunk, SendFileInfo,
         RefuseFile, SendEmptyData, transfer, files
    <3>2. \A x \in Role : opened[x] <= opened'[x]
      BY <3>1, OpenedGrows
    <3> QED
      BY <3>1, <3>2
  <2>2. ReceiversGoOn
    BY <1>1, <2>1, OpeningGoesOn
  <2>3. CASE link' = link
    BY <1>1, <2>1, <2>2, <2>3, FramesKeepOrder
  <2>4. CASE \E f \in Frame : Says(e, f)
    BY <1>1, <2>1, <2>2, <2>4, SayingKeepsOrder
  <2> QED
    BY <1>3, <2>3, <2>4, WhatIsSaid
<1>4. ASSUME opened' = opened, rx' = rx,
             \/ link' = link
             \/ \E e \in Role : link[e] # <<>> /\ link' = [link EXCEPT ![e] = Tail(@)]
      PROVE  FeedbackInv'
  <2>1. ReceiversGoOn
    <3>1. \A x \in Role : opened[x] <= opened'[x]
      BY <1>4, OpenedGrows
    <3> QED
      BY <1>1, <1>4, <3>1, OpeningGoesOn
  <2>2. CASE link' = link
    BY <1>1, <1>4, <2>1, <2>2, FramesKeepOrder
  <2> QED
    BY <1>1, <1>4, <2>1, <2>2, ReadingKeepsOrder
<1>5. ASSUME NEW e \in Role, OfferFile(e) \/ LoseFrame(e) PROVE FeedbackInv'
  BY <1>4, <1>5 DEF OfferFile, LoseFrame, transfer, files
<1>6. CASE UNCHANGED vars
  BY <1>4, <1>6 DEF vars, transfer, files
<1> QED
  BY <1>2, <1>3, <1>5, <1>6 DEF Next, Step

LEMMA FeedbackInvImplies == FeedbackInv => FeedbackIsSound
<1> SUFFICES ASSUME FeedbackInv, NEW e \in Role, NEW i \in InFlight(e, "DATA_TRANSFER"),
                    rx[Peer(e)].running, link[e][i].recFileId = rx[Peer(e)].fileId,
                    link[e][i].recFeedback # FEEDBACK_FILE_IS_READY
             PROVE  \A c \in rx[Peer(e)].chunkStatus : link[e][i].recFeedback <= c
  BY DEF FeedbackIsSound
<1>1. i \in DOMAIN link[e] /\ IsData(link[e][i])
  BY DEF InFlight, IsData
<1>2. IsSound(e, link[e][i])
  BY <1>1 DEF FeedbackInv
<1> QED
  BY <1>1, <1>2 DEF IsSound

LEMMA FeedbackHolds ==
  ASSUME BuiltAlike, NoIdTwice
  PROVE  Spec => [](TypeOK /\ PlaceInv /\ FeedbackInv)
<1>1. Init => TypeOK /\ PlaceInv /\ FeedbackInv
  <2> SUFFICES ASSUME Init PROVE FeedbackInv
    BY InitTyped, InitHasPlace
  <2>1. \A e \in Role : DOMAIN link[e] = {} /\ rx[e].fileName = 0 /\ opened[Peer(e)] = 0
    BY PeerTyped DEF Init, NoProgress, NoName
  <2> QED
    BY <2>1 DEF FeedbackInv, StartsInOrder
<1>2. TypeOK /\ PlaceInv /\ FeedbackInv /\ [Next]_vars
        => (TypeOK /\ PlaceInv /\ FeedbackInv)'
  BY StepTyped, StepKeepsPlace, FeedbackStep
<1> QED
  BY <1>1, <1>2, PTL DEF Spec

(***************************************************************************)
(* Feedback under way is sound, however old it is and whatever has been    *)
(* lost: of the file it is about its receiver has every chunk below the    *)
(* one it names (getFeedback 1201-1219).                                   *)
(***************************************************************************)
THEOREM FeedbackStaysSound ==
  ASSUME BuiltAlike, NoIdTwice
  PROVE  Spec => []FeedbackIsSound
  BY FeedbackHolds, FeedbackInvImplies, PTL

(* Only feedback about its file takes a sender back, to the chunk it names. *)
LEMMA RewoundByFeedback ==
  ASSUME TypeOK, [Next]_vars, NEW e \in Role, tx[e].running, tx'[e].running,
         tx'[e].chunkNo < tx[e].chunkNo
  PROVE  /\ link[e] # <<>> /\ IsData(Head(link[e]))
         /\ Head(link[e]).recFileId = tx[e].fileId
         /\ Head(link[e]).recFeedback # FEEDBACK_FILE_IS_READY
         /\ tx'[e].chunkNo = Head(link[e]).recFeedback
<1> DEFINE f == Head(link[e])
<1>1. tx[e].chunkNo \in Nat
  <2>1. tx[e] \in Progress
    BY DEF TypeOK
  <2>2. tx[e].chunkNo \in UInt8
    BY <2>1 DEF Progress
  <2> QED
    BY <2>2 DEF UInt8
<1>2. tx'[e] # tx[e]
  BY <1>1
<1>3. PICK x \in Role : Step(x)
  BY <1>2 DEF Next, OfferFile, LoseFrame, vars, transfer
<1>4. ~HandleOutgoing(x)
  <2>1. CASE SendChunk(x)
    <3>1. tx' = [tx EXCEPT ![x] = ChunkSent(@)]
      BY <2>1 DEF SendChunk
    <3>2. x = e
      BY <1>2, <3>1 DEF TypeOK
    <3>3. tx'[e].chunkNo = tx[e].chunkNo + 1
      BY <1>1, <3>1, <3>2 DEF ChunkSent, TypeOK, Progress
    <3> QED
      BY <1>1, <3>3
  <2>2. CASE SendFileInfo(x)
    BY <1>2, <2>2 DEF SendFileInfo, MayStartFile, TypeOK
  <2>3. CASE HandleOutgoing(x) /\ tx' = tx
    BY <1>2, <2>3
  <2> QED
    BY <2>1, <2>2, <2>3 DEF HandleOutgoing, SendSyncProposal, SendSyncResponse,
       SendSyncAck, LeaveOutOfSync, AwaitHandshake, SendWTF, SendNoChunk, RefuseFile,
       SendEmptyData, transfer
<1>5. HandleDataMessage(x)
  BY <1>2, <1>3, <1>4 DEF Step, HandleIncoming, ReadNothing, WaitForSyncProposal,
     WaitForSyncResponse, WaitForSyncAck, IllegalFrame, StartReception,
     CannotStartReception, RejectReception, ReadsFileStart, transfer
<1>6. TakeFeedback(x, Head(link[x]))
  BY <1>5 DEF HandleDataMessage
<1>7. x = e
  BY <1>2, <1>6 DEF TakeFeedback, TypeOK
<1>8. link[e] # <<>> /\ IsData(f)
  BY <1>5, <1>7 DEF HandleDataMessage, Reads, IsData
<1>9. /\ f.recFileId = tx[e].fileId /\ f.recFeedback # FEEDBACK_FILE_IS_READY
      /\ tx' = [tx EXCEPT ![e] = NextRound(@, f.recFeedback)]
  <2>1. \/ tx' = [tx EXCEPT ![e].running = FALSE]
        \/ /\ f.recFileId = tx[e].fileId /\ f.recFeedback # FEEDBACK_FILE_IS_READY
           /\ tx' = [tx EXCEPT ![e] = NextRound(@, f.recFeedback)]
    BY <1>2, <1>6, <1>7 DEF TakeFeedback
  <2>2. tx' # [tx EXCEPT ![e].running = FALSE]
    BY <1>1 DEF TypeOK, Progress
  <2> QED
    BY <2>1, <2>2
<1> HIDE DEF f
<1>10. tx'[e] = NextRound(tx[e], f.recFeedback)
  BY <1>9 DEF TypeOK
<1>11. tx'[e].chunkNo = f.recFeedback \/ tx'[e].chunkNo = tx[e].chunkNo
  BY <1>1, <1>10 DEF NextRound, Progress
<1> QED
  BY <1>1, <1>8, <1>9, <1>11 DEF f

(***************************************************************************)
(* When a sender goes back it goes back far enough: no chunk below the one *)
(* it returns to is missing at the receiver, although the feedback that    *)
(* took it there may be old (handleDataMessage 1082-1090).                 *)
(***************************************************************************)
THEOREM NothingIsSkipped ==
  ASSUME BuiltAlike, NoIdTwice
  PROVE  Spec => RewindSkipsNothing
<1> DEFINE Rewind ==
             \A e \in Role :
               LET r == rx[Peer(e)]
               IN /\ tx[e].running /\ tx'[e].running /\ tx'[e].chunkNo < tx[e].chunkNo
                  /\ r.running /\ r.fileName = tx[e].fileName
                  => \A c \in r.chunkStatus : tx'[e].chunkNo <= c
<1>1. TypeOK /\ PlaceInv /\ FeedbackInv /\ [Next]_vars => [Rewind]_vars
  <2> SUFFICES ASSUME TypeOK, PlaceInv, FeedbackInv, [Next]_vars, NEW e \in Role,
                      tx[e].running, tx'[e].running, tx'[e].chunkNo < tx[e].chunkNo,
                      rx[Peer(e)].running, rx[Peer(e)].fileName = tx[e].fileName
               PROVE  \A c \in rx[Peer(e)].chunkStatus : tx'[e].chunkNo <= c
    OBVIOUS
  <2>1. /\ link[e] # <<>> /\ IsData(Head(link[e]))
        /\ Head(link[e]).recFileId = tx[e].fileId
        /\ Head(link[e]).recFeedback # FEEDBACK_FILE_IS_READY
        /\ tx'[e].chunkNo = Head(link[e]).recFeedback
    BY RewoundByFeedback
  <2>2. tx[e].fileId = rx[Peer(e)].fileId
    <3>1. tx[e].fileId = tx[e].fileName - 1
      BY DEF PlaceInv, SenderKnowsItsFile, IsRecordOf
    <3>2. rx[Peer(e)].fileId = rx[Peer(e)].fileName - 1
      BY PeerTyped DEF PlaceInv, ReceiverKnowsItsFile, IsRecordOf
    <3> QED
      BY <3>1, <3>2
  <2>3. IsSound(e, Head(link[e]))
    BY <2>1, TailPlaces DEF FeedbackInv, TypeOK
  <2> QED
    BY <2>1, <2>2, <2>3 DEF IsSound
<1> QED
  BY <1>1, FeedbackHolds, PTL DEF Spec, RewindSkipsNothing

-----------------------------------------------------------------------------
(***************************************************************************)
(* A file that the program can deliver: it has at most eight chunks, which *)
(* the bitmap search sees completely, and its last chunk is not taken to   *)
(* be empty (progressGetFirstDirty 416-454, THERMIT_CHUNK_LENGTH_TX 34).   *)
(***************************************************************************)
Deliverable(size) == size < 8 * BuiltChunkSize /\ size % BuiltChunkSize # 0

EveryFileDeliverable ==
  \A size \in FileSizes : size \in 1 .. BuiltMaxFileSize => Deliverable(size)

(* The place of byte o is in chunk c of a file. *)
InChunk(o, c) ==
  c * BuiltChunkSize <= o /\ o < c * BuiltChunkSize + BuiltChunkSize

(* A byte of a file in its place. *)
OwnByte(name, o) == [at |-> o, name |-> name, byte |-> o]

(* The places that are written when the chunks missing are not. *)
Places(size, missing) == {o \in 0 .. size - 1 : \A c \in missing : ~InChunk(o, c)}

AllBut(name, size, missing) == {OwnByte(name, o) : o \in Places(size, missing)}

-----------------------------------------------------------------------------
(* Lemmas about files that can be delivered. *)

(* The chunks of a file: all full but the last, which is not empty. *)
LEMMA ChunksOfDeliverable ==
  ASSUME NEW size \in Nat \ {0}, Deliverable(size)
  PROVE  LET n == DivisionRoundedUp(size, BuiltChunkSize)
             r == size % BuiltChunkSize
         IN /\ n \in 1 .. 8 /\ r \in 1 .. BuiltChunkSize - 1
            /\ size = (n - 1) * BuiltChunkSize + r
<1> DEFINE c == BuiltChunkSize
           q == size \div c
           r == size % c
           n == DivisionRoundedUp(size, c)
<1>1. c \in Nat \ {0} /\ size < 8 * c /\ r # 0
  BY BuiltTyped DEF Deliverable
<1>2. q \in Nat /\ r \in Nat /\ r < c /\ size = c * q + r
  <2> HIDE DEF c
  <2> QED
    BY <1>1
<1>3. n = q + 1
  BY <1>1 DEF DivisionRoundedUp
<1> HIDE DEF c, q, r, n
<1>4. q < 8
  <2>1. c * q \in Nat /\ c * 8 \in Nat /\ c * q < c * 8
    BY <1>1, <1>2
  <2> QED
    BY <1>1, <1>2, <2>1, FactorsCompare
<1>5. (n - 1) * c = c * q
  BY <1>1, <1>2, <1>3
<1>6. n \in 1 .. 8 /\ r \in 1 .. c - 1 /\ size = (n - 1) * c + r
  <2>1. c * q \in Nat
    BY <1>1, <1>2
  <2> QED
    BY <1>1, <1>2, <1>3, <1>4, <1>5, <2>1
<1> QED
  BY <1>6 DEF c, q, r, n

(* Chunks do not overlap. *)
LEMMA ChunksApart ==
  ASSUME NEW c \in Nat, NEW d \in Nat, NEW o \in Nat, InChunk(o, c), InChunk(o, d)
  PROVE  c = d
<1> DEFINE s == BuiltChunkSize
<1>1. s \in Nat \ {0}
  BY BuiltTyped
<1>2. c * s <= o /\ o < c * s + s /\ d * s <= o /\ o < d * s + s
  BY DEF InChunk
<1> HIDE DEF s
<1>3. ASSUME NEW a \in Nat, NEW b \in Nat, a * s <= o, o < b * s + s
      PROVE  a <= b
  <2>1. s * a < s * (b + 1)
    <3>1. s * a = a * s /\ s * (b + 1) = b * s + s /\ a * s \in Nat /\ b * s \in Nat
      BY <1>1
    <3> QED
      BY <1>1, <1>3, <3>1
  <2>2. a < b + 1
    BY <1>1, <2>1, FactorsCompare
  <2> QED
    BY <2>2
<1> QED
  BY <1>2, <1>3

(* The bytes of a chunk that is written are those of its place in the file. *)
LEMMA ChunkIsItsPlaces ==
  ASSUME NEW size \in Nat \ {0}, Deliverable(size), NEW c \in Nat,
         c < DivisionRoundedUp(size, BuiltChunkSize), NEW o \in Int
  PROVE  LET n      == DivisionRoundedUp(size, BuiltChunkSize)
             length == IF c = n - 1 THEN size % BuiltChunkSize ELSE BuiltChunkSize
             offset == c * BuiltChunkSize
         IN o \in offset .. offset + length - 1 <=> o \in 0 .. size - 1 /\ InChunk(o, c)
<1> DEFINE s      == BuiltChunkSize
           n      == DivisionRoundedUp(size, s)
           r      == size % s
           length == IF c = n - 1 THEN r ELSE s
           offset == c * s
<1>1. s \in Nat \ {0}
  BY BuiltTyped
<1>2. n \in 1 .. 8 /\ r \in 1 .. s - 1 /\ size = (n - 1) * s + r
  BY ChunksOfDeliverable
<1>3. InChunk(o, c) <=> offset <= o /\ o < offset + s
  BY DEF InChunk
<1>4. c < n
  OBVIOUS
<1> HIDE DEF s, n, r
<1>5. offset \in Nat
  BY <1>1
<1>6. CASE c = n - 1
  <2>1. length = r /\ size = offset + r
    BY <1>2, <1>6
  <2> HIDE DEF offset, length
  <2>2. o \in offset .. offset + length - 1 <=> o \in 0 .. size - 1 /\ offset <= o /\ o < offset + s
    BY <1>1, <1>2, <1>5, <2>1
  <2> QED
    BY <1>3, <2>2 DEF s, n, r, length, offset
<1>7. CASE c # n - 1
  <2>1. length = s
    BY <1>7
  <2>2. PICK d \in Nat : n - 1 = c + 1 + d
    <3>1. n - 1 - c - 1 \in Nat /\ n - 1 = c + 1 + (n - 1 - c - 1)
      BY <1>2, <1>4, <1>7
    <3> QED
      BY <3>1
  <2>3. (n - 1) * s = offset + s + d * s /\ d * s \in Nat
    BY <1>1, <2>2
  <2>4. offset + s <= size
    <3> HIDE DEF offset
    <3> QED
      BY <1>1, <1>2, <1>5, <2>3
  <2> HIDE DEF offset, length
  <2>5. o \in offset .. offset + length - 1 <=> o \in 0 .. size - 1 /\ offset <= o /\ o < offset + s
    BY <1>1, <1>2, <1>5, <2>1, <2>4
  <2> QED
    BY <1>3, <2>5 DEF s, n, r, length, offset
<1> QED
  BY <1>6, <1>7

(* Writing a missing chunk in its place leaves one chunk less missing. *)
LEMMA ChunkFillsItsPlace ==
  ASSUME NEW size \in Nat \ {0}, Deliverable(size), NEW name, NEW missing \in SUBSET Nat,
         NEW c \in Nat, c < DivisionRoundedUp(size, BuiltChunkSize)
  PROVE  LET n      == DivisionRoundedUp(size, BuiltChunkSize)
             length == IF c = n - 1 THEN size % BuiltChunkSize ELSE BuiltChunkSize
             offset == c * BuiltChunkSize
         IN FileWrite(AllBut(name, size, missing), offset,
                      [name |-> name, from |-> offset, length |-> length])
              = AllBut(name, size, missing \ {c})
<1> DEFINE n      == DivisionRoundedUp(size, BuiltChunkSize)
           length == IF c = n - 1 THEN size % BuiltChunkSize ELSE BuiltChunkSize
           offset == c * BuiltChunkSize
           last   == offset + length - 1
           old    == {b \in AllBut(name, size, missing) : b.at \notin offset .. last}
           new    == {[at |-> o, name |-> name, byte |-> offset + o - offset] : o \in offset .. last}
<1>1. FileWrite(AllBut(name, size, missing), offset,
                [name |-> name, from |-> offset, length |-> length]) = old \cup new
  BY DEF FileWrite
<1>2. \A o \in Int : o \in offset .. last <=> o \in 0 .. size - 1 /\ InChunk(o, c)
  BY ChunkIsItsPlaces
<1>3. offset \in Nat
  BY BuiltTyped
<1> HIDE DEF offset, last
<1>4. offset .. last \subseteq Int
  OBVIOUS
<1>5. \A o \in offset .. last : [at |-> o, name |-> name, byte |-> offset + o - offset] = OwnByte(name, o)
  BY <1>3, <1>4 DEF OwnByte
<1>6. new = {OwnByte(name, o) : o \in offset .. last}
  BY <1>5
<1>7. \A o \in 0 .. size - 1 : o \in Places(size, missing \ {c})
        <=> (o \in Places(size, missing) /\ o \notin offset .. last) \/ o \in offset .. last
  <2> SUFFICES ASSUME NEW o \in 0 .. size - 1
               PROVE  o \in Places(size, missing \ {c})
                        <=> (o \in Places(size, missing) /\ o \notin offset .. last)
                            \/ o \in offset .. last
    OBVIOUS
  <2>1. o \in Nat /\ o \in Int
    OBVIOUS
  <2>2. o \in offset .. last <=> InChunk(o, c)
    BY <1>2, <2>1
  <2>3. \A d \in missing : InChunk(o, c) /\ InChunk(o, d) => d = c
    BY <2>1, ChunksApart
  <2> QED
    BY <2>2, <2>3 DEF Places
<1>8. \A o \in offset .. last : o \in 0 .. size - 1
  BY <1>2, <1>4
<1>9. old = {OwnByte(name, o) : o \in {o \in Places(size, missing) : o \notin offset .. last}}
  BY DEF AllBut, OwnByte
<1>10. Places(size, missing \ {c})
         = {o \in Places(size, missing) : o \notin offset .. last} \cup (offset .. last)
  BY <1>7, <1>8 DEF Places
<1>11. old \cup new = AllBut(name, size, missing \ {c})
  <2> HIDE DEF old, new
  <2> QED
    BY <1>6, <1>9, <1>10 DEF AllBut
<1> QED
  BY <1>1, <1>11 DEF offset, last

(* A file of which no chunk is missing is whole. *)
LEMMA NothingMissing ==
  ASSUME NEW name, NEW size
  PROVE  AllBut(name, size, {}) = WholeFile(name, size)
BY DEF AllBut, Places, OwnByte, WholeFile

-----------------------------------------------------------------------------
(***************************************************************************)
(* Ends that take turns.  There is at most one frame on the lines, on its  *)
(* way to the end whose turn it is, and it was said by the state its       *)
(* sender is still in.                                                     *)
(***************************************************************************)
TakeTurns ==
  /\ phase[Peer(turn)] = "in" /\ link[Peer(turn)] = <<>>
  /\ link[turn] # <<>> => Tail(link[turn]) = <<>>
  /\ phase[turn] = "out" => link[turn] = <<>>

(* e is receiving a file of the life its sender is in. *)
IsReceiving(e) == rx[e].running /\ rx[e].fileName <= MaxFiles

(* Two records are about one file. *)
SameFile(p, q) ==
  /\ p.fileName = q.fileName /\ p.fileId = q.fileId
  /\ p.fileSize = q.fileSize /\ p.numberOfChunksNeeded = q.numberOfChunksNeeded

(* What is said of sizes, of the file that starts, of the chunk that comes *)
(* with a frame to e, and of what its sender still misses.                 *)
FrameIsTrue(e, f) ==
  LET p == Peer(e)
  IN /\ f.code = "SYNC_PROPOSAL" => /\ f.payload.chunkSize = BuiltChunkSize
                                    /\ f.payload.maxFileSize = BuiltMaxFileSize
     /\ IsStart(f) /\ f.payload.name <= MaxFiles =>
          /\ tx[p].running
          /\ tx[p].fileName = f.payload.name /\ tx[p].fileId = f.sndFileId
          /\ tx[p].fileSize = f.payload.size
     /\ IsData(f) /\ IsReceiving(e) =>
          /\ f.sndChunkNo < tx[p].numberOfChunksNeeded
          /\ f.payload = [name   |-> tx[p].fileName,
                          from   |-> f.sndChunkNo * BuiltChunkSize,
                          length |-> ChunkLength(f.sndChunkNo, tx[p], BuiltChunkSize)]
     /\ IsData(f) /\ IsReceiving(p) => f.recFeedback # FEEDBACK_FILE_IS_READY

LinesAreTrue == \A e \in Role : link[e] # <<>> => FrameIsTrue(e, Head(link[e]))

(* What is being sent is a file offered in this life, and one that fits. *)
SenderStands(e) ==
  /\ opened[e] <= Len(offered[e]) /\ Len(offered[e]) <= MaxFiles
  /\ tx[e].running =>
       /\ tx[e].fileName \in 1 .. opened[e]
       /\ tx[e].fileSize \in FileSizes /\ tx[e].fileSize \in 1 .. BuiltMaxFileSize
       /\ tx[e].numberOfChunksNeeded = DivisionRoundedUp(tx[e].fileSize, BuiltChunkSize)

(* While a file is being received it is being sent, a chunk of it is       *)
(* missing, and all that is not missing has been written.                  *)
ReceiverKeepsUp(e) ==
  IsReceiving(e) =>
    /\ tx[Peer(e)].running /\ SameFile(rx[e], tx[Peer(e)])
    /\ rx[e].chunkStatus # {}
    /\ rx[e].chunkStatus \subseteq 0 .. rx[e].numberOfChunksNeeded - 1
    /\ storage[e].written = AllBut(rx[e].fileName, rx[e].fileSize, rx[e].chunkStatus)

ReceivedIsIntact(e) == \A r \in received[e] : r.name <= MaxFiles => r.intact

TurnInv ==
  /\ TakeTurns /\ SizesStand /\ LinesAreTrue
  /\ \A e \in Role : SenderStands(e) /\ ReceiverKeepsUp(e) /\ ReceivedIsIntact(e)

-----------------------------------------------------------------------------
(* Lemmas about turns. *)

LEMMA OneFrame ==
  ASSUME NEW f \in Frame
  PROVE  LET s == Append(<<>>, f)
         IN s # <<>> /\ Head(s) = f /\ Tail(s) = <<>>
OBVIOUS

(* Reading leaves the lines empty. *)
LEMMA ReadingInTurn ==
  ASSUME LockStep, TypeOK, TakeTurns, NEW e \in Role, HandleIncoming(e)
  PROVE  /\ turn = e /\ turn' = turn
         /\ phase[e] = "in" /\ phase' = [phase EXCEPT ![e] = "out"]
         /\ link[Peer(e)] = <<>>
         /\ \A x \in Role : link'[x] = <<>>
         /\ opened' = opened /\ offered' = offered
<1>1. Incoming(e) /\ opened' = opened
  BY DEF HandleIncoming, ReadNothing, WaitForSyncProposal, WaitForSyncResponse,
         WaitForSyncAck, IllegalFrame, HandleDataMessage, StartReception,
         CannotStartReception, RejectReception, ReadsFileStart, Reads, files
<1>2. \/ link' = link /\ link[e] = <<>>
      \/ link[e] # <<>> /\ link' = [link EXCEPT ![e] = Tail(@)]
  BY DEF HandleIncoming, ReadNothing, WaitForSyncProposal, WaitForSyncResponse,
         WaitForSyncAck, IllegalFrame, HandleDataMessage, StartReception,
         CannotStartReception, RejectReception, ReadsFileStart, Reads
<1>3. turn = e /\ turn' = turn /\ phase[e] = "in"
      /\ phase' = [phase EXCEPT ![e] = "out"] /\ offered' = offered
  BY <1>1 DEF Incoming, MayStep
<1>4. link[Peer(e)] = <<>> /\ (link[e] # <<>> => Tail(link[e]) = <<>>)
  BY <1>3 DEF TakeTurns
<1>5. \A x \in Role : x = e \/ x = Peer(e)
  BY DEF Role, Peer
<1>6. \A x \in Role : link'[x] = <<>>
  BY <1>2, <1>4, <1>5, PeerTyped DEF TypeOK
<1> QED
  BY <1>1, <1>3, <1>4, <1>6

(* Before something is said the lines are empty. *)
LEMMA SayingInTurn ==
  ASSUME LockStep, TypeOK, TakeTurns, NEW e \in Role, HandleOutgoing(e)
  PROVE  /\ turn = e /\ turn' = Peer(e)
         /\ phase[e] = "out" /\ phase' = [phase EXCEPT ![e] = "in"]
         /\ phase[Peer(e)] = "in"
         /\ \A x \in Role : link[x] = <<>>
         /\ link'[e] = <<>>
         /\ \/ link'[Peer(e)] = <<>>
            \/ \E f \in Frame : Sends(e, f) /\ link'[Peer(e)] = Append(<<>>, f)
         /\ offered' = offered
<1>1. \/ Outgoing(e) /\ link' = link
      \/ \E f \in Frame : Sends(e, f)
  <2>1. link' = link \/ \E f \in Frame : Says(e, f)
    BY WhatIsSaid
  <2>2. Outgoing(e)
    BY DEF HandleOutgoing, SendSyncProposal, SendSyncResponse, SendSyncAck,
       LeaveOutOfSync, AwaitHandshake, SendWTF, SendChunk, SendNoChunk,
       SendFileInfo, RefuseFile, SendEmptyData, Sends
  <2> QED
    BY <2>1, <2>2 DEF Says, Sends
<1>2. Outgoing(e)
  BY <1>1 DEF Sends
<1>3. /\ turn = e /\ turn' = Peer(e) /\ phase[e] = "out"
      /\ phase' = [phase EXCEPT ![e] = "in"] /\ offered' = offered
  BY <1>2 DEF Outgoing, MayStep
<1>4. phase[Peer(e)] = "in" /\ link[Peer(e)] = <<>> /\ link[e] = <<>>
  BY <1>3 DEF TakeTurns
<1>5. \A x \in Role : x = e \/ x = Peer(e)
  BY DEF Role, Peer
<1>6. link'[e] = <<>>
  BY <1>1, <1>4, PeerTyped DEF TypeOK, Sends
<1>7. \/ link'[Peer(e)] = <<>>
      \/ \E f \in Frame : Sends(e, f) /\ link'[Peer(e)] = Append(<<>>, f)
  BY <1>1, <1>4, PeerTyped DEF TypeOK, Sends
<1> QED
  BY <1>3, <1>4, <1>5, <1>6, <1>7

(* Noise leaves the lines empty. *)
LEMMA LosingInTurn ==
  ASSUME TypeOK, TakeTurns, NEW e \in Role, LoseFrame(e)
  PROVE  \A x \in Role : link'[x] = <<>>
<1>1. link[e] # <<>> /\ link' = [link EXCEPT ![e] = Tail(@)]
  BY DEF LoseFrame
<1>2. \A x \in Role : x = turn \/ x = Peer(turn)
  BY DEF TypeOK, Role, Peer
<1>3. e = turn /\ link[Peer(e)] = <<>> /\ Tail(link[e]) = <<>>
  BY <1>1, <1>2 DEF TakeTurns
<1> QED
  BY <1>1, <1>2, <1>3, PeerTyped DEF TypeOK

LEMMA TurnsGoOn ==
  ASSUME LockStep, TypeOK, TakeTurns, [Next]_vars
  PROVE  TakeTurns'
<1>1. ASSUME NEW e \in Role, HandleIncoming(e) PROVE TakeTurns'
  <2>1. /\ turn = e /\ turn' = turn /\ phase' = [phase EXCEPT ![e] = "out"]
        /\ \A x \in Role : link'[x] = <<>>
    BY <1>1, ReadingInTurn
  <2>2. phase'[Peer(e)] = "in"
    BY <2>1, PeerTyped DEF TypeOK, TakeTurns
  <2> QED
    BY <2>1, <2>2, PeerTyped DEF TakeTurns
<1>2. ASSUME NEW e \in Role, HandleOutgoing(e) PROVE TakeTurns'
  <2>1. /\ turn' = Peer(e) /\ phase' = [phase EXCEPT ![e] = "in"]
        /\ phase[Peer(e)] = "in" /\ link'[e] = <<>>
        /\ \/ link'[Peer(e)] = <<>>
           \/ \E f \in Frame : Sends(e, f) /\ link'[Peer(e)] = Append(<<>>, f)
    BY <1>2, SayingInTurn
  <2>2. link'[Peer(e)] # <<>> => Tail(link'[Peer(e)]) = <<>>
    BY <2>1, OneFrame
  <2>3. Peer(Peer(e)) = e /\ phase'[e] = "in" /\ phase'[Peer(e)] = "in"
    BY <2>1, PeerTyped DEF TypeOK
  <2> QED
    BY <2>1, <2>2, <2>3 DEF TakeTurns
<1>3. ASSUME NEW e \in Role, OfferFile(e) PROVE TakeTurns'
  BY <1>3 DEF OfferFile, TakeTurns
<1>4. ASSUME NEW e \in Role, LoseFrame(e) PROVE TakeTurns'
  <2>1. \A x \in Role : link'[x] = <<>>
    BY <1>4, LosingInTurn
  <2> QED
    BY <1>4, <2>1, PeerTyped DEF LoseFrame, TakeTurns, TypeOK
<1>5. CASE UNCHANGED vars
  BY <1>5 DEF vars, TakeTurns
<1> QED
  BY <1>1, <1>2, <1>3, <1>4, <1>5 DEF Next, Step

(* The compromise of sets with the sizes of one build has them, too. *)
LEMMA CompromiseAlike ==
  ASSUME BuiltAlike, NEW p, NEW q,
         p.chunkSize = BuiltChunkSize, p.maxFileSize = BuiltMaxFileSize,
         q.chunkSize = BuiltChunkSize, q.maxFileSize = BuiltMaxFileSize
  PROVE  LET new == FindBestCommonParameterSet(p, q)
         IN new.chunkSize = BuiltChunkSize /\ new.maxFileSize = BuiltMaxFileSize
<1> DEFINE a == BuiltMaxFileSize
           b == BuiltChunkSize * ChunkCountMax
<1>1. Min2(a, b) = a
  <2>1. a \in Nat /\ b \in Nat /\ a <= b
    BY BuiltTyped DEF BuiltAlike
  <2> HIDE DEF a, b
  <2> QED
    BY <2>1 DEF Min2
<1>2. \A n : Min2(n, n) = n
  BY DEF Min2
<1> QED
  BY <1>1, <1>2, Zenon DEF FindBestCommonParameterSet

(* The negotiation of ends built alike leaves their sizes as they are. *)
LEMMA SizesGoOnInTurn ==
  ASSUME BuiltAlike, TypeOK, SizesStand, LinesAreTrue, [Next]_vars
  PROVE  SizesStand'
<1>1. ASSUME NEW e \in Role, WaitForSyncProposal(e) PROVE SizesStand'
  <2> DEFINE f   == Head(link[e])
             new == FindBestCommonParameterSet(f.payload, parameters[e])
  <2>1. /\ link[e] # <<>> /\ f.code = "SYNC_PROPOSAL"
        /\ parameters' = [parameters EXCEPT ![e] = new]
    BY <1>1 DEF WaitForSyncProposal, Reads
  <2>2. /\ f.payload.chunkSize = BuiltChunkSize
        /\ f.payload.maxFileSize = BuiltMaxFileSize
        /\ parameters[e].chunkSize = BuiltChunkSize
        /\ parameters[e].maxFileSize = BuiltMaxFileSize
    BY <2>1 DEF LinesAreTrue, FrameIsTrue, SizesStand
  <2> HIDE DEF f
  <2>3. new.chunkSize = BuiltChunkSize /\ new.maxFileSize = BuiltMaxFileSize
    BY <2>2, CompromiseAlike
  <2> HIDE DEF new
  <2> QED
    BY <2>1, <2>3 DEF TypeOK, SizesStand
<1>2. ASSUME NEW e \in Role, HandleIncoming(e), ~WaitForSyncProposal(e)
      PROVE  parameters' = parameters
  BY <1>2 DEF HandleIncoming, ReadNothing, WaitForSyncResponse, WaitForSyncAck,
     IllegalFrame, HandleDataMessage, StartReception, CannotStartReception,
     RejectReception, ReadsFileStart, session
<1>3. ASSUME NEW e \in Role, HandleOutgoing(e) \/ OfferFile(e) \/ LoseFrame(e)
      PROVE  parameters' = parameters
  BY <1>3 DEF HandleOutgoing, SendSyncProposal, SendSyncResponse, SendSyncAck,
     LeaveOutOfSync, InitializeState, AwaitHandshake, SendWTF, SendChunk, SendNoChunk,
     SendFileInfo, RefuseFile, SendEmptyData, OfferFile, LoseFrame, session
<1>4. CASE parameters' = parameters
  BY <1>4 DEF SizesStand
<1>5. CASE UNCHANGED vars
  BY <1>4, <1>5 DEF vars, session
<1> QED
  BY <1>1, <1>2, <1>3, <1>4, <1>5 DEF Next, Step

(* In a file of at most eight chunks every missing one is found. *)
LEMMA SmallSearch ==
  ASSUME NEW p, p.numberOfChunksNeeded \in 1 .. 8,
         p.chunkStatus \subseteq 0 .. p.numberOfChunksNeeded - 1
  PROVE  DirtyFound(p) <=> p.chunkStatus # {}
<1> DEFINE n == p.numberOfChunksNeeded
<1>1. ASSUME NEW d \in 0 .. n - 1 PROVE InReach(d, n)
  <2> HIDE DEF n
  <2>1. n \in 1 .. 8
    BY DEF n
  <2>2. d \in 0 .. 7 /\ d < n
    BY <1>1, <2>1
  <2>3. (d \div 8) = 0
    BY <2>2
  <2> QED
    BY <2>2, <2>3 DEF InReach
<1> QED
  BY <1>1 DEF DirtyFound

(* What a step that reads changes. *)
LEMMA ReadingChanges ==
  ASSUME TypeOK, NEW e \in Role, HandleIncoming(e)
  PROVE  LET f == Head(link[e])
         IN /\ \A x \in Role : x # e => /\ tx'[x] = tx[x] /\ rx'[x] = rx[x]
                                        /\ storage'[x] = storage[x]
                                        /\ received'[x] = received[x]
            /\ \/ tx'[e] = tx[e]
               \/ /\ link[e] # <<>> /\ IsData(f) /\ SameFile(tx'[e], tx[e])
                  /\ \/ tx'[e].running = tx[e].running
                     \/ f.recFeedback = FEEDBACK_FILE_IS_READY /\ ~tx'[e].running
            /\ \/ rx'[e] = rx[e] /\ storage'[e] = storage[e] /\ received'[e] = received[e]
               \/ StartReception(e)
               \/ HandleDataMessage(e) /\ ChunkWritten(e, f)
<1> DEFINE f == Head(link[e])
<1>1. tx[e] \in Progress
  BY DEF TypeOK
<1>2. CASE HandleDataMessage(e)
  <2>1. link[e] # <<>> /\ IsData(f) /\ TakeFeedback(e, f)
        /\ (ChunkWritten(e, f) \/ ChunkNotWritten(e, f))
    BY <1>2 DEF HandleDataMessage, Reads, IsData
  <2>2. \/ ChunkWritten(e, f)
        \/ rx' = rx /\ storage' = storage /\ received' = received
    BY <2>1 DEF ChunkNotWritten
  <2>3. \A x \in Role : x # e => /\ rx'[x] = rx[x] /\ storage'[x] = storage[x]
                                 /\ received'[x] = received[x]
    BY <2>2 DEF ChunkWritten, TypeOK
  <2>4. \/ tx' = tx
        \/ tx' = [tx EXCEPT ![e].running = FALSE] /\ f.recFeedback = FEEDBACK_FILE_IS_READY
        \/ tx' = [tx EXCEPT ![e] = NextRound(@, f.recFeedback)]
    BY <2>1 DEF TakeFeedback
  <2> HIDE DEF f
  <2>5. ASSUME tx' = [tx EXCEPT ![e].running = FALSE]
        PROVE  SameFile(tx'[e], tx[e]) /\ ~tx'[e].running
    BY <1>1, <2>5 DEF TypeOK, Progress, SameFile
  <2>6. ASSUME tx' = [tx EXCEPT ![e] = NextRound(@, f.recFeedback)]
        PROVE  SameFile(tx'[e], tx[e]) /\ tx'[e].running = tx[e].running
    <3>1. tx'[e] = NextRound(tx[e], f.recFeedback)
      BY <2>6 DEF TypeOK
    <3> QED
      BY <1>1, <3>1 DEF NextRound, Progress, SameFile
  <2>7. \A x \in Role : x # e => tx'[x] = tx[x]
    BY <2>4 DEF TypeOK
  <2> QED
    BY <1>2, <2>1, <2>2, <2>3, <2>4, <2>5, <2>6, <2>7 DEF f
<1>3. CASE StartReception(e)
  BY <1>3 DEF StartReception, ReadsFileStart, TypeOK
<1>4. CASE ~HandleDataMessage(e) /\ ~StartReception(e)
  <2>1. tx' = tx /\ rx' = rx /\ storage' = storage /\ received' = received
    BY <1>4 DEF HandleIncoming, ReadNothing, WaitForSyncProposal, WaitForSyncResponse,
       WaitForSyncAck, IllegalFrame, CannotStartReception, RejectReception,
       ReadsFileStart, transfer, files
  <2> QED
    BY <2>1
<1> QED
  BY <1>2, <1>3, <1>4

(* The record of a transfer that is told of a chunk. *)
Marked(p, c, b) == [ProgressSetChunkDone(p, c) EXCEPT !.running = b]

IsMarked(q, p, c) == SameFile(q, p) /\ q.chunkStatus = p.chunkStatus \ {c}

LEMMA ChunkMarked ==
  ASSUME NEW p \in Progress, NEW c \in Nat, NEW b \in BOOLEAN,
         c < p.numberOfChunksNeeded
  PROVE  /\ IsMarked(Marked(p, c, b), p, c) /\ Marked(p, c, b).running = b
         /\ IsMarked(ProgressSetChunkDone(p, c), p, c)
<1> DEFINE s == p.chunkStatus \ {c}
<1>1. ProgressSetChunkDone(p, c) = [p EXCEPT !.chunkStatus = s]
  BY DEF ProgressSetChunkDone
<1> HIDE DEF s
<1>2. Marked(p, c, b) = [p EXCEPT !.chunkStatus = s, !.running = b]
  BY <1>1 DEF Marked
<1> QED
  BY <1>1, <1>2 DEF Progress, SameFile, IsMarked, s

(* A chunk of the file being received fills its place; the last one that   *)
(* was missing completes the file.                                         *)
ChunkFills(e) ==
  LET missing == rx'[e].chunkStatus
  IN /\ SameFile(rx'[e], rx[e])
     /\ missing \subseteq rx[e].chunkStatus
     /\ rx'[e].running <=> missing # {}
     /\ storage'[e].written = AllBut(rx[e].fileName, rx[e].fileSize, missing)
     /\ \/ rx'[e].running /\ received'[e] = received[e]
        \/ /\ ~rx'[e].running
           /\ \E r : /\ r.name = rx[e].fileName /\ r.intact
                     /\ received'[e] = received[e] \cup {r}

LEMMA ChunkTaken ==
  ASSUME BuiltAlike, EveryFileDeliverable, TypeOK, TurnInv, NEW e \in Role,
         HandleDataMessage(e), ChunkWritten(e, Head(link[e])), IsReceiving(e)
  PROVE  ChunkFills(e)
<1> DEFINE f       == Head(link[e])
           p       == Peer(e)
           c       == f.sndChunkNo
           offset  == c * parameters[e].chunkSize
           written == FileWrite(storage[e].written, offset, f.payload)
           after   == ProgressSetChunkDone(rx[e], c)
           ready   == ~DirtyFound(after)
           name    == rx[e].fileName
           size    == rx[e].fileSize
           n       == DivisionRoundedUp(size, BuiltChunkSize)
           missing == rx[e].chunkStatus \ {c}
           r       == [name     |-> name,
                       storedAs |-> storage[e].openedAs,
                       intact   |-> written = WholeFile(name, size)]
<1>1. /\ storage' = [storage EXCEPT ![e].written = written]
      /\ rx' = [rx EXCEPT ![e] = [after EXCEPT !.running = ~ready]]
      /\ received' = IF ready THEN [received EXCEPT ![e] = @ \cup {r}] ELSE received
  BY DEF ChunkWritten
<1>2. link[e] # <<>> /\ IsData(f)
  BY DEF HandleDataMessage, Reads, IsData
<1>3. /\ p \in Role /\ tx[p].running /\ SameFile(rx[e], tx[p])
      /\ rx[e].chunkStatus \subseteq 0 .. rx[e].numberOfChunksNeeded - 1
      /\ storage[e].written = AllBut(name, size, rx[e].chunkStatus)
      /\ parameters[e].chunkSize = BuiltChunkSize
  BY PeerTyped DEF TurnInv, ReceiverKeepsUp, SizesStand
<1>4. /\ tx[p].fileSize \in FileSizes /\ tx[p].fileSize \in 1 .. BuiltMaxFileSize
      /\ tx[p].numberOfChunksNeeded = DivisionRoundedUp(tx[p].fileSize, BuiltChunkSize)
  BY <1>3 DEF TurnInv, SenderStands
<1>5. /\ size \in Nat \ {0} /\ Deliverable(size) /\ tx[p].fileSize = size
      /\ rx[e].numberOfChunksNeeded = n /\ tx[p].numberOfChunksNeeded = n
      /\ tx[p].fileName = name
  <2>1. tx[p].fileSize = size /\ rx[e].numberOfChunksNeeded = tx[p].numberOfChunksNeeded
        /\ tx[p].fileName = name
    BY <1>3 DEF SameFile
  <2>2. \A x \in 1 .. BuiltMaxFileSize : x \in Nat \ {0}
    OBVIOUS
  <2> QED
    BY <1>4, <2>1, <2>2 DEF EveryFileDeliverable
<1>6. /\ c < tx[p].numberOfChunksNeeded
      /\ f.payload = [name   |-> tx[p].fileName, from |-> c * BuiltChunkSize,
                      length |-> ChunkLength(c, tx[p], BuiltChunkSize)]
  BY <1>2 DEF TurnInv, LinesAreTrue, FrameIsTrue
<1>7. c \in Nat
  <2>1. f \in Frame
    BY <1>2, LineRead DEF TypeOK
  <2>2. c \in UInt8
    BY <1>2, <2>1, FrameFields DEF IsData
  <2> QED
    BY <2>2 DEF UInt8
<1>8. rx[e].chunkStatus \in SUBSET Nat
  <2>1. rx[e] \in Progress
    BY DEF TypeOK
  <2> QED
    BY <2>1 DEF Progress, UInt8
<1>9. ChunkLength(c, tx[p], BuiltChunkSize)
        = IF c = n - 1 THEN size % BuiltChunkSize ELSE BuiltChunkSize
  BY <1>5 DEF ChunkLength
<1>10. written = AllBut(name, size, missing)
  <2>1. written = FileWrite(AllBut(name, size, rx[e].chunkStatus), c * BuiltChunkSize,
                            [name |-> name, from |-> c * BuiltChunkSize,
                             length |-> IF c = n - 1 THEN size % BuiltChunkSize
                                        ELSE BuiltChunkSize])
    BY <1>3, <1>5, <1>6, <1>9
  <2> HIDE DEF c, size, name, written
  <2> QED
    BY <1>5, <1>6, <1>7, <1>8, <2>1, ChunkFillsItsPlace
<1>11. rx[e] \in Progress /\ storage[e] \in Storage
  BY DEF TypeOK
<1>12. PICK b \in BOOLEAN : b = ~ready
  BY DEF DirtyFound
<1>13. /\ SameFile(after, rx[e]) /\ after.chunkStatus = missing
       /\ SameFile(rx'[e], rx[e]) /\ rx'[e].running = b
       /\ rx'[e].chunkStatus = missing
  <2>1. rx'[e] = [after EXCEPT !.running = b]
    BY <1>1, <1>12 DEF TypeOK
  <2>2. c < rx[e].numberOfChunksNeeded
    BY <1>5, <1>6
  <2> HIDE DEF c, ready
  <2>3. rx'[e] = Marked(rx[e], c, b)
    BY <2>1 DEF Marked
  <2>4. /\ IsMarked(Marked(rx[e], c, b), rx[e], c) /\ Marked(rx[e], c, b).running = b
        /\ IsMarked(ProgressSetChunkDone(rx[e], c), rx[e], c)
    BY <1>7, <1>11, <2>2, ChunkMarked
  <2> QED
    BY <2>3, <2>4 DEF IsMarked
<1>14. ready <=> missing = {}
  <2>1. after.numberOfChunksNeeded = n /\ n \in 1 .. 8
    BY <1>5, <1>13, ChunksOfDeliverable DEF SameFile
  <2>2. after.chunkStatus \subseteq 0 .. after.numberOfChunksNeeded - 1
    BY <1>3, <1>5, <1>13, <2>1
  <2> HIDE DEF after
  <2> QED
    BY <1>13, <2>1, <2>2, SmallSearch
<1>15. storage'[e].written = written
  BY <1>1, <1>11 DEF TypeOK, Storage
<1>16. CASE ready
  <2>1. written = WholeFile(name, size)
    BY <1>10, <1>14, <1>16, NothingMissing
  <2>2. received'[e] = received[e] \cup {r}
    BY <1>1, <1>16 DEF TypeOK
  <2>3. r.name = name /\ r.intact
    <3>1. r.intact = (written = WholeFile(name, size)) /\ r.name = name
      BY Zenon
    <3> QED
      BY <2>1, <3>1, Zenon
  <2> HIDE DEF written, ready, missing, name, size, r
  <2> QED
    BY <1>10, <1>12, <1>13, <1>14, <1>15, <1>16, <2>2, <2>3 DEF ChunkFills, name, size, missing
<1>17. CASE ~ready
  <2>1. received' = received
    BY <1>1, <1>17
  <2> HIDE DEF written, ready, missing, name, size
  <2> QED
    BY <1>10, <1>12, <1>13, <1>14, <1>15, <1>17, <2>1 DEF ChunkFills, name, size, missing
<1> QED
  BY <1>16, <1>17

(* At first all of a file is missing. *)
LEMMA AllMissing ==
  ASSUME NEW size \in Nat \ {0}, Deliverable(size), NEW name
  PROVE  AllBut(name, size, 0 .. DivisionRoundedUp(size, BuiltChunkSize) - 1) = {}
<1> DEFINE s == BuiltChunkSize
           n == DivisionRoundedUp(size, s)
           r == size % s
<1>1. s \in Nat \ {0}
  BY BuiltTyped
<1>2. n \in 1 .. 8 /\ r \in 1 .. s - 1 /\ size = (n - 1) * s + r
  BY ChunksOfDeliverable
<1> HIDE DEF s, n, r
<1>3. ASSUME NEW o \in 0 .. size - 1 PROVE \E c \in 0 .. n - 1 : InChunk(o, c)
  <2> DEFINE c == o \div s
  <2>1. c \in Nat /\ s * c <= o /\ o < s * c + s
    <3>1. o \in Nat
      OBVIOUS
    <3> QED
      BY <1>1, <3>1
  <2> HIDE DEF c
  <2>2. s * c = c * s /\ c * s \in Nat
    BY <1>1, <2>1
  <2>3. s * n \in Nat /\ (n - 1) * s = s * n - s
    BY <1>1, <1>2
  <2>4. o \in Nat /\ o < size
    OBVIOUS
  <2>5. s * c < s * n
    BY <1>1, <1>2, <2>1, <2>2, <2>3, <2>4
  <2>6. c < n
    BY <1>1, <1>2, <2>1, <2>5, FactorsCompare
  <2>7. InChunk(o, c)
    BY <2>1, <2>2 DEF InChunk, s
  <2> QED
    BY <1>2, <2>1, <2>6, <2>7
<1>4. Places(size, 0 .. n - 1) = {}
  BY <1>3 DEF Places
<1> QED
  BY <1>4 DEF AllBut, n, s

LEMMA SizeStarted ==
  ASSUME NEW size, NEW params
  PROVE  ProgressInitialize(size, params).fileSize = size
<1> DEFINE n == DivisionRoundedUp(size, params.chunkSize) % 256
           s == 0 .. n - 1
<1>1. ProgressInitialize(size, params) =
        [NoProgress EXCEPT !.running              = TRUE,
                           !.fileSize             = size,
                           !.chunkStatus          = s,
                           !.numberOfChunksNeeded = n]
  BY DEF ProgressInitialize
<1> HIDE DEF s, n
<1> QED
  BY <1>1 DEF NoProgress

(* A file of this life whose reception starts is the one that is being sent. *)
LEMMA StartTaken ==
  ASSUME BuiltAlike, EveryFileDeliverable, TypeOK, TurnInv, NEW e \in Role, StartReception(e)
  PROVE  LET f == Head(link[e])
         IN /\ link[e] # <<>> /\ IsStart(f)
            /\ rx'[e].running /\ rx'[e].fileName = f.payload.name
            /\ received' = received
            /\ IsReceiving(e)' =>
                 /\ tx[Peer(e)].running /\ SameFile(rx'[e], tx[Peer(e)])
                 /\ rx'[e].chunkStatus # {}
                 /\ rx'[e].chunkStatus \subseteq 0 .. rx'[e].numberOfChunksNeeded - 1
                 /\ storage'[e].written
                      = AllBut(rx'[e].fileName, rx'[e].fileSize, rx'[e].chunkStatus)
<1> DEFINE f     == Head(link[e])
           p     == Peer(e)
           size  == f.payload.size
           name  == f.payload.name
           id    == f.sndFileId
           fresh == IF ProgressInitializable(size, parameters[e])
                    THEN ProgressInitialize(size, parameters[e])
                    ELSE rx[e]
           q     == [fresh EXCEPT !.running = TRUE, !.fileId = id, !.fileName = name]
           n     == DivisionRoundedUp(size, BuiltChunkSize)
<1>1. /\ link[e] # <<>> /\ IsStart(f) /\ rx' = [rx EXCEPT ![e] = q]
      /\ storage' = [storage EXCEPT ![e] = [openedAs |-> rx[e].fileName, written |-> {}]]
      /\ received' = received
  BY DEF StartReception, ReadsFileStart, Reads, IsStart
<1>2. size \in Nat /\ name \in Nat /\ id \in UInt8
  <2>1. f \in Frame
    BY <1>1, LineRead DEF TypeOK
  <2> QED
    BY <1>1, <2>1, FrameFields DEF IsStart, FileInfo
<1>3. rx[e] \in Progress /\ parameters[e] \in Parameters
  BY DEF TypeOK
<1>4. fresh \in Progress
  BY <1>2, <1>3, ProgressInitializeTyped
<1>5. storage'[e].written = {}
  BY <1>1 DEF TypeOK
<1>6. rx'[e] = q
  BY <1>1 DEF TypeOK
<1>7. /\ q.running = TRUE /\ q.fileName = name /\ q.fileId = id
      /\ q.fileSize = fresh.fileSize /\ q.chunkStatus = fresh.chunkStatus
      /\ q.numberOfChunksNeeded = fresh.numberOfChunksNeeded
  <2> HIDE DEF fresh, name, id
  <2> QED
    BY <1>4 DEF Progress
<1>8. ASSUME name <= MaxFiles
      PROVE  /\ tx[p].running /\ SameFile(q, tx[p])
             /\ q.chunkStatus # {}
             /\ q.chunkStatus \subseteq 0 .. q.numberOfChunksNeeded - 1
             /\ {} = AllBut(q.fileName, q.fileSize, q.chunkStatus)
  <2>1. /\ tx[p].running /\ tx[p].fileName = name /\ tx[p].fileId = id
        /\ tx[p].fileSize = size
    BY <1>1, <1>8 DEF TurnInv, LinesAreTrue, FrameIsTrue
  <2>2. /\ size \in FileSizes /\ size \in 1 .. BuiltMaxFileSize
        /\ tx[p].numberOfChunksNeeded = n
    BY <2>1, PeerTyped DEF TurnInv, SenderStands
  <2>3. parameters[e].chunkSize = BuiltChunkSize /\ parameters[e].maxFileSize = BuiltMaxFileSize
    BY DEF TurnInv, SizesStand
  <2>4. /\ fresh = ProgressInitialize(size, parameters[e])
        /\ n \in 1 .. 255
        /\ fresh.numberOfChunksNeeded = n /\ fresh.chunkStatus = 0 .. n - 1
    BY <1>2, <1>3, <2>2, <2>3, FileThatFits
  <2>5. fresh.fileSize = size
    BY <2>4, SizeStarted
  <2>6. size \in Nat \ {0} /\ Deliverable(size)
    <3>1. \A x \in 1 .. BuiltMaxFileSize : x \in Nat \ {0}
      OBVIOUS
    <3> QED
      BY <2>2, <3>1 DEF EveryFileDeliverable
  <2>7. AllBut(name, size, 0 .. n - 1) = {}
    <3> HIDE DEF size, name
    <3> QED
      BY <2>6, AllMissing
  <2>8. 0 .. n - 1 # {}
    <3> HIDE DEF n
    <3>1. 0 \in 0 .. n - 1
      BY <2>4
    <3> QED
      BY <3>1
  <2>9. SameFile(q, tx[p])
    <3> HIDE DEF q, fresh, n, size, name, id
    <3> QED
      BY <1>7, <2>1, <2>2, <2>4, <2>5 DEF SameFile
  <2>10. q.chunkStatus = 0 .. n - 1 /\ q.numberOfChunksNeeded = n
    <3> HIDE DEF q, fresh, n, size, name, id
    <3> QED
      BY <1>7, <2>4
  <2>11. q.fileName = name /\ q.fileSize = size
    <3> HIDE DEF q, fresh, n, size, name, id
    <3> QED
      BY <1>7, <2>5
  <2> HIDE DEF q, fresh, n, size, name, id
  <2> QED
    BY <2>1, <2>7, <2>8, <2>9, <2>10, <2>11
<1> HIDE DEF q, fresh, n, size, id
<1> QED
  BY <1>1, <1>5, <1>6, <1>7, <1>8 DEF IsReceiving, name, f, p

(* A chunk of a file of another life. *)
LEMMA OtherChunkTaken ==
  ASSUME TypeOK, NEW e \in Role, ChunkWritten(e, Head(link[e])), ~IsReceiving(e)
  PROVE  /\ ~IsReceiving(e)'
         /\ \E r : /\ ~(r.name <= MaxFiles) /\ r.name = rx[e].fileName
                  /\ received'[e] \subseteq received[e] \cup {r}
<1> DEFINE f       == Head(link[e])
           c       == f.sndChunkNo
           written == FileWrite(storage[e].written, c * parameters[e].chunkSize, f.payload)
           after   == ProgressSetChunkDone(rx[e], c)
           ready   == ~DirtyFound(after)
           name    == rx[e].fileName
           whole   == written = WholeFile(name, rx[e].fileSize)
           r       == [name |-> name, storedAs |-> storage[e].openedAs, intact |-> whole]
<1>1. /\ rx' = [rx EXCEPT ![e] = [after EXCEPT !.running = ~ready]]
      /\ received' = IF ready THEN [received EXCEPT ![e] = @ \cup {r}] ELSE received
      /\ rx[e].running
  BY DEF ChunkWritten, IsForCurrentFile
<1>2. ~(name <= MaxFiles)
  BY <1>1 DEF IsReceiving
<1>3. rx[e] \in Progress
  BY DEF TypeOK
<1>4. rx'[e].fileName = name
  <2>1. after.fileName = name /\ DOMAIN after = DOMAIN rx[e] /\ "fileName" \in DOMAIN rx[e]
    BY <1>3 DEF ProgressSetChunkDone, Progress
  <2> HIDE DEF after, ready, name
  <2> QED
    BY <1>1, <2>1 DEF TypeOK
<1>5. received'[e] \subseteq received[e] \cup {r}
  <2> HIDE DEF r, ready
  <2> QED
    BY <1>1 DEF TypeOK
<1>6. r.name = name
  BY Zenon
<1> HIDE DEF r
<1> QED
  BY <1>2, <1>4, <1>5, <1>6 DEF IsReceiving

(* While a chunk is missing the feedback says so. *)
LEMMA FeedbackWhileMissing ==
  ASSUME EveryFileDeliverable, TypeOK, TurnInv, NEW e \in Role, IsReceiving(e)
  PROVE  GetFeedback(rx[e]) # FEEDBACK_FILE_IS_READY
<1> DEFINE p == Peer(e)
           n == rx[e].numberOfChunksNeeded
<1>1. /\ p \in Role /\ tx[p].running /\ SameFile(rx[e], tx[p])
      /\ rx[e].chunkStatus # {} /\ rx[e].chunkStatus \subseteq 0 .. n - 1
  BY PeerTyped DEF TurnInv, ReceiverKeepsUp
<1>2. n \in 1 .. 8
  <2>1. /\ tx[p].fileSize \in FileSizes /\ tx[p].fileSize \in 1 .. BuiltMaxFileSize
        /\ n = DivisionRoundedUp(tx[p].fileSize, BuiltChunkSize)
    BY <1>1 DEF TurnInv, SenderStands, SameFile
  <2>2. tx[p].fileSize \in Nat \ {0} /\ Deliverable(tx[p].fileSize)
    <3>1. \A x \in 1 .. BuiltMaxFileSize : x \in Nat \ {0}
      OBVIOUS
    <3> QED
      BY <2>1, <3>1 DEF EveryFileDeliverable
  <2> QED
    BY <2>1, <2>2, ChunksOfDeliverable
<1>3. rx[e].running
  BY DEF IsReceiving
<1>4. DirtyFound(rx[e])
  BY <1>1, <1>2, SmallSearch
<1>5. rx[e].chunkStatus \in SUBSET UInt8
  <2>1. rx[e] \in Progress
    BY DEF TypeOK
  <2> QED
    BY <2>1 DEF Progress
<1>6. PICK d \in rx[e].chunkStatus : \A c \in rx[e].chunkStatus : d <= c
  BY <1>1, <1>5, LeastByte
<1>7. FirstDirty(rx[e]) \in rx[e].chunkStatus
  BY <1>6 DEF FirstDirty
<1>8. FirstDirty(rx[e]) \in 0 .. n - 1
  BY <1>1, <1>7
<1> QED
  BY <1>2, <1>3, <1>4, <1>8 DEF GetFeedback, FEEDBACK_FILE_IS_READY

(* What a step that speaks changes. *)
LEMMA SayingChanges ==
  ASSUME TypeOK, NEW e \in Role, HandleOutgoing(e)
  PROVE  /\ rx' = rx /\ storage' = storage /\ received' = received
         /\ \A x \in Role : x # e => tx'[x] = tx[x] /\ opened'[x] = opened[x]
         /\ \/ /\ SameFile(tx'[e], tx[e]) /\ tx'[e].running = tx[e].running
               /\ opened' = opened
            \/ SendFileInfo(e)
<1>1. /\ rx' = rx /\ storage' = storage /\ received' = received
      /\ opened' = opened \/ SendFileInfo(e)
      /\ tx' = tx \/ SendFileInfo(e) \/ SendChunk(e)
  BY DEF HandleOutgoing, SendSyncProposal, SendSyncResponse, SendSyncAck,
     LeaveOutOfSync, AwaitHandshake, SendWTF, SendChunk, SendNoChunk, SendFileInfo,
     RefuseFile, SendEmptyData, transfer, files
<1>2. \A x \in Role : x # e => tx'[x] = tx[x] /\ opened'[x] = opened[x]
  BY <1>1 DEF SendFileInfo, SendChunk, TypeOK
<1>3. CASE SendChunk(e)
  <2>1. tx'[e] = ChunkSent(tx[e]) /\ opened' = opened
    BY <1>3 DEF SendChunk, TypeOK, files
  <2>2. tx[e] \in Progress
    BY DEF TypeOK
  <2>3. SameFile(tx'[e], tx[e]) /\ tx'[e].running = tx[e].running
    BY <2>1, <2>2 DEF ChunkSent, Progress, SameFile
  <2> QED
    BY <1>1, <1>2, <2>1, <2>3
<1>4. CASE tx' = tx /\ opened' = opened
  BY <1>1, <1>2, <1>4 DEF SameFile
<1> QED
  BY <1>1, <1>2, <1>3, <1>4

(* The record of a file that has just been started. *)
IsStarted(e, p, size) ==
  /\ p.running /\ p.fileName = opened[e] + 1 /\ p.fileId = NextOutgoingFileId(e)
  /\ p.fileSize = size /\ p.numberOfChunksNeeded = DivisionRoundedUp(size, BuiltChunkSize)

LEMMA FileStarted ==
  ASSUME BuiltAlike, TypeOK, SizesStand, NEW e \in Role, SendFileInfo(e)
  PROVE  LET size == NextFileSize(e)
         IN /\ ~tx[e].running
            /\ opened[e] \in Nat /\ opened[e] < Len(offered[e])
            /\ opened'[e] = opened[e] + 1
            /\ size \in FileSizes /\ size \in 1 .. BuiltMaxFileSize
            /\ IsStarted(e, tx'[e], size)
<1> DEFINE size  == NextFileSize(e)
           id    == NextOutgoingFileId(e)
           name  == opened[e] + 1
           fresh == ProgressInitialize(size, parameters[e])
           p     == [fresh EXCEPT !.fileId = id, !.fileName = name]
<1>1. /\ ~tx[e].running /\ FileAvailable(e) /\ opened[e] < Len(offered[e])
      /\ ProgressInitializable(size, parameters[e])
      /\ tx' = [tx EXCEPT ![e] = p]
      /\ opened' = [opened EXCEPT ![e] = name]
  BY DEF SendFileInfo, MayStartFile, FileAvailable
<1>2. opened[e] \in Nat /\ name \in Nat /\ id \in UInt8 /\ size \in Nat
  BY <1>1, FileInfoTyped DEF TypeOK
<1>3. size \in FileSizes
  <2>1. offered[e] \in Seq(FileSizes)
    BY DEF TypeOK
  <2> QED
    BY <1>1, <1>2, <2>1, ElementOfSeq, LenProperties DEF NextFileSize
<1>4. /\ parameters[e] \in Parameters
      /\ parameters[e].chunkSize = BuiltChunkSize
      /\ parameters[e].maxFileSize = BuiltMaxFileSize
  BY DEF TypeOK, SizesStand
<1>5. /\ size \in 1 .. BuiltMaxFileSize
      /\ fresh.numberOfChunksNeeded = DivisionRoundedUp(size, BuiltChunkSize)
      /\ fresh.running = TRUE /\ fresh.fileSize = size /\ fresh \in Progress
  BY <1>1, <1>2, <1>4, FileThatFits, SizeStarted, ProgressInitializeTyped
<1> HIDE DEF size, id, fresh
<1>6. IsStarted(e, p, size)
  <2> HIDE DEF name
  <2>1. /\ p.running /\ p.fileName = name /\ p.fileId = id /\ p.fileSize = size
        /\ p.numberOfChunksNeeded = fresh.numberOfChunksNeeded
    BY <1>5 DEF Progress
  <2> QED
    BY <1>5, <2>1 DEF IsStarted, name, id
<1> HIDE DEF p
<1>7. tx'[e] = p /\ opened'[e] = name
  BY <1>1 DEF TypeOK
<1> QED
  BY <1>1, <1>2, <1>3, <1>5, <1>6, <1>7 DEF size

(* What is said is true when it is said. *)
LEMMA SaidTruly ==
  ASSUME BuiltAlike, LockStep, EveryFileDeliverable, TypeOK, TurnInv,
         NEW e \in Role, HandleOutgoing(e)
  PROVE  LinesAreTrue'
<1> DEFINE x == Peer(e)
<1>1. /\ x \in Role /\ Peer(x) = e /\ \A y \in Role : y = e \/ y = x
      /\ \A y \in Role : link[y] = <<>>
      /\ link'[e] = <<>>
  BY PeerTyped, SayingInTurn DEF TurnInv, Role, Peer
<1>2. rx' = rx
  BY SayingChanges
<1>3. ASSUME NEW f \in Frame, Sends(e, f), FrameIsTrue(x, f)'
      PROVE  LinesAreTrue'
  <2>1. link'[x] = Append(<<>>, f)
    BY <1>1, <1>3 DEF Sends, TypeOK
  <2>2. Head(link'[x]) = f
    BY <2>1, OneFrame
  <2> QED
    BY <1>1, <1>3, <2>2 DEF LinesAreTrue
<1>4. ASSUME link' = link
      PROVE  LinesAreTrue'
  BY <1>1, <1>4 DEF LinesAreTrue
<1>5. CASE SendSyncProposal(e)
  <2>1. [code |-> "SYNC_PROPOSAL", payload |-> parameters[e]] \in Frame
    BY DEF Frame, TypeOK
  <2>2. PICK f \in Frame : f = [code |-> "SYNC_PROPOSAL", payload |-> parameters[e]]
    BY <2>1
  <2>3. FrameIsTrue(x, f)'
    BY <2>2 DEF FrameIsTrue, IsData, IsStart, TurnInv, SizesStand
  <2> QED
    BY <1>3, <1>5, <2>2, <2>3 DEF SendSyncProposal
<1>6. CASE SendSyncResponse(e)
  <2>1. [code |-> "SYNC_RESPONSE", payload |-> parameters[e]] \in Frame
    BY DEF Frame, TypeOK
  <2>2. PICK f \in Frame : f = [code |-> "SYNC_RESPONSE", payload |-> parameters[e]]
    BY <2>1
  <2>3. FrameIsTrue(x, f)'
    BY <2>2 DEF FrameIsTrue, IsData, IsStart
  <2> QED
    BY <1>3, <1>6, <2>2, <2>3 DEF SendSyncResponse
<1>7. ASSUME NEW code \in {"SYNC_ACK", "OUT_OF_SYNC", "WRITE_TERMINATED_FORCEFULLY"},
             Sends(e, [code |-> code])
      PROVE  LinesAreTrue'
  <2>1. [code |-> code] \in Frame
    BY <1>7 DEF Frame
  <2>2. FrameIsTrue(x, [code |-> code])'
    BY <1>7 DEF FrameIsTrue, IsData, IsStart
  <2> QED
    BY <1>3, <1>7, <2>1, <2>2
<1>8. CASE SendSyncAck(e) \/ SendWTF(e)
  BY <1>7, <1>8 DEF SendSyncAck, SendWTF
<1>9. CASE LeaveOutOfSync(e)
  BY <1>4, <1>7, <1>9 DEF LeaveOutOfSync
<1>10. CASE AwaitHandshake(e) \/ SendNoChunk(e) \/ RefuseFile(e)
  BY <1>4, <1>10 DEF AwaitHandshake, SendNoChunk, RefuseFile
<1>11. IsReceiving(x) => tx[e].running
  BY <1>1 DEF TurnInv, ReceiverKeepsUp
<1>12. ASSUME NEW chunk \in {NoChunk, CurrentChunk(e)}, Sends(e, DataFrame(e, chunk)),
              IsReceiving(x)' =>
                /\ tx[e].chunkNo < tx'[e].numberOfChunksNeeded
                /\ chunk = [name   |-> tx'[e].fileName,
                            from   |-> tx[e].chunkNo * BuiltChunkSize,
                            length |-> ChunkLength(tx[e].chunkNo, tx'[e], BuiltChunkSize)]
       PROVE  LinesAreTrue'
  <2>1. DataFrame(e, chunk) \in Frame
    BY <1>12, ChunkTyped, DataFrameTyped
  <2>2. PICK f \in Frame : f = DataFrame(e, chunk)
    BY <2>1
  <2>3. /\ f.code = "DATA_TRANSFER" /\ f.sndChunkNo = tx[e].chunkNo
        /\ f.payload = chunk /\ f.recFeedback = GetFeedback(rx[e])
    BY <2>2 DEF DataFrame
  <2>4. IsReceiving(e)' => f.recFeedback # FEEDBACK_FILE_IS_READY
    BY <1>2, <2>3, FeedbackWhileMissing DEF IsReceiving
  <2>5. FrameIsTrue(x, f)'
    BY <1>1, <1>12, <2>3, <2>4 DEF FrameIsTrue, IsData, IsStart
  <2> QED
    BY <1>3, <1>12, <2>2, <2>5
<1>13. CASE SendEmptyData(e)
  <2>1. ~IsReceiving(x)'
    BY <1>2, <1>11, <1>13 DEF SendEmptyData, MayStartFile, IsReceiving
  <2> QED
    BY <1>12, <1>13, <2>1 DEF SendEmptyData
<1>14. CASE SendChunk(e)
  <2> DEFINE c      == tx[e].chunkNo
             length == ChunkLength(c, tx[e], BuiltChunkSize)
  <2>1. /\ Sends(e, DataFrame(e, CurrentChunk(e))) /\ tx[e].running
        /\ c < tx[e].numberOfChunksNeeded /\ tx' = [tx EXCEPT ![e] = ChunkSent(@)]
    BY <1>14 DEF SendChunk, MaySendChunk, ChunkReadable
  <2>2. parameters[e].chunkSize = BuiltChunkSize
    BY DEF TurnInv, SizesStand
  <2>3. length # 0
    <3>1. /\ tx[e].fileSize \in FileSizes /\ tx[e].fileSize \in 1 .. BuiltMaxFileSize
      BY <2>1 DEF TurnInv, SenderStands
    <3>2. (tx[e].fileSize % BuiltChunkSize) # 0
      BY <3>1 DEF EveryFileDeliverable, Deliverable
    <3>3. BuiltChunkSize # 0
      BY BuiltTyped
    <3> QED
      BY <3>2, <3>3 DEF ChunkLength
  <2>4. CurrentChunk(e) = [name |-> tx[e].fileName, from |-> c * BuiltChunkSize,
                           length |-> length]
    BY <2>2, <2>3 DEF CurrentChunk
  <2>5. SameFile(tx'[e], tx[e])
    <3>1. tx[e] \in Progress /\ tx'[e] = ChunkSent(tx[e])
      BY <2>1 DEF TypeOK
    <3> QED
      BY <3>1 DEF ChunkSent, Progress, SameFile
  <2>6. ChunkLength(c, tx'[e], BuiltChunkSize) = length
    BY <2>5 DEF SameFile, ChunkLength
  <2> HIDE DEF length
  <2>7. CurrentChunk(e) = [name |-> tx'[e].fileName, from |-> c * BuiltChunkSize,
                           length |-> ChunkLength(c, tx'[e], BuiltChunkSize)]
    BY <2>4, <2>5, <2>6 DEF SameFile
  <2>8. c < tx'[e].numberOfChunksNeeded
    BY <2>1, <2>5 DEF SameFile
  <2> QED
    BY <1>12, <2>1, <2>7, <2>8
<1>15. CASE SendFileInfo(e)
  <2> DEFINE id   == NextOutgoingFileId(e)
             size == NextFileSize(e)
             name == opened[e] + 1
             info == [code |-> "NEW_FILE_START", sndFileId |-> id,
                      payload |-> [name |-> name, size |-> size]]
  <2>1. Sends(e, info) /\ FileAvailable(e)
    BY <1>15 DEF SendFileInfo
  <2>2. PICK f \in Frame : f = info
    BY <2>1, FileInfoTyped
  <2>3. IsStarted(e, tx'[e], size)
    BY <1>15, FileStarted DEF TurnInv
  <2>4. /\ tx'[e].running /\ tx'[e].fileName = name /\ tx'[e].fileId = id
        /\ tx'[e].fileSize = size
    BY <2>3 DEF IsStarted
  <2>5. /\ f.code = "NEW_FILE_START" /\ f.sndFileId = id
        /\ f.payload.name = name /\ f.payload.size = size
    BY <2>2
  <2>6. FrameIsTrue(x, f)'
    <3> HIDE DEF id, size, name
    <3> QED
      BY <1>1, <2>4, <2>5 DEF FrameIsTrue, IsData, IsStart
  <2> QED
    BY <1>3, <2>1, <2>2, <2>6
<1> QED
  BY <1>5, <1>6, <1>8, <1>9, <1>10, <1>13, <1>14, <1>15 DEF HandleOutgoing

(* A sender that goes on with its file, or has ended it, still stands. *)
LEMMA SenderStillStands ==
  ASSUME NEW e \in Role, SenderStands(e), SameFile(tx'[e], tx[e]),
         tx'[e].running => tx[e].running, opened'[e] = opened[e], offered' = offered
  PROVE  SenderStands(e)'
BY DEF SenderStands, SameFile

(* A receiver keeps up with a sender that goes on. *)
LEMMA ReceiverStillKeepsUp ==
  ASSUME NEW e \in Role, ReceiverKeepsUp(e), rx'[e] = rx[e], storage'[e] = storage[e],
         IsReceiving(e) => /\ SameFile(tx'[Peer(e)], tx[Peer(e)])
                           /\ tx'[Peer(e)].running = tx[Peer(e)].running
  PROVE  ReceiverKeepsUp(e)'
BY DEF ReceiverKeepsUp, SameFile, IsReceiving

LEMMA ReadingKeepsTurns ==
  ASSUME BuiltAlike, LockStep, EveryFileDeliverable, TypeOK, TurnInv,
         NEW e \in Role, HandleIncoming(e), TakeTurns', SizesStand'
  PROVE  TurnInv'
<1> DEFINE f == Head(link[e])
           p == Peer(e)
<1>1. /\ p \in Role /\ p # e /\ Peer(p) = e /\ \A x \in Role : x = e \/ x = p
  BY PeerTyped DEF Role, Peer
<1>2. /\ \A x \in Role : link'[x] = <<>>
      /\ opened' = opened /\ offered' = offered
  BY ReadingInTurn DEF TurnInv
<1>3. LinesAreTrue'
  BY <1>2 DEF LinesAreTrue
<1>4. /\ tx'[p] = tx[p] /\ rx'[p] = rx[p]
      /\ storage'[p] = storage[p] /\ received'[p] = received[p]
  BY <1>1, ReadingChanges
<1>5. \/ tx'[e] = tx[e]
      \/ /\ link[e] # <<>> /\ IsData(f) /\ SameFile(tx'[e], tx[e])
         /\ \/ tx'[e].running = tx[e].running
            \/ f.recFeedback = FEEDBACK_FILE_IS_READY /\ ~tx'[e].running
  BY ReadingChanges
<1>6. SenderStands(e)'
  BY <1>2, <1>5, SenderStillStands DEF TurnInv, SameFile
<1>7. SenderStands(p)'
  BY <1>1, <1>2, <1>4, SenderStillStands DEF TurnInv, SameFile
<1>8. ReceiverKeepsUp(p)'
  <2>1. ASSUME IsReceiving(p)
        PROVE  SameFile(tx'[e], tx[e]) /\ tx'[e].running = tx[e].running
    <3>1. link[e] # <<>> /\ IsData(f) => f.recFeedback # FEEDBACK_FILE_IS_READY
      BY <2>1 DEF TurnInv, LinesAreTrue, FrameIsTrue
    <3> QED
      BY <1>5, <3>1 DEF SameFile
  <2> QED
    BY <1>1, <1>4, <2>1, ReceiverStillKeepsUp DEF TurnInv
<1>9. ReceivedIsIntact(p)'
  BY <1>1, <1>4 DEF TurnInv, ReceivedIsIntact
<1>10. ReceiverKeepsUp(e)' /\ ReceivedIsIntact(e)'
  <2>1. CASE rx'[e] = rx[e] /\ storage'[e] = storage[e] /\ received'[e] = received[e]
    <3>1. ReceiverKeepsUp(e)'
      BY <1>4, <2>1, ReceiverStillKeepsUp DEF TurnInv, SameFile
    <3> QED
      BY <2>1, <3>1 DEF TurnInv, ReceivedIsIntact
  <2>2. CASE StartReception(e)
    BY <1>4, <2>2, StartTaken DEF TurnInv, ReceivedIsIntact, ReceiverKeepsUp
  <2>3. CASE HandleDataMessage(e) /\ ChunkWritten(e, f) /\ IsReceiving(e)
    <3>1. ChunkFills(e)
      BY <2>3, ChunkTaken
    <3>2. ReceiverKeepsUp(e)'
      <4>1. /\ tx[p].running /\ SameFile(rx[e], tx[p])
            /\ rx[e].chunkStatus \subseteq 0 .. rx[e].numberOfChunksNeeded - 1
        BY <2>3 DEF TurnInv, ReceiverKeepsUp
      <4>2. SameFile(rx'[e], tx'[p]) /\ tx'[p].running
        BY <1>4, <3>1, <4>1 DEF ChunkFills, SameFile
      <4>3. /\ rx'[e].numberOfChunksNeeded = rx[e].numberOfChunksNeeded
            /\ rx'[e].fileName = rx[e].fileName /\ rx'[e].fileSize = rx[e].fileSize
        BY <3>1 DEF ChunkFills, SameFile
      <4> QED
        BY <3>1, <4>1, <4>2, <4>3 DEF ChunkFills, ReceiverKeepsUp, IsReceiving
    <3>3. ReceivedIsIntact(e)'
      BY <3>1 DEF ChunkFills, TurnInv, ReceivedIsIntact
    <3> QED
      BY <3>2, <3>3
  <2>4. CASE HandleDataMessage(e) /\ ChunkWritten(e, f) /\ ~IsReceiving(e)
    <3>1. /\ ~IsReceiving(e)'
          /\ \E r : /\ ~(r.name <= MaxFiles) /\ r.name = rx[e].fileName
                    /\ received'[e] \subseteq received[e] \cup {r}
      BY <2>4, OtherChunkTaken
    <3>2. ReceivedIsIntact(e)'
      BY <3>1 DEF TurnInv, ReceivedIsIntact
    <3> QED
      BY <3>1, <3>2 DEF ReceiverKeepsUp
  <2> QED
    BY <2>1, <2>2, <2>3, <2>4, ReadingChanges
<1> QED
  BY <1>1, <1>3, <1>6, <1>7, <1>8, <1>9, <1>10 DEF TurnInv

LEMMA SayingKeepsTurns ==
  ASSUME BuiltAlike, LockStep, EveryFileDeliverable, TypeOK, TurnInv,
         NEW e \in Role, HandleOutgoing(e), TakeTurns', SizesStand'
  PROVE  TurnInv'
<1> DEFINE p == Peer(e)
<1>1. /\ p \in Role /\ p # e /\ Peer(p) = e /\ \A x \in Role : x = e \/ x = p
  BY PeerTyped DEF Role, Peer
<1>2. /\ rx' = rx /\ storage' = storage /\ received' = received
      /\ tx'[p] = tx[p] /\ opened'[p] = opened[p] /\ offered' = offered
  BY <1>1, SayingChanges, SayingInTurn DEF TurnInv
<1>3. LinesAreTrue'
  BY SaidTruly
<1>4. SenderStands(p)' /\ ReceiverKeepsUp(e)'
  BY <1>1, <1>2, SenderStillStands, ReceiverStillKeepsUp DEF TurnInv, SameFile
<1>5. \A x \in Role : ReceivedIsIntact(x)'
  BY <1>2 DEF TurnInv, ReceivedIsIntact
<1>6. SenderStands(e)' /\ ReceiverKeepsUp(p)'
  <2>1. CASE /\ SameFile(tx'[e], tx[e]) /\ tx'[e].running = tx[e].running
             /\ opened' = opened
    <3>1. SenderStands(e)'
      BY <1>2, <2>1, SenderStillStands DEF TurnInv
    <3>2. ReceiverKeepsUp(p)'
      BY <1>1, <1>2, <2>1, ReceiverStillKeepsUp DEF TurnInv
    <3> QED
      BY <3>1, <3>2
  <2>2. CASE SendFileInfo(e)
    <3> DEFINE size == NextFileSize(e)
               m    == Len(offered[e])
    <3>1. /\ ~tx[e].running
          /\ opened[e] \in Nat /\ opened[e] < m /\ opened'[e] = opened[e] + 1
          /\ size \in FileSizes /\ size \in 1 .. BuiltMaxFileSize
          /\ IsStarted(e, tx'[e], size)
      BY <2>2, FileStarted DEF TurnInv
    <3>2. m \in Nat /\ m <= MaxFiles /\ Len(offered'[e]) = m
      BY <1>2, LenProperties DEF TypeOK, TurnInv, SenderStands
    <3> HIDE DEF m, size
    <3>3. opened'[e] <= m /\ opened[e] + 1 \in 1 .. opened'[e]
      BY <3>1, <3>2
    <3>4. SenderStands(e)'
      BY <3>1, <3>2, <3>3 DEF SenderStands, IsStarted
    <3>5. ~IsReceiving(p)'
      BY <1>1, <1>2, <3>1 DEF TurnInv, ReceiverKeepsUp, IsReceiving
    <3> QED
      BY <3>4, <3>5 DEF ReceiverKeepsUp
  <2> QED
    BY <2>1, <2>2, SayingChanges
<1> QED
  BY <1>1, <1>3, <1>4, <1>5, <1>6 DEF TurnInv

(* One more file offered, within the bound. *)
LEMMA OfferingKeepsBound ==
  ASSUME TypeOK, NEW e \in Role, OfferFile(e)
  PROVE  \A x \in Role : opened[x] <= Len(offered[x]) /\ Len(offered[x]) <= MaxFiles =>
           opened[x] <= Len(offered'[x]) /\ Len(offered'[x]) <= MaxFiles
<1>1. PICK size \in FileSizes : offered' = [offered EXCEPT ![e] = Append(@, size)]
  BY DEF OfferFile
<1> DEFINE s == offered[e]
           t == Append(s, size)
<1>2. s \in Seq(FileSizes) /\ Len(s) \in Nat /\ Len(s) < MaxFiles /\ MaxFiles \in Nat
  BY LenProperties, ThermitAssumption DEF OfferFile, TypeOK
<1>3. Len(t) = Len(s) + 1
  BY <1>2, AppendProperties
<1>4. /\ offered'[e] = t
      /\ \A x \in Role : x # e => offered'[x] = offered[x]
  BY <1>1 DEF TypeOK
<1>5. opened[e] \in Nat
  BY DEF TypeOK
<1>6. Len(t) <= MaxFiles /\ (opened[e] <= Len(s) => opened[e] <= Len(t))
  BY <1>2, <1>3, <1>5
<1> HIDE DEF t
<1> QED
  BY <1>4, <1>6

LEMMA EnvironmentKeepsTurns ==
  ASSUME TypeOK, TurnInv, NEW e \in Role, OfferFile(e) \/ LoseFrame(e),
         TakeTurns', SizesStand'
  PROVE  TurnInv'
<1>1. /\ tx' = tx /\ rx' = rx /\ storage' = storage /\ received' = received
      /\ opened' = opened
  BY DEF OfferFile, LoseFrame, transfer, files
<1>2. \A x \in Role : ReceiverKeepsUp(x)' /\ ReceivedIsIntact(x)'
  BY <1>1 DEF TurnInv, ReceiverKeepsUp, IsReceiving, ReceivedIsIntact
<1>3. \A x \in Role : SenderStands(x)'
  <2>1. CASE OfferFile(e)
    <3>1. \A x \in Role : opened[x] <= Len(offered'[x]) /\ Len(offered'[x]) <= MaxFiles
      BY <2>1, OfferingKeepsBound DEF TurnInv, SenderStands
    <3> QED
      BY <1>1, <3>1 DEF TurnInv, SenderStands
  <2>2. CASE LoseFrame(e)
    BY <1>1, <2>2 DEF LoseFrame, TurnInv, SenderStands
  <2> QED
    BY <2>1, <2>2
<1>4. LinesAreTrue'
  <2>1. CASE OfferFile(e)
    BY <1>1, <2>1 DEF OfferFile, TurnInv, LinesAreTrue, FrameIsTrue, IsReceiving
  <2>2. CASE LoseFrame(e)
    <3>1. \A x \in Role : link'[x] = <<>>
      BY <2>2, LosingInTurn DEF TurnInv
    <3> QED
      BY <3>1 DEF LinesAreTrue
  <2> QED
    BY <2>1, <2>2
<1> QED
  BY <1>2, <1>3, <1>4 DEF TurnInv

LEMMA InitInTurn == BuiltAlike /\ Init => TurnInv
<1> SUFFICES ASSUME BuiltAlike, Init PROVE TurnInv
  OBVIOUS
<1>1. SizesStand
  BY DEF Init, BuiltAlike, SizesStand
<1>2. \A e \in Role : opened[e] = 0 /\ Len(offered[e]) = 0
  BY EmptySeq DEF Init
<1>3. \A e \in Role : link[e] = <<>> /\ ~tx[e].running /\ ~rx[e].running /\ received[e] = {}
  BY DEF Init, NoProgress
<1>4. TakeTurns
  BY <1>3, PeerTyped DEF Init, TakeTurns, Role
<1> QED
  BY <1>1, <1>2, <1>3, <1>4, ThermitAssumption
  DEF TurnInv, LinesAreTrue, SenderStands, ReceiverKeepsUp, IsReceiving, ReceivedIsIntact

LEMMA StepInTurn ==
  ASSUME BuiltAlike, LockStep, EveryFileDeliverable
  PROVE  TypeOK /\ TurnInv /\ [Next]_vars => TurnInv'
<1> SUFFICES ASSUME TypeOK, TurnInv, [Next]_vars PROVE TurnInv'
  OBVIOUS
<1>1. TakeTurns' /\ SizesStand'
  BY TurnsGoOn, SizesGoOnInTurn DEF TurnInv
<1>2. CASE UNCHANGED vars
  BY <1>1, <1>2 DEF vars, transfer, files, TurnInv, LinesAreTrue, FrameIsTrue,
     SenderStands, ReceiverKeepsUp, IsReceiving, ReceivedIsIntact
<1> QED
  BY <1>1, <1>2, ReadingKeepsTurns, SayingKeepsTurns, EnvironmentKeepsTurns DEF Next, Step

-----------------------------------------------------------------------------
(***************************************************************************)
(* The handshake of ends that take turns, when no acknowledgement is lost. *)
(* Either the ends are apart; or the master has its response, and just one *)
(* acknowledgement of each end is said and read; or both run, for good.    *)
(***************************************************************************)
OnlyTold(e, codes) == link[e] # <<>> => Head(link[e]).code \in codes

Apart ==
  /\ state["master"] \in {"SYNC_FIRST", "OUT_OF_SYNC"}
  /\ state["slave"] \in {"SYNC_FIRST", "SYNC_SECOND", "OUT_OF_SYNC"}
  /\ ackReceived["slave"] => state["slave"] = "OUT_OF_SYNC"
  /\ OnlyTold("slave", {"SYNC_PROPOSAL"})
  /\ OnlyTold("master", {"SYNC_RESPONSE", "OUT_OF_SYNC"})
  /\ link["master"] # <<>> /\ Head(link["master"]).code = "SYNC_RESPONSE"
       => state["slave"] = "SYNC_SECOND"

IsAcknowledged(e) == link[e] # <<>> /\ Head(link[e]).code = "SYNC_ACK"

Meeting ==
  /\ state["master"] = "SYNC_SECOND"
  /\ \/ /\ turn = "master" /\ phase["master"] = "out"
        /\ state["slave"] = "SYNC_SECOND" /\ ~ackReceived["slave"]
     \/ /\ turn = "slave" /\ phase["slave"] = "in"
        /\ state["slave"] = "SYNC_SECOND" /\ IsAcknowledged("slave")
     \/ /\ turn = "slave" /\ phase["slave"] = "out"
        /\ state["slave"] = "SYNC_SECOND" /\ ackReceived["slave"]
     \/ /\ turn = "master" /\ phase["master"] = "in"
        /\ state["slave"] = "RUNNING" /\ IsAcknowledged("master")

Together ==
  \A e \in Role : state[e] = "RUNNING" /\ OnlyTold(e, {"DATA_TRANSFER", "NEW_FILE_START"})

HandshakeInv == Apart \/ Meeting \/ Together

(* With nothing under way. *)
LEMMA QuietHandshake ==
  ASSUME \A x \in Role : link'[x] = <<>>
  PROVE  /\ Apart' <=> /\ state'["master"] \in {"SYNC_FIRST", "OUT_OF_SYNC"}
                       /\ state'["slave"] \in {"SYNC_FIRST", "SYNC_SECOND", "OUT_OF_SYNC"}
                       /\ ackReceived'["slave"] => state'["slave"] = "OUT_OF_SYNC"
         /\ Together' <=> state'["master"] = "RUNNING" /\ state'["slave"] = "RUNNING"
BY DEF Apart, Together, OnlyTold, Role

LEMMA ReadingKeepsHandshake ==
  ASSUME LockStep, TypeOK, TakeTurns, HandshakeInv, NEW e \in Role, HandleIncoming(e)
  PROVE  HandshakeInv'
<1>1. /\ turn = e /\ turn' = turn /\ phase[e] = "in"
      /\ phase' = [phase EXCEPT ![e] = "out"] /\ \A x \in Role : link'[x] = <<>>
  BY ReadingInTurn
<1>2. phase'[e] = "out" /\ turn' = e
  BY <1>1 DEF TypeOK
<1>3. e = "master" \/ e = "slave"
  BY DEF Role
<1>4. CASE ReadNothing(e)
  <2>1. state' = state /\ ackReceived' = ackReceived /\ link[e] = <<>>
    BY <1>4 DEF ReadNothing, session
  <2>2. ~Meeting
    BY <1>1, <1>3, <2>1 DEF Meeting, IsAcknowledged
  <2> QED
    BY <1>1, <2>1, <2>2, QuietHandshake DEF HandshakeInv, Apart, Together, Role
<1>5. CASE WaitForSyncProposal(e)
  <2>1. /\ state' = state /\ ackReceived' = ackReceived
        /\ e = "slave" /\ state[e] = "SYNC_FIRST"
    BY <1>5 DEF WaitForSyncProposal
  <2>2. Apart
    BY <1>1, <2>1 DEF HandshakeInv, Meeting, Together, Role
  <2> QED
    BY <1>1, <2>1, <2>2, QuietHandshake DEF HandshakeInv, Apart
<1>6. CASE WaitForSyncResponse(e)
  <2>1. /\ e = "master" /\ state[e] = "SYNC_FIRST" /\ link[e] # <<>>
        /\ Head(link[e]).code = "SYNC_RESPONSE"
        /\ state' = state \/ state' = [state EXCEPT ![e] = "SYNC_SECOND"]
        /\ ackReceived' = ackReceived
    BY <1>6 DEF WaitForSyncResponse, Reads, TypeOK
  <2>2. Apart
    BY <1>1, <2>1 DEF HandshakeInv, Meeting, Together, Role
  <2>3. state["slave"] = "SYNC_SECOND" /\ ~ackReceived["slave"]
    BY <2>1, <2>2 DEF Apart
  <2>4. CASE state' = state
    BY <1>1, <2>1, <2>2, <2>4, QuietHandshake DEF HandshakeInv, Apart
  <2>5. CASE state' = [state EXCEPT ![e] = "SYNC_SECOND"]
    <3>1. state'["master"] = "SYNC_SECOND" /\ state'["slave"] = "SYNC_SECOND"
      BY <2>1, <2>3, <2>5 DEF TypeOK, Role
    <3>2. Meeting'
      BY <1>2, <2>1, <2>3, <3>1 DEF Meeting
    <3> QED
      BY <3>2 DEF HandshakeInv
  <2> QED
    BY <2>1, <2>4, <2>5
<1>7. CASE WaitForSyncAck(e)
  <2>1. /\ state[e] = "SYNC_SECOND" /\ link[e] # <<>> /\ Head(link[e]).code = "SYNC_ACK"
        /\ IF e = "slave"
           THEN ackReceived' = [ackReceived EXCEPT ![e] = TRUE] /\ state' = state
           ELSE state' = [state EXCEPT ![e] = "RUNNING"] /\ ackReceived' = ackReceived
    BY <1>7 DEF WaitForSyncAck, Reads
  <2>2. Meeting
    BY <1>1, <1>3, <2>1 DEF HandshakeInv, Apart, Together, OnlyTold, Role
  <2>3. CASE e = "slave"
    <3>1. state["master"] = "SYNC_SECOND" /\ state["slave"] = "SYNC_SECOND"
      BY <2>1, <2>2, <2>3 DEF Meeting
    <3>2. ackReceived'["slave"]
      BY <2>1, <2>3 DEF TypeOK, Role
    <3>3. Meeting'
      BY <1>2, <2>1, <2>3, <3>1, <3>2 DEF Meeting
    <3> QED
      BY <3>3 DEF HandshakeInv
  <2>4. CASE e = "master"
    <3>1. state["slave"] = "RUNNING"
      BY <1>1, <2>2, <2>4 DEF Meeting
    <3>2. state'["master"] = "RUNNING" /\ state'["slave"] = "RUNNING"
      BY <2>1, <2>4, <3>1 DEF TypeOK, Role
    <3> QED
      BY <1>1, <3>2, QuietHandshake DEF HandshakeInv
  <2> QED
    BY <1>3, <2>3, <2>4
<1>8. CASE IllegalFrame(e)
  <2>1. /\ link[e] # <<>> /\ Head(link[e]).code \notin Expected(e)
        /\ state' = [state EXCEPT
             ![e] = IF state[e] = "SYNC_SECOND" /\ e = "master" THEN "RUNNING" ELSE "OUT_OF_SYNC"]
    BY <1>8 DEF IllegalFrame, Reads
  <2>2. ASSUME e = "master" PROVE ackReceived'["slave"] = ackReceived["slave"]
    BY <1>8, <2>2 DEF IllegalFrame, TypeOK, Role
  <2>3. Apart
    <3>1. ~Meeting
      BY <1>1, <1>3, <2>1 DEF Meeting, IsAcknowledged, Expected
    <3>2. ~Together
      BY <2>1 DEF Together, OnlyTold, Expected
    <3> QED
      BY <3>1, <3>2 DEF HandshakeInv
  <2>4. CASE e = "master"
    <3>1. state'["master"] = "OUT_OF_SYNC" /\ state'["slave"] = state["slave"]
      BY <2>1, <2>3, <2>4 DEF Apart, TypeOK, Role
    <3> QED
      BY <1>1, <2>2, <2>3, <2>4, <3>1, QuietHandshake DEF HandshakeInv, Apart
  <2>5. CASE e = "slave"
    <3>1. state'["slave"] = "OUT_OF_SYNC" /\ state'["master"] = state["master"]
      BY <2>1, <2>5 DEF TypeOK, Role
    <3> QED
      BY <1>1, <2>3, <3>1, QuietHandshake DEF HandshakeInv, Apart
  <2> QED
    BY <1>3, <2>4, <2>5
<1>9. CASE HandleDataMessage(e) \/ StartReception(e) \/ CannotStartReception(e)
           \/ RejectReception(e)
  <2>1. /\ state' = state /\ ackReceived' = ackReceived /\ state[e] = "RUNNING"
        /\ link[e] # <<>> /\ Head(link[e]).code \in {"DATA_TRANSFER", "NEW_FILE_START"}
    BY <1>9 DEF HandleDataMessage, StartReception, CannotStartReception, RejectReception,
       ReadsFileStart, Reads, session
  <2>2. Together
    <3>1. ~Apart
      BY <1>3, <2>1 DEF Apart
    <3>2. ~Meeting
      BY <1>1, <1>3, <2>1 DEF Meeting, IsAcknowledged
    <3> QED
      BY <3>1, <3>2 DEF HandshakeInv
  <2> QED
    BY <1>1, <2>1, <2>2, QuietHandshake DEF HandshakeInv, Together, Role
<1> QED
  BY <1>4, <1>5, <1>6, <1>7, <1>8, <1>9 DEF HandleIncoming

LEMMA SayingKeepsHandshake ==
  ASSUME LockStep, TypeOK, TakeTurns, HandshakeInv, \A x \in Role : ~sendWTF[x],
         NEW e \in Role, HandleOutgoing(e)
  PROVE  HandshakeInv'
<1> DEFINE p == Peer(e)
<1>1. /\ turn = e /\ turn' = p /\ phase[e] = "out" /\ phase[p] = "in"
      /\ phase' = [phase EXCEPT ![e] = "in"]
      /\ \A x \in Role : link[x] = <<>>
      /\ link'[e] = <<>> /\ p \in Role
  BY SayingInTurn, PeerTyped
<1>2. phase'[p] = "in"
  BY <1>1, PeerTyped DEF TypeOK
<1>3. (e = "master" /\ p = "slave") \/ (e = "slave" /\ p = "master")
  BY DEF Role, Peer
<1>4. ASSUME NEW f, Sends(e, f) PROVE link'[p] = Append(<<>>, f) /\ link'[p] # <<>> /\ Head(link'[p]) = f
  <2>1. link'[p] = Append(<<>>, f)
    BY <1>1, <1>4 DEF Sends, TypeOK
  <2> QED
    BY <2>1
<1>5. CASE SendSyncProposal(e)
  <2>1. /\ e = "master" /\ state[e] = "SYNC_FIRST"
        /\ state' = state /\ ackReceived' = ackReceived
        /\ Sends(e, [code |-> "SYNC_PROPOSAL", payload |-> parameters[e]])
    BY <1>5 DEF SendSyncProposal, session
  <2>2. Apart
    BY <2>1 DEF HandshakeInv, Meeting, Together, Role
  <2>3. Head(link'["slave"]).code = "SYNC_PROPOSAL" /\ link'["master"] = <<>>
    BY <1>1, <1>3, <1>4, <2>1
  <2> QED
    BY <2>1, <2>2, <2>3 DEF HandshakeInv, Apart, OnlyTold
<1>6. CASE SendSyncResponse(e)
  <2>1. /\ e = "slave" /\ state[e] = "SYNC_FIRST"
        /\ state' = [state EXCEPT ![e] = "SYNC_SECOND"] /\ ackReceived' = ackReceived
        /\ Sends(e, [code |-> "SYNC_RESPONSE", payload |-> parameters[e]])
    BY <1>6 DEF SendSyncResponse
  <2>2. Apart
    BY <2>1 DEF HandshakeInv, Meeting, Together, Role
  <2>3. Head(link'["master"]).code = "SYNC_RESPONSE" /\ link'["slave"] = <<>>
    BY <1>1, <1>3, <1>4, <2>1
  <2>4. state'["slave"] = "SYNC_SECOND" /\ state'["master"] = state["master"]
    BY <2>1 DEF TypeOK, Role
  <2> QED
    BY <2>1, <2>2, <2>3, <2>4 DEF HandshakeInv, Apart, OnlyTold
<1>7. CASE SendSyncAck(e)
  <2>1. /\ state[e] = "SYNC_SECOND" /\ (e = "slave" => ackReceived[e])
        /\ Sends(e, [code |-> "SYNC_ACK"])
        /\ state' = [state EXCEPT ![e] = IF e = "slave" THEN "RUNNING" ELSE @]
        /\ ackReceived' = ackReceived
    BY <1>7 DEF SendSyncAck
  <2>2. Meeting
    BY <1>3, <2>1 DEF HandshakeInv, Apart, Together, Role
  <2>3. link'[p] # <<>> /\ Head(link'[p]).code = "SYNC_ACK"
    BY <1>4, <2>1
  <2>4. CASE e = "master"
    <3>1. state'["master"] = "SYNC_SECOND" /\ state'["slave"] = "SYNC_SECOND"
      BY <1>1, <2>1, <2>2, <2>4 DEF Meeting, TypeOK, Role
    <3>2. Meeting'
      BY <1>1, <1>2, <1>3, <2>3, <2>4, <3>1 DEF Meeting, IsAcknowledged
    <3> QED
      BY <3>2 DEF HandshakeInv
  <2>5. CASE e = "slave"
    <3>1. state'["master"] = "SYNC_SECOND" /\ state'["slave"] = "RUNNING"
      BY <1>1, <2>1, <2>2, <2>5 DEF Meeting, TypeOK, Role
    <3>2. Meeting'
      BY <1>1, <1>2, <1>3, <2>3, <2>5, <3>1 DEF Meeting, IsAcknowledged
    <3> QED
      BY <3>2 DEF HandshakeInv
  <2> QED
    BY <1>3, <2>4, <2>5
<1>8. CASE LeaveOutOfSync(e)
  <2>1. /\ state[e] = "OUT_OF_SYNC" /\ state' = [state EXCEPT ![e] = "SYNC_FIRST"]
        /\ ackReceived' = [ackReceived EXCEPT ![e] = FALSE]
        /\ IF e = "slave" THEN Sends(e, [code |-> "OUT_OF_SYNC"]) ELSE link' = link
    BY <1>8 DEF LeaveOutOfSync, InitializeState
  <2>2. Apart
    BY <1>1, <1>3, <2>1 DEF HandshakeInv, Meeting, Together, Role
  <2>3. CASE e = "master"
    <3>1. /\ state'["master"] = "SYNC_FIRST" /\ state'["slave"] = state["slave"]
          /\ ackReceived'["slave"] = ackReceived["slave"]
          /\ link'["master"] = <<>> /\ link'["slave"] = <<>>
      BY <1>1, <1>3, <2>1, <2>3 DEF TypeOK, Role
    <3> QED
      BY <2>2, <3>1 DEF HandshakeInv, Apart, OnlyTold
  <2>4. CASE e = "slave"
    <3>1. /\ state'["slave"] = "SYNC_FIRST" /\ state'["master"] = state["master"]
          /\ ackReceived'["slave"] = FALSE
          /\ Head(link'["master"]).code = "OUT_OF_SYNC" /\ link'["slave"] = <<>>
      BY <1>1, <1>3, <1>4, <2>1, <2>4 DEF TypeOK, Role
    <3> QED
      BY <2>2, <3>1 DEF HandshakeInv, Apart, OnlyTold
  <2> QED
    BY <1>3, <2>3, <2>4
<1>9. CASE AwaitHandshake(e)
  <2>1. /\ e = "slave" /\ state' = state /\ ackReceived' = ackReceived /\ link' = link
        /\ \/ state[e] = "SYNC_FIRST"
           \/ state[e] = "SYNC_SECOND" /\ ~ackReceived[e]
    BY <1>9 DEF AwaitHandshake, session
  <2>2. Apart
    BY <1>1, <2>1 DEF HandshakeInv, Meeting, Together, Role
  <2> QED
    BY <2>1, <2>2 DEF HandshakeInv, Apart, OnlyTold
<1>10. CASE SendWTF(e)
  BY <1>10 DEF SendWTF
<1>11. CASE SendChunk(e) \/ SendNoChunk(e) \/ SendFileInfo(e) \/ RefuseFile(e)
            \/ SendEmptyData(e)
  <2>1. state' = state /\ state[e] = "RUNNING"
    BY <1>11 DEF SendChunk, SendNoChunk, SendFileInfo, RefuseFile, SendEmptyData,
       MaySendChunk, MayStartFile, session
  <2>2. Together
    BY <1>1, <1>3, <2>1 DEF HandshakeInv, Apart, Meeting
  <2>3. \/ link' = link
        \/ \E f : Sends(e, f) /\ f.code \in {"DATA_TRANSFER", "NEW_FILE_START"}
    <3>1. CASE SendChunk(e)
      BY <3>1 DEF SendChunk, DataFrame
    <3>2. CASE SendEmptyData(e)
      BY <3>2 DEF SendEmptyData, DataFrame
    <3>3. CASE SendFileInfo(e)
      BY <3>3 DEF SendFileInfo
    <3>4. CASE SendNoChunk(e) \/ RefuseFile(e)
      BY <3>4 DEF SendNoChunk, RefuseFile
    <3> QED
      BY <1>11, <3>1, <3>2, <3>3, <3>4
  <2>4. link'[p] # <<>> => Head(link'[p]).code \in {"DATA_TRANSFER", "NEW_FILE_START"}
    BY <1>1, <1>4, <2>3
  <2>5. Together'
    BY <1>1, <1>3, <2>1, <2>2, <2>4 DEF Together, OnlyTold, Role
  <2> QED
    BY <2>5 DEF HandshakeInv
<1> QED
  BY <1>5, <1>6, <1>7, <1>8, <1>9, <1>10, <1>11 DEF HandleOutgoing

LEMMA LosingKeepsHandshake ==
  ASSUME "SYNC_ACK" \notin LossyCodes, TypeOK, TakeTurns, HandshakeInv,
         NEW e \in Role, LoseFrame(e)
  PROVE  HandshakeInv'
<1>1. /\ link[e] # <<>> /\ Head(link[e]).code # "SYNC_ACK"
      /\ state' = state /\ ackReceived' = ackReceived
      /\ \A x \in Role : link'[x] = <<>>
  BY LosingInTurn DEF LoseFrame, session
<1>2. ~Meeting
  <2>1. e = turn
    <3>1. e = turn \/ e = Peer(turn)
      BY DEF TypeOK, Role, Peer
    <3> QED
      BY <1>1, <3>1 DEF TakeTurns
  <2>2. phase[turn] # "out"
    BY <1>1, <2>1 DEF TakeTurns
  <2> QED
    BY <1>1, <2>1, <2>2 DEF Meeting, IsAcknowledged
<1> QED
  BY <1>1, <1>2, QuietHandshake DEF HandshakeInv, Apart, Together, Role

-----------------------------------------------------------------------------
(***************************************************************************)
(* The order of the files.  All files that have been opened have arrived   *)
(* intact, but for one that is under way: its start is on the line, or its *)
(* reception has begun.                                                    *)
(***************************************************************************)
StartUnderWay(e) == link[e] # <<>> /\ IsStart(Head(link[e]))

UnderWay(e) == rx[e].running \/ StartUnderWay(e)

Arrived(e) == {r.name : r \in {q \in received[e] : q.intact}}

FilesInOrder(e) ==
  LET p == Peer(e)
  IN /\ ~sendWTF[e]
     /\ ~(rx[e].running /\ StartUnderWay(e))
     /\ UnderWay(e) => tx[p].running
     /\ tx[p].running => tx[p].fileName = opened[p]
     /\ Arrived(e) = IF UnderWay(e) THEN 1 .. opened[p] - 1 ELSE 1 .. opened[p]
     /\ StartUnderWay(e) => Head(link[e]).payload.name = opened[p]
     /\ rx[e].running => rx[e].fileName <= MaxFiles

OrderInv == HandshakeInv /\ \A e \in Role : FilesInOrder(e)

(* A start under way is read by an end that runs. *)
LEMMA StartMeetsRunning ==
  ASSUME TypeOK, TakeTurns, HandshakeInv, NEW e \in Role, StartUnderWay(e)
  PROVE  Together
<1>1. link[e] # <<>> /\ Head(link[e]).code = "NEW_FILE_START"
  BY DEF StartUnderWay, IsStart
<1>2. e = "master" \/ e = "slave"
  BY DEF Role
<1>3. ~Apart
  BY <1>1, <1>2 DEF Apart, OnlyTold
<1>4. ~Meeting
  <2>1. e = turn /\ phase[turn] # "out"
    <3>1. e = turn \/ e = Peer(turn)
      BY DEF TypeOK, Role, Peer
    <3> QED
      BY <1>1, <3>1 DEF TakeTurns
  <2> QED
    BY <1>1, <1>2, <2>1 DEF Meeting, IsAcknowledged
<1> QED
  BY <1>3, <1>4 DEF HandshakeInv

(* Nothing about the order of the files to e changes. *)
LEMMA OrderUntouched ==
  ASSUME NEW e \in Role, FilesInOrder(e), ~sendWTF'[e],
         rx'[e] = rx[e], received'[e] = received[e], opened'[Peer(e)] = opened[Peer(e)],
         SameFile(tx'[Peer(e)], tx[Peer(e)]),
         tx'[Peer(e)].running => tx[Peer(e)].running,
         rx[e].running => tx'[Peer(e)].running,
         ~StartUnderWay(e), ~StartUnderWay(e)'
  PROVE  FilesInOrder(e)'
BY DEF FilesInOrder, UnderWay, Arrived, SameFile

(* What reading does to the order of the files to the reader. *)
LEMMA StartKeepsOrder ==
  ASSUME BuiltAlike, LockStep, EveryFileDeliverable, TypeOK, TurnInv,
         NEW e \in Role, FilesInOrder(e), StartReception(e)
  PROVE  FilesInOrder(e)' /\ Arrived(e)' = Arrived(e)
<1> DEFINE p == Peer(e)
           f == Head(link[e])
<1>1. HandleIncoming(e)
  BY DEF HandleIncoming
<1>2. /\ StartUnderWay(e) /\ rx'[e].running /\ rx'[e].fileName = f.payload.name
      /\ received' = received
  BY StartTaken DEF StartUnderWay
<1>3. p \in Role /\ p # e /\ link'[e] = <<>> /\ opened' = opened
  BY <1>1, PeerTyped, ReadingInTurn DEF TurnInv
<1>4. tx'[p] = tx[p] /\ sendWTF' = sendWTF
  BY DEF StartReception, ReadsFileStart
<1>5. opened[p] <= MaxFiles
  <2> DEFINE m == Len(offered[p])
  <2>1. opened[p] \in Nat /\ m \in Nat /\ MaxFiles \in Nat
    BY <1>3, LenProperties, ThermitAssumption DEF TypeOK
  <2>2. opened[p] <= m /\ m <= MaxFiles
    BY <1>3 DEF TurnInv, SenderStands
  <2> HIDE DEF m
  <2> QED
    BY <2>1, <2>2
<1>6. Arrived(e)' = Arrived(e)
  BY <1>2 DEF Arrived
<1>7. UnderWay(e) /\ UnderWay(e)' /\ ~StartUnderWay(e)'
  BY <1>2, <1>3 DEF UnderWay, StartUnderWay
<1> QED
  BY <1>2, <1>3, <1>4, <1>5, <1>6, <1>7 DEF FilesInOrder

LEMMA ChunkKeepsOrder ==
  ASSUME BuiltAlike, LockStep, EveryFileDeliverable, TypeOK, TurnInv,
         NEW e \in Role, FilesInOrder(e), HandleDataMessage(e),
         ChunkWritten(e, Head(link[e]))
  PROVE  /\ FilesInOrder(e)'
         /\ \/ Arrived(e)' = Arrived(e)
            \/ /\ opened[Peer(e)] \in Nat \ {0} /\ Arrived(e) = 1 .. opened[Peer(e)] - 1
               /\ Arrived(e)' = Arrived(e) \cup {opened[Peer(e)]}
<1> DEFINE p == Peer(e)
           k == opened[p]
<1>1. HandleIncoming(e)
  BY DEF HandleIncoming
<1>2. /\ p \in Role /\ p # e /\ link'[e] = <<>> /\ opened' = opened
  BY <1>1, PeerTyped, ReadingInTurn DEF TurnInv
<1>3. tx'[p] = tx[p] /\ sendWTF' = sendWTF
  BY <1>1, <1>2, ReadingChanges DEF HandleDataMessage
<1>4. rx[e].running /\ IsReceiving(e)
  BY DEF ChunkWritten, IsForCurrentFile, IsReceiving, FilesInOrder
<1>5. ChunkFills(e)
  BY <1>4, ChunkTaken
<1>6. /\ tx[p].running /\ tx[p].fileName = k /\ ~StartUnderWay(e)
      /\ Arrived(e) = 1 .. k - 1
  BY <1>4 DEF FilesInOrder, UnderWay
<1>7. rx[e].fileName = k
  BY <1>4, <1>6 DEF TurnInv, ReceiverKeepsUp, SameFile
<1>8. k \in Nat \ {0}
  <2>1. k \in 1 .. k
    BY <1>2, <1>6 DEF TurnInv, SenderStands
  <2>2. k \in Nat
    BY <1>2 DEF TypeOK
  <2> QED
    BY <2>1, <2>2
<1>9. ~StartUnderWay(e)'
  BY <1>2 DEF StartUnderWay
<1>10. rx'[e].fileName = k
  BY <1>5, <1>7 DEF ChunkFills, SameFile
<1>11. CASE rx'[e].running
  <2>1. received'[e] = received[e]
    BY <1>5, <1>11 DEF ChunkFills
  <2>2. Arrived(e)' = Arrived(e)
    BY <2>1 DEF Arrived
  <2>3. rx'[e].fileName <= MaxFiles
    BY <1>4, <1>7, <1>10 DEF IsReceiving
  <2>4. UnderWay(e)'
    BY <1>11 DEF UnderWay
  <2> HIDE DEF k
  <2>5. FilesInOrder(e)'
    BY <1>2, <1>3, <1>6, <1>9, <1>11, <2>2, <2>3, <2>4 DEF FilesInOrder, k
  <2> QED
    BY <2>2, <2>5
<1>12. CASE ~rx'[e].running
  <2>1. PICK r : r.name = k /\ r.intact /\ received'[e] = received[e] \cup {r}
    BY <1>5, <1>7, <1>12 DEF ChunkFills
  <2>2. Arrived(e)' = Arrived(e) \cup {k}
    BY <2>1 DEF Arrived
  <2>3. Arrived(e)' = 1 .. k
    <3> HIDE DEF k
    <3>1. (1 .. k - 1) \cup {k} = 1 .. k
      BY <1>8
    <3> QED
      BY <1>6, <2>2, <3>1
  <2>4. ~UnderWay(e)'
    BY <1>9, <1>12 DEF UnderWay
  <2>5. FilesInOrder(e)'
    BY <1>2, <1>3, <1>6, <1>9, <1>12, <2>3, <2>4 DEF FilesInOrder
  <2> QED
    BY <1>6, <1>8, <2>2, <2>5
<1> QED
  BY <1>11, <1>12

(* What arrives, if anything, is the next file, and it has been offered. *)
NextArrives(e) ==
  \/ Arrived(e)' = Arrived(e)
  \/ /\ opened[Peer(e)] \in Nat \ {0} /\ Arrived(e) = 1 .. opened[Peer(e)] - 1
     /\ Arrived(e)' = Arrived(e) \cup {opened[Peer(e)]}

LEMMA ReadingKeepsFileOrder ==
  ASSUME BuiltAlike, LockStep, EveryFileDeliverable, "open" \notin IoFaults,
         TypeOK, TurnInv, OrderInv, NEW e \in Role, HandleIncoming(e)
  PROVE  /\ \A x \in Role : FilesInOrder(x)'
         /\ NextArrives(e) /\ Arrived(Peer(e))' = Arrived(Peer(e))
<1> DEFINE f == Head(link[e])
           p == Peer(e)
<1>1. /\ p \in Role /\ p # e /\ Peer(p) = e /\ \A x \in Role : x = e \/ x = p
      /\ FilesInOrder(e) /\ FilesInOrder(p)
  BY PeerTyped DEF Role, Peer, OrderInv
<1>2. /\ link[p] = <<>> /\ \A x \in Role : link'[x] = <<>>
      /\ opened' = opened
  BY ReadingInTurn DEF TurnInv
<1>3. /\ tx'[p] = tx[p] /\ rx'[p] = rx[p] /\ received'[p] = received[p]
      /\ \/ tx'[e] = tx[e]
         \/ /\ link[e] # <<>> /\ IsData(f) /\ SameFile(tx'[e], tx[e])
            /\ \/ tx'[e].running = tx[e].running
               \/ f.recFeedback = FEEDBACK_FILE_IS_READY /\ ~tx'[e].running
  BY <1>1, ReadingChanges
<1>4. \A x \in Role : ~sendWTF'[x]
  <2>1. ~RejectReception(e)
    BY <1>1 DEF RejectReception, ReadsFileStart, Reads, FilesInOrder, StartUnderWay, IsStart
  <2>2. sendWTF' = sendWTF
    BY <2>1 DEF HandleIncoming, ReadNothing, WaitForSyncProposal, WaitForSyncResponse,
       WaitForSyncAck, IllegalFrame, HandleDataMessage, StartReception,
       CannotStartReception, transfer
  <2> QED
    BY <2>2 DEF OrderInv, FilesInOrder
<1>5. ~StartUnderWay(p) /\ \A x \in Role : ~StartUnderWay(x)'
  BY <1>2 DEF StartUnderWay
<1>6. FilesInOrder(p)' /\ Arrived(p)' = Arrived(p)
  <2>1. ASSUME rx[p].running PROVE tx'[e].running
    <3>1. tx[e].running /\ IsReceiving(p)
      BY <1>1, <2>1 DEF FilesInOrder, UnderWay, IsReceiving
    <3>2. link[e] # <<>> /\ IsData(f) => f.recFeedback # FEEDBACK_FILE_IS_READY
      BY <3>1 DEF TurnInv, LinesAreTrue, FrameIsTrue
    <3> QED
      BY <1>3, <3>1, <3>2
  <2>2. SameFile(tx'[e], tx[e]) /\ (tx'[e].running => tx[e].running)
    BY <1>3 DEF SameFile
  <2>3. Arrived(p)' = Arrived(p)
    BY <1>3 DEF Arrived
  <2> QED
    BY <1>1, <1>2, <1>3, <1>4, <1>5, <2>1, <2>2, <2>3, OrderUntouched
<1>7. FilesInOrder(e)' /\ NextArrives(e)
  <2>1. CASE StartReception(e)
    BY <1>1, <2>1, StartKeepsOrder DEF NextArrives
  <2>2. CASE HandleDataMessage(e) /\ ChunkWritten(e, f)
    BY <1>1, <2>2, ChunkKeepsOrder DEF NextArrives
  <2>3. CASE /\ ~StartReception(e) /\ rx'[e] = rx[e] /\ storage'[e] = storage[e]
             /\ received'[e] = received[e]
    <3>1. ~StartUnderWay(e)
      <4> SUFFICES ASSUME StartUnderWay(e) PROVE FALSE
        OBVIOUS
      <4>1. link[e] # <<>> /\ f.code = "NEW_FILE_START" /\ ~rx[e].running
        BY <1>1 DEF StartUnderWay, IsStart, FilesInOrder
      <4>2. state[e] = "RUNNING"
        BY StartMeetsRunning DEF OrderInv, Together, TurnInv
      <4>3. f.code \in Expected(e)
        BY <4>1, <4>2 DEF Expected
      <4> QED
        BY <2>3, <4>1, <4>2, <4>3 DEF HandleIncoming, ReadNothing, WaitForSyncProposal,
           WaitForSyncResponse, WaitForSyncAck, IllegalFrame, HandleDataMessage,
           CannotStartReception, RejectReception
    <3>2. Arrived(e)' = Arrived(e)
      BY <2>3 DEF Arrived
    <3>3. rx[e].running => tx[p].running
      BY <1>1 DEF FilesInOrder, UnderWay
    <3> QED
      BY <1>1, <1>2, <1>3, <1>4, <1>5, <2>3, <3>1, <3>2, <3>3, OrderUntouched
      DEF NextArrives, SameFile
  <2> QED
    BY <2>1, <2>2, <2>3, ReadingChanges
<1> QED
  BY <1>1, <1>6, <1>7

LEMMA SayingKeepsFileOrder ==
  ASSUME BuiltAlike, LockStep, TypeOK, TurnInv, OrderInv, NEW e \in Role, HandleOutgoing(e)
  PROVE  \A x \in Role : FilesInOrder(x)' /\ Arrived(x)' = Arrived(x)
<1> DEFINE p == Peer(e)
<1>1. /\ p \in Role /\ p # e /\ Peer(p) = e /\ \A x \in Role : x = e \/ x = p
      /\ FilesInOrder(e) /\ FilesInOrder(p)
  BY PeerTyped DEF Role, Peer, OrderInv
<1>2. /\ \A x \in Role : link[x] = <<>> /\ ~StartUnderWay(x)
      /\ link'[e] = <<>> /\ ~StartUnderWay(e)'
  BY SayingInTurn DEF TurnInv, StartUnderWay
<1>3. /\ rx' = rx /\ received' = received
      /\ tx'[p] = tx[p] /\ opened'[p] = opened[p]
  BY <1>1, SayingChanges
<1>4. \A x \in Role : ~sendWTF'[x]
  <2>1. ~SendWTF(e)
    BY <1>1 DEF SendWTF, FilesInOrder
  <2>2. sendWTF' = sendWTF
    BY <2>1 DEF HandleOutgoing, SendSyncProposal, SendSyncResponse, SendSyncAck,
       LeaveOutOfSync, AwaitHandshake, SendChunk, SendNoChunk, SendFileInfo,
       RefuseFile, SendEmptyData, transfer
  <2> QED
    BY <2>2 DEF OrderInv, FilesInOrder
<1>5. \A x \in Role : Arrived(x)' = Arrived(x)
  BY <1>3 DEF Arrived
<1>6. FilesInOrder(e)'
  <2>1. rx[e].running => tx[p].running
    BY <1>1 DEF FilesInOrder, UnderWay
  <2> QED
    BY <1>1, <1>2, <1>3, <1>4, <2>1, OrderUntouched DEF SameFile
<1>7. FilesInOrder(p)'
  <2>1. CASE SendFileInfo(e)
    <3> DEFINE k    == opened[e]
               info == [code |-> "NEW_FILE_START", sndFileId |-> NextOutgoingFileId(e),
                        payload |-> [name |-> k + 1, size |-> NextFileSize(e)]]
    <3>1. /\ ~tx[e].running /\ k \in Nat /\ opened'[e] = k + 1
          /\ tx'[e].running /\ tx'[e].fileName = k + 1
      BY <2>1, FileStarted DEF TurnInv, IsStarted
    <3>2. link'[p] = Append(<<>>, info)
      BY <1>1, <1>2, <2>1 DEF SendFileInfo, Sends, TypeOK
    <3>3. link'[p] # <<>> /\ Head(link'[p]) = info
      BY <3>2
    <3>4. StartUnderWay(p)' /\ Head(link'[p]).payload.name = k + 1
      BY <3>3 DEF StartUnderWay, IsStart
    <3>5. ~rx[p].running /\ Arrived(p) = 1 .. k
      BY <1>1, <1>2, <3>1 DEF FilesInOrder, UnderWay
    <3>6. UnderWay(p)' /\ ~rx'[p].running
      BY <1>3, <3>4, <3>5 DEF UnderWay
    <3> HIDE DEF k
    <3>7. 1 .. k = 1 .. (k + 1) - 1
      BY <3>1
    <3>8. Arrived(p)' = 1 .. opened'[e] - 1
      BY <1>1, <1>5, <3>1, <3>5, <3>7
    <3> QED
      BY <1>1, <1>4, <3>1, <3>4, <3>6, <3>8 DEF FilesInOrder
  <2>2. CASE ~SendFileInfo(e)
    <3>1. SameFile(tx'[e], tx[e]) /\ tx'[e].running = tx[e].running /\ opened' = opened
      BY <2>2, SayingChanges
    <3>2. ~StartUnderWay(p)'
      <4> SUFFICES ASSUME StartUnderWay(p)' PROVE FALSE
        OBVIOUS
      <4>0. link' # link
        BY <1>1, <1>2 DEF StartUnderWay
      <4>1. PICK f \in Frame : Says(e, f)
        BY <4>0, WhatIsSaid
      <4>2. link'[p] = Append(<<>>, f)
        BY <1>1, <1>2, <4>1 DEF Says, TypeOK
      <4>3. Head(link'[p]) = f
        BY <4>2, OneFrame
      <4>4. opened' = [opened EXCEPT ![e] = opened[e] + 1]
        BY <4>1, <4>3 DEF StartUnderWay, Says, MaySay
      <4>5. opened[e] \in Nat /\ opened'[e] = opened[e] + 1
        BY <4>4 DEF TypeOK
      <4> QED
        BY <3>1, <4>5
    <3>3. rx[p].running => tx[e].running
      BY <1>1 DEF FilesInOrder, UnderWay
    <3> QED
      BY <1>1, <1>2, <1>3, <1>4, <3>1, <3>2, <3>3, OrderUntouched
  <2> QED
    BY <2>1, <2>2
<1> QED
  BY <1>1, <1>5, <1>6, <1>7

LEMMA EnvironmentKeepsFileOrder ==
  ASSUME "NEW_FILE_START" \notin LossyCodes, TypeOK, TurnInv, OrderInv,
         NEW e \in Role, OfferFile(e) \/ LoseFrame(e)
  PROVE  \A x \in Role : FilesInOrder(x)' /\ Arrived(x)' = Arrived(x)
<1>1. /\ tx' = tx /\ rx' = rx /\ received' = received /\ opened' = opened
      /\ sendWTF' = sendWTF
  BY DEF OfferFile, LoseFrame, transfer, files
<1>2. \A x \in Role : Arrived(x)' = Arrived(x)
  BY <1>1 DEF Arrived
<1>3. CASE OfferFile(e)
  BY <1>1, <1>2, <1>3 DEF OfferFile, OrderInv, FilesInOrder, UnderWay, StartUnderWay
<1>4. CASE LoseFrame(e)
  <2>1. \A x \in Role : ~StartUnderWay(x)'
    BY <1>4, LosingInTurn DEF StartUnderWay, TurnInv
  <2>2. \A x \in Role : ~StartUnderWay(x)
    <3> SUFFICES ASSUME NEW x \in Role, StartUnderWay(x) PROVE FALSE
      OBVIOUS
    <3>1. link[x] # <<>> /\ link[e] # <<>>
      BY <1>4 DEF StartUnderWay, LoseFrame
    <3>2. x = e
      <4>1. (x = turn \/ x = Peer(turn)) /\ (e = turn \/ e = Peer(turn))
        BY DEF TypeOK, Role, Peer
      <4> QED
        BY <3>1, <4>1 DEF TurnInv, TakeTurns
    <3> QED
      BY <1>4, <3>2 DEF LoseFrame, StartUnderWay, IsStart
  <2> QED
    BY <1>1, <1>2, <2>1, <2>2 DEF OrderInv, FilesInOrder, UnderWay
<1> QED
  BY <1>2, <1>3, <1>4

LEMMA InitInOrder == Init => OrderInv
<1> SUFFICES ASSUME Init PROVE OrderInv
  OBVIOUS
<1>1. Apart
  BY DEF Init, Apart, OnlyTold, Role
<1>2. ASSUME NEW e \in Role PROVE FilesInOrder(e)
  <2>1. /\ ~sendWTF[e] /\ ~rx[e].running /\ ~StartUnderWay(e)
        /\ ~tx[Peer(e)].running /\ opened[Peer(e)] = 0 /\ Arrived(e) = {}
    BY PeerTyped DEF Init, NoProgress, StartUnderWay, Arrived
  <2>2. 1 .. 0 = {}
    OBVIOUS
  <2> QED
    BY <2>1, <2>2 DEF FilesInOrder, UnderWay
<1> QED
  BY <1>1, <1>2 DEF OrderInv, HandshakeInv

LEMMA StepInOrder ==
  ASSUME BuiltAlike, LockStep, EveryFileDeliverable, "open" \notin IoFaults,
         "SYNC_ACK" \notin LossyCodes, "NEW_FILE_START" \notin LossyCodes
  PROVE  TypeOK /\ TurnInv /\ OrderInv /\ [Next]_vars => OrderInv'
<1> SUFFICES ASSUME TypeOK, TurnInv, OrderInv, [Next]_vars PROVE OrderInv'
  OBVIOUS
<1>1. TakeTurns /\ HandshakeInv /\ \A x \in Role : ~sendWTF[x]
  BY DEF TurnInv, OrderInv, FilesInOrder
<1>2. ASSUME NEW e \in Role, HandleIncoming(e) PROVE OrderInv'
  BY <1>1, <1>2, ReadingKeepsHandshake, ReadingKeepsFileOrder DEF OrderInv
<1>3. ASSUME NEW e \in Role, HandleOutgoing(e) PROVE OrderInv'
  BY <1>1, <1>3, SayingKeepsHandshake, SayingKeepsFileOrder DEF OrderInv
<1>4. ASSUME NEW e \in Role, OfferFile(e) PROVE OrderInv'
  <2>1. HandshakeInv'
    BY <1>1, <1>4 DEF OfferFile, session, HandshakeInv, Apart, Meeting, Together, OnlyTold,
       IsAcknowledged
  <2> QED
    BY <1>4, <2>1, EnvironmentKeepsFileOrder DEF OrderInv
<1>5. ASSUME NEW e \in Role, LoseFrame(e) PROVE OrderInv'
  BY <1>1, <1>5, LosingKeepsHandshake, EnvironmentKeepsFileOrder DEF OrderInv
<1>6. CASE UNCHANGED vars
  BY <1>6 DEF vars, session, transfer, files, OrderInv, HandshakeInv, Apart, Meeting,
     Together, OnlyTold, IsAcknowledged, FilesInOrder, UnderWay, StartUnderWay, Arrived
<1> QED
  BY <1>2, <1>3, <1>4, <1>5, <1>6 DEF Next, Step

-----------------------------------------------------------------------------
(* The refinement of FileTransfer. *)

LEMMA InitPromised == Init => Promise!Init
<1> SUFFICES ASSUME Init PROVE Promise!Init
  OBVIOUS
<1>1. Len(offered["master"]) = 0 /\ received["slave"] = {} /\ confirmed["master"] = {}
  BY EmptySeq DEF Init, Role
<1> QED
  BY <1>1 DEF Promise!Init

(* What the master confirms has arrived. *)
LEMMA ConfirmedHasArrived ==
  ASSUME LockStep, TypeOK, TurnInv, OrderInv, HandleIncoming("master")
  PROVE  \/ confirmed'["master"] = confirmed["master"]
         \/ \E file \in Arrived("slave") :
              confirmed'["master"] = confirmed["master"] \cup {file}
<1> DEFINE m == "master"
           f == Head(link[m])
<1>1. m \in Role /\ Peer(m) = "slave" /\ Peer("slave") = m /\ "slave" \in Role
  BY DEF Role, Peer
<1>2. link["slave"] = <<>>
  BY <1>1, ReadingInTurn DEF TurnInv
<1>3. CASE ~HandleDataMessage(m)
  BY <1>3 DEF HandleIncoming, ReadNothing, WaitForSyncProposal, WaitForSyncResponse,
     WaitForSyncAck, IllegalFrame, StartReception, CannotStartReception,
     RejectReception, ReadsFileStart, files
<1>4. CASE HandleDataMessage(m)
  <2>1. link[m] # <<>> /\ IsData(f) /\ TakeFeedback(m, f)
    BY <1>4 DEF HandleDataMessage, Reads, IsData
  <2>2. CASE confirmed' = confirmed
    BY <2>2
  <2>3. CASE confirmed' # confirmed
    <3>1. /\ tx[m].running /\ f.recFeedback = FEEDBACK_FILE_IS_READY
          /\ confirmed' = [confirmed EXCEPT ![m] = @ \cup {tx[m].fileName}]
      BY <2>1, <2>3 DEF TakeFeedback
    <3>2. confirmed'[m] = confirmed[m] \cup {tx[m].fileName}
      BY <1>1, <3>1 DEF TypeOK
    <3>3. ~IsReceiving("slave")
      BY <1>1, <2>1, <3>1 DEF TurnInv, LinesAreTrue, FrameIsTrue
    <3>4. ~UnderWay("slave")
      BY <1>1, <1>2, <3>3 DEF UnderWay, StartUnderWay, OrderInv, FilesInOrder, IsReceiving
    <3>5. Arrived("slave") = 1 .. opened[m]
      BY <1>1, <3>4 DEF OrderInv, FilesInOrder
    <3>6. tx[m].fileName \in 1 .. opened[m]
      BY <1>1, <3>1 DEF TurnInv, SenderStands
    <3> QED
      BY <3>2, <3>5, <3>6
  <2> QED
    BY <2>2, <2>3
<1> QED
  BY <1>3, <1>4

LEMMA StepPromised ==
  ASSUME BuiltAlike, LockStep, EveryFileDeliverable, "open" \notin IoFaults,
         "NEW_FILE_START" \notin LossyCodes
  PROVE  TypeOK /\ TurnInv /\ OrderInv /\ [Next]_vars => [Promise!Next]_(Promise!vars)
<1> SUFFICES ASSUME TypeOK, TurnInv, OrderInv, [Next]_vars
             PROVE  [Promise!Next]_(Promise!vars)
  OBVIOUS
<1> DEFINE n == Len(offered["master"])
           a == Arrived("slave")
           c == confirmed["master"]
<1>1. /\ "master" \in Role /\ "slave" \in Role
      /\ Peer("master") = "slave" /\ Peer("slave") = "master"
  BY DEF Role, Peer
<1>2. ASSUME n' = n, a' = a, c' = c PROVE UNCHANGED Promise!vars
  BY <1>2 DEF Promise!vars, Arrived
<1>3. ASSUME n' = n + 1, a' = a, c' = c PROVE Promise!Next
  BY <1>3 DEF Promise!Next, Promise!Offer, Arrived
<1>4. ASSUME n' = n, a' = a, NEW file \in a, c' = c \cup {file}
      PROVE  [Promise!Next]_(Promise!vars)
  <2>1. CASE file \in c
    <3>1. c' = c
      BY <1>4, <2>1
    <3> QED
      BY <1>2, <1>4, <3>1
  <2>2. CASE file \notin c
    BY <1>4, <2>2 DEF Promise!Next, Promise!Confirm, Arrived
  <2> QED
    BY <2>1, <2>2
<1>5. ASSUME n' = n, c' = c, NextArrives("slave")
      PROVE  [Promise!Next]_(Promise!vars)
  <2>1. CASE a' = a
    BY <1>2, <1>5, <2>1
  <2>2. CASE a' # a
    <3> DEFINE k == opened["master"]
    <3>1. k \in Nat \ {0} /\ a = 1 .. k - 1 /\ a' = a \cup {k}
      BY <1>1, <1>5, <2>2 DEF NextArrives
    <3>2. Cardinality(a) + 1 = k
      <4> HIDE DEF k, a
      <4>1. Cardinality(1 .. k - 1) = IF 1 > k - 1 THEN 0 ELSE (k - 1) - 1 + 1
        BY <3>1, FS_Interval
      <4> QED
        BY <3>1, <4>1
    <3>3. k <= n
      BY <1>1 DEF TurnInv, SenderStands
    <3>4. Promise!Receive
      <4>1. Promise!Cardinality(a) = Cardinality(a)
        BY DEF Promise!Cardinality, Cardinality
      <4>2. Promise!Cardinality(a) + 1 <= n /\ a' = a \cup {Promise!Cardinality(a) + 1}
        <5> HIDE DEF a, k, n
        <5> QED
          BY <3>1, <3>2, <3>3, <4>1
      <4> QED
        BY <1>5, <4>2 DEF Promise!Receive, Arrived
    <3> QED
      BY <3>4 DEF Promise!Next
  <2> QED
    BY <2>1, <2>2
<1>6. CASE HandleIncoming("master")
  <2>1. n' = n /\ a' = a
    BY <1>1, <1>6, ReadingInTurn, ReadingKeepsFileOrder DEF TurnInv
  <2>2. c' = c \/ \E file \in a : c' = c \cup {file}
    BY <1>6, ConfirmedHasArrived
  <2> QED
    BY <1>2, <1>4, <2>1, <2>2
<1>7. CASE HandleIncoming("slave")
  <2>1. n' = n /\ NextArrives("slave")
    BY <1>1, <1>7, ReadingInTurn, ReadingKeepsFileOrder DEF TurnInv
  <2>2. c' = c
    BY <1>1, <1>7 DEF HandleIncoming, ReadNothing, WaitForSyncProposal,
       WaitForSyncResponse, WaitForSyncAck, IllegalFrame, HandleDataMessage, TakeFeedback,
       StartReception, CannotStartReception, RejectReception, ReadsFileStart, files, TypeOK
  <2> QED
    BY <1>5, <2>1, <2>2
<1>8. ASSUME NEW e \in Role, HandleOutgoing(e) PROVE UNCHANGED Promise!vars
  <2>1. n' = n /\ a' = a
    BY <1>1, <1>8, SayingInTurn, SayingKeepsFileOrder DEF TurnInv
  <2>2. c' = c
    BY <1>8 DEF HandleOutgoing, SendSyncProposal, SendSyncResponse, SendSyncAck,
       LeaveOutOfSync, AwaitHandshake, SendWTF, SendChunk, SendNoChunk, SendFileInfo,
       RefuseFile, SendEmptyData, files
  <2> QED
    BY <1>2, <2>1, <2>2
<1>9. ASSUME NEW e \in Role, OfferFile(e) PROVE [Promise!Next]_(Promise!vars)
  <2>1. a' = a /\ c' = c
    BY <1>1, <1>9, EnvironmentKeepsFileOrder DEF OfferFile, files
  <2>2. n' = n \/ n' = n + 1
    <3>1. PICK size \in FileSizes : offered' = [offered EXCEPT ![e] = Append(@, size)]
      BY <1>9 DEF OfferFile
    <3>2. offered["master"] \in Seq(FileSizes)
      BY <1>1 DEF TypeOK
    <3>3. Len(Append(offered["master"], size)) = n + 1
      BY <3>2, AppendProperties
    <3>4. offered'["master"] = offered["master"]
          \/ offered'["master"] = Append(offered["master"], size)
      BY <1>1, <3>1 DEF TypeOK
    <3> QED
      BY <3>3, <3>4
  <2> QED
    BY <1>2, <1>3, <2>1, <2>2
<1>10. ASSUME NEW e \in Role, LoseFrame(e) PROVE UNCHANGED Promise!vars
  <2>1. n' = n /\ a' = a /\ c' = c
    BY <1>1, <1>10, EnvironmentKeepsFileOrder DEF LoseFrame, files
  <2> QED
    BY <1>2, <2>1
<1>11. CASE UNCHANGED vars
  <2>1. n' = n /\ a' = a /\ c' = c
    BY <1>11 DEF vars, files, Arrived
  <2> QED
    BY <1>2, <2>1
<1> QED
  BY <1>6, <1>7, <1>8, <1>9, <1>10, <1>11 DEF Next, Step, Role

(***************************************************************************)
(* Ends that take turns keep the promise of FileTransfer, which TLC checks *)
(* for a few files: files arrive intact and in order, and the master       *)
(* reports a file as sent only when it has arrived (handleDataMessage,     *)
(* sendDataMessage).                                                       *)
(***************************************************************************)
THEOREM PromiseIsKept ==
  ASSUME BuiltAlike, LockStep, EveryFileDeliverable, "open" \notin IoFaults,
         "SYNC_ACK" \notin LossyCodes, "NEW_FILE_START" \notin LossyCodes
  PROVE  Spec => KeepsThePromise
<1>1. Init => TypeOK /\ TurnInv /\ OrderInv
  BY InitTyped, InitInTurn, InitInOrder
<1>2. TypeOK /\ TurnInv /\ OrderInv /\ [Next]_vars => (TypeOK /\ TurnInv /\ OrderInv)'
  BY StepTyped, StepInTurn, StepInOrder
<1>3. TypeOK /\ TurnInv /\ OrderInv /\ [Next]_vars => [Promise!Next]_(Promise!vars)
  BY StepPromised
<1> QED
  BY <1>1, <1>2, <1>3, InitPromised, PTL DEF Spec, KeepsThePromise, Promise!Spec
=============================================================================
