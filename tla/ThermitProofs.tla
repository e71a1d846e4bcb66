--------------------------- MODULE ThermitProofs ---------------------------
(***************************************************************************)
(* Theorems about Thermit, for every value of its constants.               *)
(***************************************************************************)
EXTENDS Thermit, ParameterLemmas, SequenceTheorems, WellFoundedInduction, TLAPS

-----------------------------------------------------------------------------
(* Lemmas about the progress records. *)

(* Starting a file makes a well-formed progress record. *)
LEMMA ProgressInitializeTyped ==
  ASSUME NEW size \in Nat, NEW params \in Parameters
  PROVE  ProgressInitialize(size, params) \in Progress
<1> DEFINE n == DivisionRoundedUp(size, params.chunkSize) % 256
<1>1. params.chunkSize \in Nat \ {0}
  <2>1. params.chunkSize \in UInt16 \ {0}
    BY DEF Parameters
  <2> QED
    BY <2>1, UInt16Facts
<1>2. DivisionRoundedUp(size, params.chunkSize) \in Int
  BY <1>1 DEF DivisionRoundedUp
<1>3. n \in UInt8
  BY <1>2 DEF UInt8
<1>4. 0 .. n - 1 \in SUBSET UInt8
  BY <1>3 DEF UInt8
<1>5. ProgressInitialize(size, params) =
        [NoProgress EXCEPT !.running              = TRUE,
                           !.fileSize             = size,
                           !.chunkStatus          = 0 .. n - 1,
                           !.numberOfChunksNeeded = n]
  BY DEF ProgressInitialize
<1>6. 0 \in UInt8
  BY DEF UInt8
<1> HIDE DEF n
<1>7. ProgressInitialize(size, params) =
        [running              |-> TRUE,
         fileSize             |-> size,
         fileId               |-> 0,
         chunkNo              |-> 0,
         fileName             |-> 0,
         chunkStatus          |-> 0 .. n - 1,
         numberOfChunksNeeded |-> n,
         waitForFeedback      |-> FALSE]
  BY <1>5, Zenon DEF NoProgress, NoName
<1> QED
  BY <1>3, <1>4, <1>6, <1>7 DEF Progress

(* Marking a chunk done keeps the record well-formed. *)
LEMMA SetChunkDoneTyped ==
  ASSUME NEW p \in Progress, NEW c \in UInt8
  PROVE  ProgressSetChunkDone(p, c) \in Progress
BY DEF ProgressSetChunkDone, Progress

(* Sending a chunk and going on after feedback keep it well-formed, too. *)
LEMMA ChunkSentTyped ==
  ASSUME NEW p \in Progress, p.chunkNo < p.numberOfChunksNeeded
  PROVE  ChunkSent(p) \in Progress
<1> DEFINE n == p.chunkNo + 1
           w == p.waitForFeedback \/ n >= p.numberOfChunksNeeded
<1>1. n \in UInt8
  BY DEF Progress, UInt8
<1>2. w \in BOOLEAN
  BY DEF Progress
<1>3. ChunkSent(p) = [p EXCEPT !.chunkNo = n, !.waitForFeedback = w]
  BY DEF ChunkSent, Progress
<1> HIDE DEF n, w
<1> QED
  BY <1>1, <1>2, <1>3 DEF Progress

LEMMA NextRoundTyped ==
  ASSUME NEW p \in Progress, NEW feedback \in UInt8
  PROVE  NextRound(p, feedback) \in Progress
BY DEF NextRound, Progress

(* Every set of bytes that is not empty has a least element. *)
LEMMA LeastByte ==
  ASSUME NEW S \in SUBSET UInt8, S # {}
  PROVE  \E d \in S : \A c \in S : d <= c
<1> DEFINE R == OpToRel(<, Nat)
<1>1. S \subseteq Nat
  BY SMT DEF UInt8
<1>2. IsWellFoundedOn(R, Nat)
  BY NatLessThanWellFounded
<1>3. \A x, y \in Nat : <<x, y>> \in R <=> x < y
  BY Zenon DEF OpToRel
<1> HIDE DEF R
<1>4. PICK d \in S : \A c \in S : <<c, d>> \notin R
  BY <1>1, <1>2, WFMin, Zenon
<1>5. \A c \in S : ~(c < d)
  BY <1>1, <1>3, <1>4
<1> QED
  BY <1>1, <1>5

(* Feedback is a byte. *)
LEMMA FeedbackTyped ==
  ASSUME NEW p \in Progress
  PROVE  GetFeedback(p) \in UInt8
<1>1. CASE p.running /\ DirtyFound(p)
  <2>1. p.chunkStatus \in SUBSET UInt8 /\ p.chunkStatus # {}
    BY <1>1 DEF Progress, DirtyFound
  <2>2. PICK d \in p.chunkStatus : \A c \in p.chunkStatus : d <= c
    BY <2>1, LeastByte
  <2> QED
    BY <1>1, <2>1, <2>2 DEF GetFeedback, FirstDirty
<1>2. CASE ~(p.running /\ DirtyFound(p))
  BY <1>2 DEF GetFeedback, FEEDBACK_FILE_IS_READY, UInt8
<1> QED
  BY <1>1, <1>2

-----------------------------------------------------------------------------
(* Lemmas about frames and lines. *)

LEMMA PeerTyped == \A e \in Role : Peer(e) \in Role /\ Peer(e) # e /\ Peer(Peer(e)) = e
BY DEF Role, Peer

(* What a frame of each code carries. *)
LEMMA FrameFields ==
  ASSUME NEW f \in Frame
  PROVE  /\ f.code \in {"SYNC_PROPOSAL", "SYNC_RESPONSE"} => f.payload \in Parameters
         /\ f.code = "NEW_FILE_START" => f.sndFileId \in UInt8 /\ f.payload \in FileInfo
         /\ f.code = "DATA_TRANSFER" =>
              /\ f.recFileId \in UInt8 /\ f.recFeedback \in UInt8
              /\ f.sndFileId \in UInt8 /\ f.sndChunkNo \in UInt8
              /\ f.payload \in Chunk
BY DEF Frame

(* The frame read and the frames left behind it. *)
LEMMA LineRead ==
  ASSUME NEW e \in Role, link \in [Role -> Seq(Frame)], link[e] # <<>>
  PROVE  /\ Head(link[e]) \in Frame
         /\ [link EXCEPT ![e] = Tail(@)] \in [Role -> Seq(Frame)]
<1>1. link[e] \in Seq(Frame)
  OBVIOUS
<1>2. Head(link[e]) \in Frame /\ Tail(link[e]) \in Seq(Frame)
  BY <1>1, HeadTailProperties
<1> QED
  BY <1>2

(* A frame sent joins the line to the peer. *)
LEMMA LineSent ==
  ASSUME NEW e \in Role, link \in [Role -> Seq(Frame)], NEW f \in Frame
  PROVE  [link EXCEPT ![Peer(e)] = Append(@, f)] \in [Role -> Seq(Frame)]
<1>1. link[Peer(e)] \in Seq(Frame)
  BY PeerTyped
<1>2. Append(link[Peer(e)], f) \in Seq(Frame)
  BY <1>1, AppendProperties
<1> QED
  BY <1>2

(* Writing a chunk stores bytes. *)
LEMMA FileWriteTyped ==
  ASSUME NEW w \in SUBSET StoredByte, NEW offset \in Nat, NEW p \in Chunk
  PROVE  FileWrite(w, offset, p) \in SUBSET StoredByte
<1> DEFINE last == offset + p.length - 1
           new == {[at |-> o, name |-> p.name, byte |-> p.from + o - offset] :
                     o \in offset .. last}
<1>1. p.name \in Nat /\ p.from \in Nat /\ p.length \in Nat
  BY DEF Chunk
<1>2. ASSUME NEW o \in offset .. last
      PROVE  [at |-> o, name |-> p.name, byte |-> p.from + o - offset] \in StoredByte
  <2>1. o \in Nat /\ p.from + o - offset \in Nat
    BY <1>1
  <2> QED
    BY <1>1, <2>1 DEF StoredByte
<1>3. new \subseteq StoredByte
  BY <1>2
<1> QED
  BY <1>3 DEF FileWrite

(* The chunk an endpoint sends next, and the frame it makes of a chunk. *)
LEMMA ChunkTyped ==
  ASSUME TypeOK, NEW e \in Role
  PROVE  CurrentChunk(e) \in Chunk /\ NoChunk \in Chunk
<1>1. tx[e] \in Progress
  BY DEF TypeOK
<1>2. /\ tx[e].chunkNo \in Nat /\ tx[e].numberOfChunksNeeded \in Nat
      /\ tx[e].fileName \in Nat /\ tx[e].fileSize \in Nat
  BY <1>1 DEF Progress, UInt8
<1>3. parameters[e].chunkSize \in Nat \ {0}
  <2>1. parameters[e].chunkSize \in UInt16 \ {0}
    BY DEF TypeOK, Parameters
  <2> QED
    BY <2>1, UInt16Facts
<1> DEFINE length == ChunkLength(tx[e].chunkNo, tx[e], parameters[e].chunkSize)
<1>4. length \in Nat
  BY <1>2, <1>3 DEF ChunkLength
<1>5. tx[e].chunkNo * parameters[e].chunkSize \in Nat
  BY <1>2, <1>3
<1>6. NoChunk \in Chunk
  BY DEF NoChunk, NoName, Chunk
<1> QED
  BY <1>2, <1>4, <1>5, <1>6 DEF CurrentChunk, Chunk

LEMMA DataFrameTyped ==
  ASSUME TypeOK, NEW e \in Role, NEW chunk \in Chunk
  PROVE  DataFrame(e, chunk) \in Frame
<1>1. rx[e] \in Progress /\ tx[e] \in Progress
  BY DEF TypeOK
<1>2. /\ rx[e].fileId \in UInt8 /\ tx[e].fileId \in UInt8
      /\ tx[e].chunkNo \in UInt8 /\ 0 \in UInt8
  BY <1>1 DEF Progress, UInt8
<1>3. GetFeedback(rx[e]) \in UInt8
  BY <1>1, FeedbackTyped
<1> QED
  BY <1>2, <1>3 DEF DataFrame, Frame

(* The file an endpoint opens next, and the frame that says so. *)
LEMMA FileInfoTyped ==
  ASSUME TypeOK, NEW e \in Role, FileAvailable(e)
  PROVE  /\ opened[e] + 1 \in Nat
         /\ NextFileSize(e) \in Nat
         /\ NextOutgoingFileId(e) \in UInt8
         /\ [code      |-> "NEW_FILE_START",
             sndFileId |-> NextOutgoingFileId(e),
             payload   |-> [name |-> opened[e] + 1, size |-> NextFileSize(e)]] \in Frame
<1>1. opened[e] \in Nat
  BY DEF TypeOK
<1>2. NextFileSize(e) \in Nat
  <2>1. offered[e] \in Seq(FileSizes) /\ opened[e] < Len(offered[e])
    BY DEF FileAvailable, TypeOK
  <2>2. offered[e][opened[e] + 1] \in FileSizes
    BY <1>1, <2>1, ElementOfSeq, LenProperties
  <2> QED
    BY <2>2, ThermitAssumption DEF NextFileSize
<1>3. NextOutgoingFileId(e) \in UInt8
  <2>1. FileIdMax \in Nat \ {0} /\ FileIdMax <= 255
    BY FileIdMaxAssumption
  <2>2. opened[e] % FileIdMax \in 0 .. FileIdMax - 1
    BY <1>1, <2>1
  <2> QED
    BY <2>1, <2>2 DEF NextOutgoingFileId, UInt8
<1>4. opened[e] + 1 \in Nat
  BY <1>1
<1> QED
  BY <1>2, <1>3, <1>4 DEF Frame, FileInfo

-----------------------------------------------------------------------------
(* Type correctness, half by half of a step. *)

LEMMA HandleIncomingTyped ==
  ASSUME TypeOK, NEW e \in Role, HandleIncoming(e)
  PROVE  TypeOK'
<1> USE DEF session, transfer, files
<1> DEFINE f == Head(link[e])
<1>0. Incoming(e) /\ phase' \in [Role -> {"in", "out"}]
  BY DEF HandleIncoming, ReadNothing, WaitForSyncProposal, WaitForSyncResponse,
         WaitForSyncAck, IllegalFrame, HandleDataMessage, StartReception,
         CannotStartReception, RejectReception, ReadsFileStart, Reads, Incoming, TypeOK
<1>1. ASSUME Reads(e)
      PROVE  f \in Frame /\ link' \in [Role -> Seq(Frame)]
  BY <1>1, LineRead DEF Reads, TypeOK
<1>2. CASE ReadNothing(e)
  BY <1>0, <1>2 DEF ReadNothing, Incoming, TypeOK
<1>3. CASE WaitForSyncProposal(e)
  <2>1. f.payload \in Parameters /\ parameters[e] \in Parameters
    BY <1>1, <1>3, FrameFields DEF WaitForSyncProposal, TypeOK
  <2>2. parameters' \in [Role -> Parameters]
    BY <1>3, <2>1, FindBestTyped DEF WaitForSyncProposal, TypeOK
  <2> QED
    BY <1>0, <1>1, <1>3, <2>2 DEF WaitForSyncProposal, Incoming, TypeOK
<1>4. CASE WaitForSyncResponse(e)
  <2>1. state' \in [Role -> State]
    BY <1>4 DEF WaitForSyncResponse, TypeOK, State
  <2> QED
    BY <1>0, <1>1, <1>4, <2>1 DEF WaitForSyncResponse, Incoming, TypeOK
<1>5. CASE WaitForSyncAck(e)
  <2>1. state' \in [Role -> State] /\ ackReceived' \in [Role -> BOOLEAN]
    BY <1>5 DEF WaitForSyncAck, TypeOK, State
  <2> QED
    BY <1>0, <1>1, <1>5, <2>1 DEF WaitForSyncAck, Incoming, TypeOK
<1>6. CASE IllegalFrame(e)
  <2>1. state' \in [Role -> State] /\ ackReceived' \in [Role -> BOOLEAN]
    <3>1. (ackReceived[e] \/ (state[e] = "SYNC_SECOND" /\ e = "slave")) \in BOOLEAN
      BY DEF TypeOK
    <3> QED
      BY <1>6, <3>1 DEF IllegalFrame, TypeOK, State
  <2> QED
    BY <1>0, <1>1, <1>6, <2>1 DEF IllegalFrame, Incoming, TypeOK
<1>7. CASE HandleDataMessage(e)
  <2>1. /\ f \in Frame
        /\ f.recFeedback \in UInt8 /\ f.sndChunkNo \in UInt8 /\ f.payload \in Chunk
    BY <1>1, <1>7, FrameFields DEF HandleDataMessage
  <2>2. /\ rx' \in [Role -> Progress]
        /\ storage' \in [Role -> Storage]
        /\ received' \in [Role -> SUBSET Received]
    <3>1. CASE ChunkNotWritten(e, f)
      BY <3>1 DEF ChunkNotWritten, TypeOK
    <3>2. CASE ChunkWritten(e, f)
      <4> DEFINE after == ProgressSetChunkDone(rx[e], f.sndChunkNo)
                 written == FileWrite(storage[e].written,
                              f.sndChunkNo * parameters[e].chunkSize, f.payload)
      <4>1. after \in Progress
        BY <2>1, SetChunkDoneTyped DEF TypeOK
      <4>2. parameters[e].chunkSize \in Nat
        <5>1. parameters[e].chunkSize \in UInt16
          BY DEF TypeOK, Parameters
        <5> QED
          BY <5>1, UInt16Facts
      <4>3. f.sndChunkNo * parameters[e].chunkSize \in Nat
        <5>1. f.sndChunkNo \in Nat
          BY <2>1 DEF UInt8
        <5> HIDE DEF f
        <5> QED
          BY <4>2, <5>1
      <4>4. storage[e].written \in SUBSET StoredByte /\ storage[e].openedAs \in Nat
        BY DEF TypeOK, Storage
      <4>5. written \in SUBSET StoredByte
        BY <2>1, <4>3, <4>4, FileWriteTyped
      <4>6. rx[e].fileName \in Nat
        BY DEF TypeOK, Progress
      <4> HIDE DEF after, written, f
      <4>7. rx' = [rx EXCEPT ![e] = [after EXCEPT !.running = ~~DirtyFound(after)]]
        BY <3>2 DEF ChunkWritten, after
      <4>8. storage' = [storage EXCEPT ![e].written = written]
        BY <3>2 DEF ChunkWritten, written
      <4>9. [after EXCEPT !.running = ~~DirtyFound(after)] \in Progress
        <5>1. DirtyFound(after) \in BOOLEAN
          BY DEF DirtyFound
        <5>2. ~~DirtyFound(after) \in BOOLEAN
          BY <5>1
        <5> QED
          BY <4>1, <5>2 DEF Progress
      <4>10. rx' \in [Role -> Progress]
        BY <4>7, <4>9 DEF TypeOK
      <4>11. storage' \in [Role -> Storage]
        BY <4>4, <4>5, <4>8 DEF TypeOK, Storage
      <4>12. received' \in [Role -> SUBSET Received]
        <5> DEFINE r == [name     |-> rx[e].fileName,
                         storedAs |-> storage[e].openedAs,
                         intact   |-> written = WholeFile(rx[e].fileName, rx[e].fileSize)]
        <5>1. r \in Received
          BY <4>4, <4>6 DEF Received
        <5>2. \/ received' = [received EXCEPT ![e] = @ \cup {r}]
              \/ received' = received
          BY <3>2 DEF ChunkWritten, after, written
        <5> HIDE DEF r
        <5>3. received \in [Role -> SUBSET Received]
          BY DEF TypeOK
        <5>4. received[e] \cup {r} \in SUBSET Received
          BY <5>1, <5>3
        <5> QED
          BY <5>2, <5>3, <5>4
      <4> QED
        BY <4>10, <4>11, <4>12
    <3> QED
      BY <1>7, <3>1, <3>2 DEF HandleDataMessage
  <2>3. /\ tx' \in [Role -> Progress]
        /\ confirmed' \in [Role -> SUBSET Nat]
    <3>1. tx[e] \in Progress /\ tx[e].fileName \in Nat
      BY DEF TypeOK, Progress
    <3>2. TakeFeedback(e, f)
      BY <1>7 DEF HandleDataMessage
    <3> HIDE DEF f
    <3>3. CASE tx' = tx /\ confirmed' = confirmed
      BY <3>3 DEF TypeOK
    <3>4. CASE /\ tx' = [tx EXCEPT ![e].running = FALSE]
               /\ confirmed' = [confirmed EXCEPT ![e] = @ \cup {tx[e].fileName}]
      BY <3>1, <3>4 DEF TypeOK, Progress
    <3>5. CASE /\ tx' = [tx EXCEPT ![e] = NextRound(@, f.recFeedback)]
               /\ confirmed' = confirmed
      BY <2>1, <3>1, <3>5, NextRoundTyped DEF TypeOK
    <3> QED
      BY <3>2, <3>3, <3>4, <3>5 DEF TakeFeedback
  <2> QED
    BY <1>0, <1>1, <1>7, <2>2, <2>3 DEF HandleDataMessage, Incoming, TypeOK
<1>8. CASE StartReception(e)
  <2>1. /\ f.sndFileId \in UInt8 /\ f.payload.name \in Nat /\ f.payload.size \in Nat
    <3>1. f.sndFileId \in UInt8 /\ f.payload \in FileInfo
      BY <1>1, <1>8, FrameFields DEF StartReception, ReadsFileStart
    <3> QED
      BY <3>1 DEF FileInfo
  <2> DEFINE fresh == IF ProgressInitializable(f.payload.size, parameters[e])
                      THEN ProgressInitialize(f.payload.size, parameters[e])
                      ELSE rx[e]
  <2>2. fresh \in Progress
    BY <2>1, ProgressInitializeTyped DEF TypeOK
  <2>3. rx' = [rx EXCEPT ![e] = [fresh EXCEPT !.running  = TRUE,
                                              !.fileId   = f.sndFileId,
                                              !.fileName = f.payload.name]]
    BY <1>8 DEF StartReception
  <2> HIDE DEF fresh
  <2>4. rx' \in [Role -> Progress]
    BY <2>1, <2>2, <2>3 DEF TypeOK, Progress
  <2>5. storage' \in [Role -> Storage]
    <3>1. rx[e].fileName \in Nat
      BY DEF TypeOK, Progress
    <3> QED
      BY <1>8, <3>1 DEF StartReception, TypeOK, Storage
  <2> QED
    BY <1>0, <1>1, <1>8, <2>4, <2>5 DEF StartReception, ReadsFileStart, Incoming, TypeOK
<1>9. CASE CannotStartReception(e)
  BY <1>0, <1>1, <1>9 DEF CannotStartReception, ReadsFileStart, Incoming, TypeOK
<1>10. CASE RejectReception(e)
  BY <1>0, <1>1, <1>10 DEF RejectReception, ReadsFileStart, Incoming, TypeOK
<1> QED
  BY <1>2, <1>3, <1>4, <1>5, <1>6, <1>7, <1>8, <1>9, <1>10 DEF HandleIncoming

LEMMA HandleOutgoingTyped ==
  ASSUME TypeOK, NEW e \in Role, HandleOutgoing(e)
  PROVE  TypeOK'
<1> USE DEF session, transfer, files
<1>1. Outgoing(e)
  BY DEF HandleOutgoing, SendSyncProposal, SendSyncResponse, SendSyncAck, LeaveOutOfSync,
         AwaitHandshake, SendWTF, SendChunk, SendNoChunk, SendFileInfo, RefuseFile,
         SendEmptyData, Sends
<1>2. phase' \in [Role -> {"in", "out"}] /\ turn' \in Role
  BY <1>1, PeerTyped DEF Outgoing, TypeOK
<1>3. ASSUME NEW g \in Frame, Sends(e, g)
      PROVE  link' \in [Role -> Seq(Frame)]
  BY <1>3, LineSent DEF Sends, TypeOK
<1>4. CASE SendSyncProposal(e)
  <2>1. [code |-> "SYNC_PROPOSAL", payload |-> parameters[e]] \in Frame
    BY DEF Frame, TypeOK
  <2> QED
    BY <1>1, <1>2, <1>3, <1>4, <2>1 DEF SendSyncProposal, Outgoing, TypeOK
<1>5. CASE SendSyncResponse(e)
  <2>1. [code |-> "SYNC_RESPONSE", payload |-> parameters[e]] \in Frame
    BY DEF Frame, TypeOK
  <2>2. state' \in [Role -> State]
    BY <1>5 DEF SendSyncResponse, TypeOK, State
  <2> QED
    BY <1>1, <1>2, <1>3, <1>5, <2>1, <2>2 DEF SendSyncResponse, Outgoing, TypeOK
<1>6. CASE SendSyncAck(e)
  <2>1. [code |-> "SYNC_ACK"] \in Frame
    BY DEF Frame
  <2>2. state' \in [Role -> State]
    BY <1>6 DEF SendSyncAck, TypeOK, State
  <2> QED
    BY <1>1, <1>2, <1>3, <1>6, <2>1, <2>2 DEF SendSyncAck, Outgoing, TypeOK
<1>7. CASE LeaveOutOfSync(e)
  <2>1. [code |-> "OUT_OF_SYNC"] \in Frame
    BY DEF Frame
  <2>2. /\ state' \in [Role -> State]
        /\ proposalReceived' \in [Role -> BOOLEAN]
        /\ ackReceived' \in [Role -> BOOLEAN]
        /\ parameters' = parameters
    BY <1>7 DEF LeaveOutOfSync, InitializeState, TypeOK, State
  <2>3. link' \in [Role -> Seq(Frame)]
    BY <1>3, <1>7, <2>1 DEF LeaveOutOfSync, TypeOK
  <2> QED
    BY <1>1, <1>2, <1>7, <2>2, <2>3 DEF LeaveOutOfSync, Outgoing, TypeOK
<1>8. CASE AwaitHandshake(e)
  BY <1>1, <1>2, <1>8 DEF AwaitHandshake, Outgoing, TypeOK
<1>9. CASE SendWTF(e)
  <2>1. [code |-> "WRITE_TERMINATED_FORCEFULLY"] \in Frame
    BY DEF Frame
  <2> QED
    BY <1>1, <1>2, <1>3, <1>9, <2>1 DEF SendWTF, Outgoing, TypeOK
<1>11. CASE SendChunk(e)
  <2>1. tx[e] \in Progress /\ tx[e].chunkNo < tx[e].numberOfChunksNeeded
    BY <1>11 DEF SendChunk, ChunkReadable, TypeOK
  <2>2. DataFrame(e, CurrentChunk(e)) \in Frame
    BY ChunkTyped, DataFrameTyped
  <2>3. link' \in [Role -> Seq(Frame)]
    BY <1>3, <1>11, <2>2 DEF SendChunk
  <2>4. tx' = [tx EXCEPT ![e] = ChunkSent(@)]
    BY <1>11 DEF SendChunk
  <2>5. tx' \in [Role -> Progress]
    BY <2>1, <2>4, ChunkSentTyped DEF TypeOK
  <2> QED
    BY <1>1, <1>2, <1>11, <2>3, <2>5 DEF SendChunk, Outgoing, TypeOK
<1>12. CASE SendNoChunk(e)
  BY <1>1, <1>2, <1>12 DEF SendNoChunk, Outgoing, TypeOK
<1>13. CASE SendFileInfo(e)
  <2> DEFINE name == opened[e] + 1
             size == NextFileSize(e)
             id   == NextOutgoingFileId(e)
             info == [code |-> "NEW_FILE_START", sndFileId |-> id,
                      payload |-> [name |-> name, size |-> size]]
             p    == ProgressInitialize(size, parameters[e])
  <2>1. /\ name \in Nat /\ size \in Nat /\ id \in UInt8
        /\ info \in Frame
    BY <1>13, FileInfoTyped DEF SendFileInfo
  <2>4. p \in Progress
    BY <2>1, ProgressInitializeTyped DEF TypeOK
  <2>5. /\ Sends(e, info)
        /\ tx' = [tx EXCEPT ![e] = [p EXCEPT !.fileId = id, !.fileName = name]]
        /\ opened' = [opened EXCEPT ![e] = name]
    BY <1>13 DEF SendFileInfo
  <2> HIDE DEF info, name, size, id, p
  <2>7. link' \in [Role -> Seq(Frame)]
    BY <1>3, <2>1, <2>5
  <2>8. tx' \in [Role -> Progress] /\ opened' \in [Role -> Nat]
    BY <2>1, <2>4, <2>5 DEF TypeOK, Progress
  <2> QED
    BY <1>1, <1>2, <1>13, <2>7, <2>8 DEF SendFileInfo, Outgoing, TypeOK
<1>14. CASE RefuseFile(e)
  BY <1>1, <1>2, <1>14 DEF RefuseFile, Outgoing, TypeOK
<1>15. CASE SendEmptyData(e)
  <2>1. DataFrame(e, NoChunk) \in Frame
    BY ChunkTyped, DataFrameTyped
  <2> QED
    BY <1>1, <1>2, <1>3, <1>15, <2>1 DEF SendEmptyData, Outgoing, TypeOK
<1> QED
  BY <1>4, <1>5, <1>6, <1>7, <1>8, <1>9, <1>11, <1>12, <1>13, <1>14, <1>15
  DEF HandleOutgoing

LEMMA EnvironmentTyped ==
  ASSUME TypeOK, NEW e \in Role, OfferFile(e) \/ LoseFrame(e)
  PROVE  TypeOK'
<1> USE DEF session, transfer, files
<1>1. CASE OfferFile(e)
  <2>1. PICK size \in FileSizes : offered' = [offered EXCEPT ![e] = Append(@, size)]
    BY <1>1 DEF OfferFile
  <2>2. Append(offered[e], size) \in Seq(FileSizes)
    BY AppendProperties DEF TypeOK
  <2>3. offered' \in [Role -> Seq(FileSizes)]
    BY <2>1, <2>2 DEF TypeOK
  <2> QED
    BY <1>1, <2>3 DEF OfferFile, TypeOK
<1>2. CASE LoseFrame(e)
  <2>1. link' \in [Role -> Seq(Frame)] /\ losses' \in Nat
    BY <1>2, LineRead DEF LoseFrame, TypeOK
  <2> QED
    BY <1>2, <2>1 DEF LoseFrame, TypeOK
<1> QED
  BY <1>1, <1>2

LEMMA InitTyped == Init => TypeOK
<1> SUFFICES ASSUME Init PROVE TypeOK
  OBVIOUS
<1>1. NoProgress \in Progress
  BY SMT DEF NoProgress, NoName, Progress, UInt8
<1>2. [openedAs |-> NoName, written |-> {}] \in Storage
  BY DEF Storage, NoName
<1>3. <<>> \in Seq(Frame) /\ <<>> \in Seq(FileSizes)
  BY EmptySeq
<1> QED
  BY <1>1, <1>2, <1>3, ThermitAssumption DEF Init, TypeOK, Role, State

LEMMA StepTyped == TypeOK /\ [Next]_vars => TypeOK'
<1> SUFFICES ASSUME TypeOK, [Next]_vars PROVE TypeOK'
  OBVIOUS
<1>1. CASE Next
  <2>1. PICK e \in Role : Step(e) \/ OfferFile(e) \/ LoseFrame(e)
    BY <1>1 DEF Next
  <2> QED
    BY <2>1, HandleIncomingTyped, HandleOutgoingTyped, EnvironmentTyped DEF Step
<1>2. CASE UNCHANGED vars
  BY <1>2 DEF vars, session, transfer, files, TypeOK
<1> QED
  BY <1>1, <1>2

(***************************************************************************)
(* Every variable keeps its type, for every value of the constants: in     *)
(* particular the uint8_t of the next chunk number and of the next file id *)
(* never wrap (sendDataMessage 1261, updateOutGoingState 1171), and no     *)
(* negotiation takes a parameter out of uint16_t or the chunk size to 0,   *)
(* by which the code divides (findBestCommonParameterSet 830-853).         *)
(***************************************************************************)
THEOREM TypeCorrect == Spec => []TypeOK
  BY InitTyped, StepTyped, PTL DEF Spec

-----------------------------------------------------------------------------
(* Lemmas about the line to the master. *)

(* Everything said by a running slave is followed by an OUT_OF_SYNC. *)
AllRevoked(s) ==
  \A i \in DOMAIN s : s[i].code \in SaidWhenUp => OutOfSyncAfter(s, i)

(* Reading a frame takes nothing from what the frames behind it say. *)
LEMMA TailSays ==
  ASSUME NEW s \in Seq(Frame), s # <<>>, AllRevoked(s)
  PROVE  AllRevoked(Tail(s))
<1> DEFINE t == Tail(s)
<1>1. /\ Len(s) \in Nat \ {0} /\ DOMAIN s = 1 .. Len(s)
      /\ DOMAIN t = 1 .. Len(s) - 1
      /\ \A i \in 1 .. Len(s) - 1 : t[i] = s[i + 1]
  BY HeadTailProperties, LenProperties, EmptySeq
<1> HIDE DEF t
<1>2. ASSUME NEW i \in DOMAIN t, t[i].code \in SaidWhenUp PROVE OutOfSyncAfter(t, i)
  <2>1. i \in Nat /\ i + 1 \in DOMAIN s /\ s[i + 1].code \in SaidWhenUp
    BY <1>1, <1>2
  <2>2. PICK j \in DOMAIN s : j > i + 1 /\ s[j].code = "OUT_OF_SYNC"
    BY <2>1 DEF AllRevoked, OutOfSyncAfter
  <2>3. j - 1 \in DOMAIN t /\ j - 1 > i /\ t[j - 1] = s[j]
    BY <1>1, <2>1, <2>2
  <2> QED
    BY <2>2, <2>3 DEF OutOfSyncAfter
<1> QED
  BY <1>2 DEF AllRevoked, t

(* A frame sent revokes what is under way, or takes nothing from it. *)
LEMMA AppendSays ==
  ASSUME NEW s \in Seq(Frame), NEW f \in Frame
  PROVE  LET t == Append(s, f)
         IN /\ f.code = "OUT_OF_SYNC" => AllRevoked(t)
            /\ AllRevoked(s) /\ f.code \notin SaidWhenUp => AllRevoked(t)
<1> DEFINE t == Append(s, f)
           n == Len(s) + 1
<1>1. /\ n \in Nat \ {0} /\ DOMAIN s = 1 .. n - 1
      /\ DOMAIN t = 1 .. n
      /\ \A i \in 1 .. n - 1 : t[i] = s[i]
      /\ t[n] = f
  BY AppendProperties, LenProperties
<1> HIDE DEF t, n
<1>2. ASSUME f.code = "OUT_OF_SYNC", NEW i \in DOMAIN t, t[i].code \in SaidWhenUp
      PROVE  OutOfSyncAfter(t, i)
  <2>1. i # n
    BY <1>1, <1>2 DEF SaidWhenUp
  <2> QED
    BY <1>1, <1>2, <2>1 DEF OutOfSyncAfter
<1>3. ASSUME AllRevoked(s), f.code \notin SaidWhenUp,
             NEW i \in DOMAIN t, t[i].code \in SaidWhenUp
      PROVE  OutOfSyncAfter(t, i)
  <2>1. i \in DOMAIN s /\ s[i].code \in SaidWhenUp
    BY <1>1, <1>3
  <2>2. OutOfSyncAfter(s, i)
    BY <1>3, <2>1 DEF AllRevoked
  <2> QED
    BY <1>1, <2>2 DEF OutOfSyncAfter
<1> QED
  BY <1>2, <1>3 DEF AllRevoked, t

-----------------------------------------------------------------------------
(* SlaveWordStands with the question of the slave's state in front: either *)
(* the slave is up, or whatever it said while it was is revoked.           *)
SyncInv == SlaveIsUp \/ AllRevoked(link["master"])

LEMMA InitSync == Init => SyncInv
<1> SUFFICES ASSUME Init PROVE SyncInv
  OBVIOUS
<1>1. link["master"] = <<>>
  BY DEF Init, Role
<1>2. DOMAIN link["master"] = {}
  BY <1>1, SMT
<1> QED
  BY <1>2 DEF SyncInv, AllRevoked

(* The master's steps: frames are read from the line, the slave's state    *)
(* stays.                                                                  *)
LEMMA MasterReads ==
  ASSUME TypeOK, SyncInv, HandleIncoming("master")
  PROVE  SyncInv'
<1> USE DEF session
<1> DEFINE s == link["master"]
<1>1. "master" \in Role /\ "slave" \in Role /\ s \in Seq(Frame)
  BY DEF TypeOK, Role
<1>2. state'["slave"] = state["slave"]
  BY <1>1 DEF HandleIncoming, ReadNothing, WaitForSyncProposal, WaitForSyncResponse,
         WaitForSyncAck, IllegalFrame, HandleDataMessage, StartReception,
         CannotStartReception, RejectReception, ReadsFileStart, TypeOK
<1>3. CASE ReadNothing("master")
  BY <1>2, <1>3 DEF ReadNothing, SyncInv, SlaveIsUp, AllRevoked, OutOfSyncAfter
<1>4. CASE Reads("master")
  <2>1. link'["master"] = Tail(s) /\ s # <<>>
    BY <1>1, <1>4 DEF Reads, TypeOK
  <2>2. AllRevoked(s) => AllRevoked(Tail(s))
    BY <1>1, <2>1, TailSays
  <2> QED
    BY <1>2, <2>1, <2>2 DEF SyncInv, SlaveIsUp
<1> QED
  BY <1>3, <1>4 DEF HandleIncoming, WaitForSyncProposal, WaitForSyncResponse,
         WaitForSyncAck, IllegalFrame, HandleDataMessage, StartReception,
         CannotStartReception, RejectReception, ReadsFileStart

LEMMA MasterSends ==
  ASSUME TypeOK, SyncInv, HandleOutgoing("master")
  PROVE  SyncInv'
<1> USE DEF session
<1>1. "master" \in Role /\ "slave" \in Role /\ Peer("master") = "slave"
  BY DEF Role, Peer
<1>2. link'["master"] = link["master"]
  BY <1>1 DEF HandleOutgoing, SendSyncProposal, SendSyncResponse, SendSyncAck,
         LeaveOutOfSync, AwaitHandshake, SendWTF, SendChunk, SendNoChunk, SendFileInfo,
         RefuseFile, SendEmptyData, Sends, TypeOK
<1>3. state'["slave"] = state["slave"]
  BY <1>1 DEF HandleOutgoing, SendSyncProposal, SendSyncResponse, SendSyncAck,
         LeaveOutOfSync, InitializeState, AwaitHandshake, SendWTF, SendChunk, SendNoChunk,
         SendFileInfo, RefuseFile, SendEmptyData, TypeOK
<1> QED
  BY <1>2, <1>3 DEF SyncInv, SlaveIsUp, AllRevoked, OutOfSyncAfter

(* The slave's steps: it stays up until it says that it does not. *)
LEMMA SlaveReads ==
  ASSUME TypeOK, SyncInv, HandleIncoming("slave")
  PROVE  SyncInv'
<1> USE DEF session
<1>1. "master" \in Role /\ "slave" \in Role
  BY DEF Role
<1>2. link'["master"] = link["master"]
  BY <1>1 DEF HandleIncoming, ReadNothing, WaitForSyncProposal, WaitForSyncResponse,
         WaitForSyncAck, IllegalFrame, HandleDataMessage, StartReception,
         CannotStartReception, RejectReception, ReadsFileStart, Reads, TypeOK
<1>3. SlaveIsUp => SlaveIsUp'
  BY <1>1 DEF HandleIncoming, ReadNothing, WaitForSyncProposal, WaitForSyncResponse,
         WaitForSyncAck, IllegalFrame, HandleDataMessage, StartReception,
         CannotStartReception, RejectReception, ReadsFileStart, TypeOK, SlaveIsUp
<1> QED
  BY <1>2, <1>3 DEF SyncInv, AllRevoked, OutOfSyncAfter

LEMMA SlaveSends ==
  ASSUME TypeOK, SyncInv, HandleOutgoing("slave")
  PROVE  SyncInv'
<1> USE DEF session
<1> DEFINE s == link["master"]
<1>1. /\ "master" \in Role /\ "slave" \in Role /\ Peer("slave") = "master"
      /\ s \in Seq(Frame)
  BY DEF Role, Peer, TypeOK
<1>3. CASE LeaveOutOfSync("slave")
  <2> DEFINE f == [code |-> "OUT_OF_SYNC"]
  <2>1. link'["master"] = Append(s, f)
    BY <1>1, <1>3 DEF LeaveOutOfSync, Sends, TypeOK
  <2>2. f \in Frame /\ f.code = "OUT_OF_SYNC"
    BY DEF Frame
  <2> HIDE DEF f
  <2>3. AllRevoked(Append(s, f))
    BY <1>1, <2>2, AppendSays
  <2> QED
    BY <2>1, <2>3 DEF SyncInv
<1>4. CASE SendSyncAck("slave")
  BY <1>1, <1>4 DEF SendSyncAck, TypeOK, SyncInv, SlaveIsUp
<1>5. CASE SendSyncResponse("slave")
  <2> DEFINE f == [code |-> "SYNC_RESPONSE", payload |-> parameters["slave"]]
  <2>1. link'["master"] = Append(s, f)
    BY <1>1, <1>5 DEF SendSyncResponse, Sends, TypeOK
  <2>2. f \in Frame /\ f.code \notin SaidWhenUp
    BY <1>1 DEF Frame, TypeOK, SaidWhenUp
  <2>3. AllRevoked(s)
    BY <1>5 DEF SyncInv, SlaveIsUp, SendSyncResponse
  <2> HIDE DEF f
  <2>4. AllRevoked(Append(s, f))
    BY <1>1, <2>2, <2>3, AppendSays
  <2> QED
    BY <2>1, <2>4 DEF SyncInv
<1>6. CASE AwaitHandshake("slave")
  BY <1>6 DEF AwaitHandshake, SyncInv, SlaveIsUp, AllRevoked, OutOfSyncAfter
<1>7. CASE state["slave"] = "RUNNING" /\ state' = state
  BY <1>7 DEF SyncInv, SlaveIsUp
<1> QED
  BY <1>3, <1>4, <1>5, <1>6, <1>7 DEF HandleOutgoing, SendSyncProposal, SendWTF,
       MaySendChunk, SendChunk, SendNoChunk, MayStartFile, SendFileInfo, RefuseFile, SendEmptyData

LEMMA SyncStep ==
  ASSUME TypeOK, SyncInv, [Next]_vars
  PROVE  SyncInv'
<1> USE DEF session
<1>1. "master" \in Role /\ link["master"] \in Seq(Frame)
  BY DEF TypeOK, Role
<1>2. ASSUME NEW e \in Role, OfferFile(e) PROVE SyncInv'
  BY <1>2 DEF OfferFile, SyncInv, SlaveIsUp, AllRevoked, OutOfSyncAfter
<1>3. CASE LoseFrame("master")
  <2>1. link'["master"] = Tail(link["master"]) /\ link["master"] # <<>> /\ state' = state
    BY <1>1, <1>3 DEF LoseFrame, TypeOK
  <2> QED
    BY <1>1, <2>1, TailSays DEF SyncInv, SlaveIsUp
<1>4. CASE LoseFrame("slave")
  <2>1. link'["master"] = link["master"] /\ state' = state
    BY <1>1, <1>4 DEF LoseFrame, TypeOK
  <2> QED
    BY <2>1 DEF SyncInv, SlaveIsUp, AllRevoked, OutOfSyncAfter
<1>5. CASE UNCHANGED vars
  BY <1>5 DEF vars, SyncInv, SlaveIsUp, AllRevoked, OutOfSyncAfter
<1>6. CASE Next
  <2>1. PICK e \in Role : Step(e) \/ OfferFile(e) \/ LoseFrame(e)
    BY <1>6 DEF Next
  <2>2. e = "master" \/ e = "slave"
    BY DEF Role
  <2> QED
    BY <1>2, <1>3, <1>4, <2>1, <2>2, MasterReads, MasterSends, SlaveReads, SlaveSends DEF Step
<1> QED
  BY <1>5, <1>6

LEMMA SyncInvImplies == SyncInv => SlaveWordStands
BY DEF SyncInv, SlaveWordStands, AllRevoked

(***************************************************************************)
(* However the endpoints are stepped and whatever frames are lost, the     *)
(* master reads nothing said by a running slave that the slave does not    *)
(* stand by or is not about to revoke (slaveTx 1743-1766, sendOutOfSync    *)
(* 1640-1658).                                                             *)
(***************************************************************************)
THEOREM SlaveKeepsItsWord == Spec => []SlaveWordStands
<1>1. Init => SyncInv
  BY InitSync
<1>2. TypeOK /\ SyncInv /\ [Next]_vars => SyncInv'
  BY SyncStep
<1>3. SyncInv => SlaveWordStands
  BY SyncInvImplies
<1> QED
  BY <1>1, <1>2, <1>3, TypeCorrect, PTL DEF Spec

-----------------------------------------------------------------------------
(***************************************************************************)
(* The sender's place: SenderHasAPlace, for ends that are built alike and  *)
(* sessions in which no file id is used twice.                             *)
(***************************************************************************)
(* The parameters both ends are built with. *)
BuiltChunkSize   == BuildParameters["master"].chunkSize
BuiltMaxFileSize == BuildParameters["master"].maxFileSize

(* initializeParameters makes maxFileSize the size of ChunkCountMax chunks. *)
BuiltAlike ==
  /\ \A e \in Role : /\ BuildParameters[e].chunkSize = BuiltChunkSize
                     /\ BuildParameters[e].maxFileSize = BuiltMaxFileSize
  /\ BuiltMaxFileSize <= BuiltChunkSize * ChunkCountMax

NoIdTwice == MaxFiles <= FileIdMax

(* The chunks of the k-th file that e sends. *)
Chunks(e, k) == DivisionRoundedUp(offered[e][k], BuiltChunkSize)

(* Record p is about a file that e has opened. *)
IsRecordOf(e, p) ==
  /\ p.fileName \in 1 .. opened[e]
  /\ p.fileId = p.fileName - 1
  /\ p.numberOfChunksNeeded = Chunks(e, p.fileName)

(* The negotiation leaves the sizes as they are. *)
SizesStand ==
  \A e \in Role : /\ parameters[e].chunkSize = BuiltChunkSize
                  /\ parameters[e].maxFileSize = BuiltMaxFileSize

(* Only files that fit are opened. *)
OpenedFilesFit ==
  \A e \in Role :
    /\ opened[e] <= Len(offered[e]) /\ Len(offered[e]) <= MaxFiles
    /\ \A k \in 1 .. opened[e] : offered[e][k] \in 1 .. BuiltMaxFileSize

(* What the frames under way to e say of sizes and files is so. *)
GoodFrame(e, f) ==
  /\ f.code = "SYNC_PROPOSAL" => /\ f.payload.chunkSize = BuiltChunkSize
                                 /\ f.payload.maxFileSize = BuiltMaxFileSize
  /\ f.code = "NEW_FILE_START" => /\ f.payload.name \in 1 .. opened[Peer(e)]
                                  /\ f.sndFileId = f.payload.name - 1
                                  /\ f.payload.size = offered[Peer(e)][f.payload.name]
  /\ f.code = "DATA_TRANSFER" /\ f.recFeedback # FEEDBACK_FILE_IS_READY =>
       /\ f.recFileId + 1 \in 1 .. opened[e]
       /\ f.recFeedback < Chunks(e, f.recFileId + 1)

GoodLine(e) == \A i \in DOMAIN link[e] : GoodFrame(e, link[e][i])

ReceiverKnowsItsFile ==
  \A e \in Role : rx[e].running =>
    /\ IsRecordOf(Peer(e), rx[e])
    /\ rx[e].chunkStatus \subseteq 0 .. rx[e].numberOfChunksNeeded - 1

SenderKnowsItsFile == \A e \in Role : tx[e].running => IsRecordOf(e, tx[e])

PlaceInv ==
  /\ SizesStand
  /\ OpenedFilesFit
  /\ \A e \in Role : GoodLine(e)
  /\ ReceiverKnowsItsFile
  /\ SenderKnowsItsFile
  /\ SenderHasAPlace

-----------------------------------------------------------------------------
(* Lemmas about the records of files that fit. *)

LEMMA BuiltTyped ==
  /\ BuiltChunkSize \in Nat \ {0} /\ BuiltMaxFileSize \in Nat
  /\ ChunkCountMax \in 1 .. 255
<1>1. BuildParameters["master"] \in Parameters
  BY ThermitAssumption DEF Role
<1>2. BuiltChunkSize \in UInt16 \ {0} /\ BuiltMaxFileSize \in UInt16
  BY <1>1 DEF Parameters, BuiltChunkSize, BuiltMaxFileSize
<1> QED
  BY <1>2, UInt16Facts, ChunkCountMaxAssumption

LEMMA FactorsCompare ==
  ASSUME NEW c \in Nat \ {0}, NEW a \in Nat, NEW b \in Nat
  PROVE  /\ c * a <= c * b => a <= b
         /\ c * a < c * b => a < b
<1>1. ASSUME a > b PROVE c * a >= c * b + c
  <2>1. PICK d \in Nat : a = b + 1 + d
    <3>1. a - b - 1 \in Nat /\ a = b + 1 + (a - b - 1)
      BY <1>1
    <3> QED
      BY <3>1
  <2>2. c * a = c * b + c + c * d /\ c * d >= 0
    BY <2>1
  <2> QED
    BY <2>2
<1>2. ASSUME a = b PROVE ~(c * a < c * b)
  BY <1>2
<1> QED
  BY <1>1, <1>2

(* A file that fits has between 1 and ChunkCountMax chunks. *)
LEMMA ChunkCountsFit ==
  ASSUME BuiltAlike, NEW size \in 1 .. BuiltMaxFileSize
  PROVE  LET n == DivisionRoundedUp(size, BuiltChunkSize)
         IN n \in 1 .. 255 /\ n % 256 = n
<1> DEFINE c == BuiltChunkSize
           q == size \div c
           r == size % c
<1>1. c \in Nat \ {0} /\ size \in Nat \ {0} /\ ChunkCountMax \in 1 .. 255
  BY BuiltTyped
<1>2. size <= c * ChunkCountMax
  BY <1>1, BuiltTyped DEF BuiltAlike
<1>3. q \in Nat /\ r \in Nat /\ r < c /\ size = c * q + r
  <2> HIDE DEF c
  <2> QED
    BY <1>1
<1>4. DivisionRoundedUp(size, c) = IF r = 0 THEN q ELSE q + 1
  BY DEF DivisionRoundedUp
<1> HIDE DEF c, q, r
<1>5. c * q <= c * ChunkCountMax
  <2>1. c * q \in Nat /\ c * ChunkCountMax \in Nat
    BY <1>1, <1>3
  <2> QED
    BY <1>2, <1>3, <2>1
<1>6. q <= ChunkCountMax
  BY <1>1, <1>3, <1>5, FactorsCompare
<1>7. CASE r = 0
  <2>1. q # 0
    BY <1>1, <1>3, <1>7
  <2> QED
    BY <1>1, <1>3, <1>4, <1>6, <1>7, <2>1 DEF c
<1>8. CASE r # 0
  <2>1. c * q < c * ChunkCountMax
    <3>1. c * q \in Nat /\ c * ChunkCountMax \in Nat
      BY <1>1, <1>3
    <3> QED
      BY <1>2, <1>3, <1>8, <3>1
  <2>2. q < ChunkCountMax
    BY <1>1, <1>3, <2>1, FactorsCompare
  <2> QED
    BY <1>1, <1>3, <1>4, <1>8, <2>2 DEF c
<1> QED
  BY <1>7, <1>8

(* What progressInitialize makes of a file that fits. *)
LEMMA FileThatFits ==
  ASSUME BuiltAlike, NEW params \in Parameters,
         params.chunkSize = BuiltChunkSize, params.maxFileSize = BuiltMaxFileSize,
         NEW size \in Nat
  PROVE  /\ ProgressInitializable(size, params) <=> size \in 1 .. BuiltMaxFileSize
         /\ size \in 1 .. BuiltMaxFileSize =>
              LET n == DivisionRoundedUp(size, BuiltChunkSize)
                  p == ProgressInitialize(size, params)
              IN /\ n \in 1 .. 255
                 /\ p.numberOfChunksNeeded = n /\ p.chunkStatus = 0 .. n - 1
                 /\ p.chunkNo = 0 /\ p.waitForFeedback = FALSE
                 /\ p.running = TRUE
<1>1. ProgressInitializable(size, params) <=> size \in 1 .. BuiltMaxFileSize
  BY BuiltTyped DEF ProgressInitializable
<1>2. ASSUME size \in 1 .. BuiltMaxFileSize
      PROVE LET n == DivisionRoundedUp(size, BuiltChunkSize)
                p == ProgressInitialize(size, params)
            IN /\ n \in 1 .. 255
               /\ p.numberOfChunksNeeded = n /\ p.chunkStatus = 0 .. n - 1
               /\ p.chunkNo = 0 /\ p.waitForFeedback = FALSE
               /\ p.running = TRUE
  <2> DEFINE n == DivisionRoundedUp(size, BuiltChunkSize)
  <2>1. n \in 1 .. 255 /\ n % 256 = n
    BY <1>2, ChunkCountsFit
  <2>2. ProgressInitialize(size, params) =
          [NoProgress EXCEPT !.running              = TRUE,
                             !.fileSize             = size,
                             !.chunkStatus          = 0 .. n - 1,
                             !.numberOfChunksNeeded = n]
    BY <2>1 DEF ProgressInitialize
  <2> HIDE DEF n
  <2>3. ProgressInitialize(size, params) =
          [running              |-> TRUE,
           fileSize             |-> size,
           fileId               |-> 0,
           chunkNo              |-> 0,
           fileName             |-> 0,
           chunkStatus          |-> 0 .. n - 1,
           numberOfChunksNeeded |-> n,
           waitForFeedback      |-> FALSE]
    BY <2>2, Zenon DEF NoProgress, NoName
  <2> QED
    BY <2>1, <2>3 DEF n
<1> QED
  BY <1>1, <1>2

(* Feedback other than "ready" names a dirty chunk of a running record. *)
LEMMA FeedbackNamesDirty ==
  ASSUME NEW p \in Progress, GetFeedback(p) # FEEDBACK_FILE_IS_READY
  PROVE  p.running /\ GetFeedback(p) \in p.chunkStatus
<1>1. p.running /\ DirtyFound(p) /\ GetFeedback(p) = FirstDirty(p)
  BY DEF GetFeedback
<1>2. p.chunkStatus \in SUBSET UInt8 /\ p.chunkStatus # {}
  BY <1>1 DEF Progress, DirtyFound
<1>3. PICK d \in p.chunkStatus : \A c \in p.chunkStatus : d <= c
  BY <1>2, LeastByte
<1> QED
  BY <1>1, <1>2, <1>3 DEF FirstDirty

-----------------------------------------------------------------------------
(* Lemmas about the lines. *)

(* Files that have been opened stay opened, and of the size they are. *)
FilesKept ==
  \A e \in Role : /\ opened'[e] \in Nat /\ opened[e] <= opened'[e]
                  /\ \A k \in 1 .. opened[e] : offered'[e][k] = offered[e][k]

LEMMA FrameStaysGood ==
  ASSUME TypeOK, FilesKept, NEW e \in Role, NEW f \in Frame, GoodFrame(e, f)
  PROVE  GoodFrame(e, f)'
<1>1. Peer(e) \in Role
  BY PeerTyped
<1>2. /\ opened[e] \in Nat /\ opened[Peer(e)] \in Nat
      /\ opened'[e] \in Nat /\ opened'[Peer(e)] \in Nat
      /\ opened[e] <= opened'[e] /\ opened[Peer(e)] <= opened'[Peer(e)]
  BY <1>1 DEF TypeOK, FilesKept
<1>3. \A k \in 1 .. opened[e] : k \in 1 .. opened'[e] /\ Chunks(e, k)' = Chunks(e, k)
  BY <1>2 DEF FilesKept, Chunks
<1>4. \A k \in 1 .. opened[Peer(e)] :
        k \in 1 .. opened'[Peer(e)] /\ offered'[Peer(e)][k] = offered[Peer(e)][k]
  BY <1>1, <1>2 DEF FilesKept
<1>5. f.code = "NEW_FILE_START" =>
        /\ f.payload.name \in 1 .. opened'[Peer(e)]
        /\ f.sndFileId = f.payload.name - 1
        /\ f.payload.size = offered'[Peer(e)][f.payload.name]
  BY <1>4 DEF GoodFrame
<1>6. f.code = "DATA_TRANSFER" /\ f.recFeedback # FEEDBACK_FILE_IS_READY =>
        /\ f.recFileId + 1 \in 1 .. opened'[e]
        /\ f.recFeedback < Chunks(e, f.recFileId + 1)'
  <2> SUFFICES ASSUME f.code = "DATA_TRANSFER", f.recFeedback # FEEDBACK_FILE_IS_READY
               PROVE  /\ f.recFileId + 1 \in 1 .. opened'[e]
                      /\ f.recFeedback < Chunks(e, f.recFileId + 1)'
    OBVIOUS
  <2> DEFINE k == f.recFileId + 1
  <2>1. k \in 1 .. opened[e] /\ f.recFeedback < Chunks(e, k)
    BY DEF GoodFrame
  <2>2. k \in 1 .. opened'[e] /\ Chunks(e, k)' = Chunks(e, k)
    BY <1>3, <2>1
  <2> QED
    BY <2>1, <2>2
<1> QED
  BY <1>5, <1>6 DEF GoodFrame

LEMMA HeadIsGood ==
  ASSUME TypeOK, NEW e \in Role, GoodLine(e), link[e] # <<>>
  PROVE  Head(link[e]) \in Frame /\ GoodFrame(e, Head(link[e]))
<1>1. link[e] \in Seq(Frame)
  BY DEF TypeOK
<1>2. 1 \in DOMAIN link[e] /\ Head(link[e]) = link[e][1] /\ Head(link[e]) \in Frame
  BY <1>1, HeadTailProperties, LenProperties, EmptySeq
<1> QED
  BY <1>2 DEF GoodLine

(* A line grows no bad frame by losing one, or by taking a good one. *)
LEMMA GoodFromGood ==
  ASSUME TypeOK, FilesKept, NEW e \in Role, GoodLine(e),
         \A i \in DOMAIN link'[e] :
           \/ \E j \in DOMAIN link[e] : link'[e][i] = link[e][j]
           \/ \E g \in Frame : link'[e][i] = g /\ GoodFrame(e, g)'
  PROVE  GoodLine(e)'
<1>1. ASSUME NEW i \in DOMAIN link'[e]
      PROVE  \E g \in Frame : link'[e][i] = g /\ GoodFrame(e, g)'
  <2>1. ASSUME NEW j \in DOMAIN link[e], link'[e][i] = link[e][j]
        PROVE  \E g \in Frame : link'[e][i] = g /\ GoodFrame(e, g)'
    <3>1. link[e] \in Seq(Frame)
      BY DEF TypeOK
    <3>2. PICK g \in Frame : g = link[e][j]
      BY <2>1, <3>1, ElementOfSeq, LenProperties
    <3>3. GoodFrame(e, g)
      BY <3>2 DEF GoodLine
    <3>4. GoodFrame(e, g)'
      BY <3>3, FrameStaysGood
    <3> QED
      BY <2>1, <3>2, <3>4
  <2> QED
    BY <1>1, <2>1
<1>2. ASSUME NEW i \in DOMAIN link'[e]
      PROVE  GoodFrame(e, link[e][i])'
  <2>1. PICK g \in Frame : link'[e][i] = g /\ GoodFrame(e, g)'
    BY <1>1, <1>2
  <2> QED
    BY <2>1 DEF GoodFrame
<1> QED
  BY <1>2 DEF GoodLine

LEMMA LineStaysGood ==
  ASSUME TypeOK, FilesKept, NEW e \in Role, GoodLine(e),
         \/ link'[e] = link[e]
         \/ link[e] # <<>> /\ link'[e] = Tail(link[e])
  PROVE  GoodLine(e)'
<1>1. link[e] \in Seq(Frame)
  BY DEF TypeOK
<1>2. ASSUME NEW i \in DOMAIN link'[e]
      PROVE  \E j \in DOMAIN link[e] : link'[e][i] = link[e][j]
  <2>1. CASE link'[e] = link[e]
    BY <1>2, <2>1
  <2>2. CASE link[e] # <<>> /\ link'[e] = Tail(link[e])
    <3> DEFINE s == link[e]
               t == Tail(s)
    <3>1. /\ Len(s) \in Nat \ {0} /\ DOMAIN s = 1 .. Len(s)
          /\ DOMAIN t = 1 .. Len(s) - 1
          /\ \A k \in 1 .. Len(s) - 1 : t[k] = s[k + 1]
      BY <1>1, <2>2, HeadTailProperties, LenProperties, EmptySeq
    <3>2. i \in DOMAIN t /\ link'[e][i] = t[i]
      BY <1>2, <2>2
    <3> HIDE DEF t, s
    <3>3. i + 1 \in DOMAIN s /\ t[i] = s[i + 1]
      BY <3>1, <3>2
    <3> QED
      BY <3>2, <3>3 DEF s
  <2> QED
    BY <2>1, <2>2
<1> QED
  BY <1>2, GoodFromGood

LEMMA LineGrowsGood ==
  ASSUME TypeOK, FilesKept, NEW e \in Role, GoodLine(e),
         NEW f \in Frame, GoodFrame(e, f)', link'[e] = Append(link[e], f)
  PROVE  GoodLine(e)'
<1> DEFINE s == link[e]
           t == Append(s, f)
<1>1. s \in Seq(Frame)
  BY DEF TypeOK
<1>2. /\ Len(s) \in Nat /\ DOMAIN s = 1 .. Len(s)
      /\ DOMAIN t = 1 .. Len(s) + 1
      /\ \A i \in 1 .. Len(s) : t[i] = s[i]
      /\ t[Len(s) + 1] = f
  BY <1>1, AppendProperties, LenProperties
<1>3. ASSUME NEW i \in DOMAIN link'[e]
      PROVE  \/ \E j \in DOMAIN link[e] : link'[e][i] = link[e][j]
             \/ \E g \in Frame : link'[e][i] = g /\ GoodFrame(e, g)'
  <2>1. i \in DOMAIN t /\ link'[e][i] = t[i]
    BY <1>3
  <2> HIDE DEF t, s
  <2>2. (i \in DOMAIN s /\ t[i] = s[i]) \/ t[i] = f
    BY <1>2, <2>1
  <2> QED
    BY <2>1, <2>2 DEF s
<1> QED
  BY <1>3, GoodFromGood

(* A record about a file that is open stays one. *)
LEMMA RecordStands ==
  ASSUME TypeOK, FilesKept, NEW e \in Role, NEW p \in Progress, IsRecordOf(e, p)
  PROVE  IsRecordOf(e, p)'
<1>1. opened[e] \in Nat /\ opened'[e] \in Nat /\ opened[e] <= opened'[e]
  BY DEF TypeOK, FilesKept
<1>2. p.fileName \in 1 .. opened[e]
  BY DEF IsRecordOf
<1>3. p.fileName \in 1 .. opened'[e]
  BY <1>1, <1>2
<1>4. Chunks(e, p.fileName)' = Chunks(e, p.fileName)
  BY <1>2 DEF FilesKept, Chunks
<1> QED
  BY <1>3, <1>4 DEF IsRecordOf

(* A frame that neither negotiates, nor starts a file, nor carries feedback. *)
LEMMA PlainFrameIsGood ==
  ASSUME NEW e \in Role, NEW f \in Frame,
         f.code \notin {"SYNC_PROPOSAL", "NEW_FILE_START", "DATA_TRANSFER"}
  PROVE  GoodFrame(e, f)'
BY DEF GoodFrame

-----------------------------------------------------------------------------
(* What reading a frame leaves as it is. *)
LEMMA ReadingKeepsFiles ==
  ASSUME TypeOK, PlaceInv, NEW e \in Role, HandleIncoming(e)
  PROVE  /\ opened' = opened /\ offered' = offered
         /\ FilesKept /\ OpenedFilesFit'
         /\ \A x \in Role : GoodLine(x)'
<1>1. opened' = opened /\ offered' = offered
  BY DEF HandleIncoming, ReadNothing, WaitForSyncProposal, WaitForSyncResponse,
         WaitForSyncAck, IllegalFrame, HandleDataMessage, StartReception,
         CannotStartReception, RejectReception, ReadsFileStart, Reads, Incoming, files
<1>2. link' = link \/ (link[e] # <<>> /\ link' = [link EXCEPT ![e] = Tail(@)])
  BY DEF HandleIncoming, ReadNothing, WaitForSyncProposal, WaitForSyncResponse,
         WaitForSyncAck, IllegalFrame, HandleDataMessage, StartReception,
         CannotStartReception, RejectReception, ReadsFileStart, Reads
<1>3. FilesKept
  BY <1>1 DEF FilesKept, TypeOK
<1>4. ASSUME NEW x \in Role PROVE GoodLine(x)'
  <2>1. \/ link'[x] = link[x]
        \/ link[x] # <<>> /\ link'[x] = Tail(link[x])
    BY <1>2 DEF TypeOK
  <2> QED
    BY <1>3, <2>1, LineStaysGood DEF PlaceInv
<1> QED
  BY <1>1, <1>3, <1>4 DEF PlaceInv, OpenedFilesFit

LEMMA ReadingKeepsSizes ==
  ASSUME BuiltAlike, TypeOK, PlaceInv, NEW e \in Role, HandleIncoming(e)
  PROVE  SizesStand'
<1>1. CASE WaitForSyncProposal(e)
  <2> DEFINE f == Head(link[e])
             new == FindBestCommonParameterSet(f.payload, parameters[e])
  <2>1. /\ link[e] # <<>> /\ f.code = "SYNC_PROPOSAL"
        /\ parameters' = [parameters EXCEPT ![e] = new]
    BY <1>1 DEF WaitForSyncProposal, Reads
  <2>2. f \in Frame /\ GoodFrame(e, f)
    BY <2>1, HeadIsGood DEF PlaceInv
  <2>3. /\ f.payload.chunkSize = BuiltChunkSize
        /\ f.payload.maxFileSize = BuiltMaxFileSize
        /\ parameters[e].chunkSize = BuiltChunkSize
        /\ parameters[e].maxFileSize = BuiltMaxFileSize
    BY <2>1, <2>2 DEF GoodFrame, PlaceInv, SizesStand
  <2> HIDE DEF f
  <2>4. Min2(BuiltMaxFileSize, BuiltChunkSize * ChunkCountMax) = BuiltMaxFileSize
    <3> DEFINE a == BuiltMaxFileSize
               b == BuiltChunkSize * ChunkCountMax
    <3>1. a \in Nat /\ b \in Nat /\ a <= b
      BY BuiltTyped DEF BuiltAlike
    <3> HIDE DEF a, b
    <3>2. Min2(a, b) = a
      BY <3>1 DEF Min2
    <3> QED
      BY <3>2 DEF a, b
  <2>5. \A n : Min2(n, n) = n
    BY DEF Min2
  <2>6. new.chunkSize = BuiltChunkSize /\ new.maxFileSize = BuiltMaxFileSize
    BY <2>3, <2>4, <2>5, Zenon DEF FindBestCommonParameterSet
  <2> HIDE DEF new
  <2> QED
    BY <2>1, <2>6 DEF TypeOK, PlaceInv, SizesStand
<1>2. CASE ~WaitForSyncProposal(e)
  <2>1. parameters' = parameters
    BY <1>2 DEF HandleIncoming, ReadNothing, WaitForSyncResponse,
         WaitForSyncAck, IllegalFrame, HandleDataMessage, StartReception,
         CannotStartReception, RejectReception, ReadsFileStart, session
  <2> QED
    BY <2>1 DEF PlaceInv, SizesStand
<1> QED
  BY <1>1, <1>2

LEMMA ReadingKeepsRx ==
  ASSUME BuiltAlike, TypeOK, PlaceInv, NEW e \in Role, HandleIncoming(e)
  PROVE  ReceiverKnowsItsFile'
<1> DEFINE f == Head(link[e])
           Good(x, p) == p.running =>
             /\ IsRecordOf(Peer(x), p)
             /\ p.chunkStatus \subseteq 0 .. p.numberOfChunksNeeded - 1
<1>1. FilesKept /\ \A x \in Role : rx[x] \in Progress /\ Good(x, rx[x])
  BY ReadingKeepsFiles DEF TypeOK, PlaceInv, ReceiverKnowsItsFile
<1>2. ASSUME NEW p \in Progress, Good(e, p), rx' = [rx EXCEPT ![e] = p]
      PROVE  ReceiverKnowsItsFile'
  <2>1. ASSUME NEW x \in Role PROVE Good(x, rx[x])'
    <3>1. PICK q \in Progress : q = rx'[x] /\ Good(x, q)
      BY <1>1, <1>2 DEF TypeOK
    <3>2. q.running => IsRecordOf(Peer(x), q)'
      BY <1>1, <3>1, RecordStands, PeerTyped
    <3> QED
      BY <3>1, <3>2 DEF IsRecordOf
  <2> QED
    BY <2>1 DEF ReceiverKnowsItsFile
<1>3. CASE rx' = rx
  <2>1. rx' = [rx EXCEPT ![e] = rx[e]]
    BY <1>3 DEF TypeOK
  <2> QED
    BY <1>1, <1>2, <2>1
<1>4. CASE HandleDataMessage(e) /\ ChunkWritten(e, f)
  <2> DEFINE after == ProgressSetChunkDone(rx[e], f.sndChunkNo)
             p == [after EXCEPT !.running = ~~DirtyFound(after)]
  <2>1. rx' = [rx EXCEPT ![e] = p] /\ rx[e].running
    BY <1>4 DEF ChunkWritten, IsForCurrentFile
  <2>2. f \in Frame /\ f.sndChunkNo \in UInt8
    BY <1>4, LineRead, FrameFields DEF HandleDataMessage, Reads, TypeOK
  <2>3. after \in Progress
    BY <1>1, <2>2, SetChunkDoneTyped
  <2>4. /\ after.fileName = rx[e].fileName /\ after.fileId = rx[e].fileId
        /\ after.numberOfChunksNeeded = rx[e].numberOfChunksNeeded
        /\ after.chunkStatus \subseteq rx[e].chunkStatus
    BY <1>1 DEF ProgressSetChunkDone, Progress
  <2> HIDE DEF after
  <2>5. (~~DirtyFound(after)) \in BOOLEAN
    BY DEF DirtyFound
  <2>6. p \in Progress
    BY <2>3, <2>5 DEF Progress
  <2>7. /\ p.fileName = rx[e].fileName /\ p.fileId = rx[e].fileId
        /\ p.numberOfChunksNeeded = rx[e].numberOfChunksNeeded
        /\ p.chunkStatus \subseteq rx[e].chunkStatus
    BY <2>3, <2>4 DEF Progress
  <2> HIDE DEF p
  <2>8. Good(e, p)
    BY <1>1, <2>1, <2>7 DEF IsRecordOf
  <2> QED
    BY <1>2, <2>1, <2>6, <2>8
<1>5. CASE StartReception(e)
  <2> DEFINE size  == f.payload.size
             name  == f.payload.name
             fresh == ProgressInitialize(size, parameters[e])
             n     == DivisionRoundedUp(size, BuiltChunkSize)
             p     == [fresh EXCEPT !.running  = TRUE,
                                    !.fileId   = f.sndFileId,
                                    !.fileName = name]
  <2>1. link[e] # <<>> /\ f.code = "NEW_FILE_START"
    BY <1>5 DEF StartReception, ReadsFileStart, Reads
  <2>2. f \in Frame /\ GoodFrame(e, f)
    BY <2>1, HeadIsGood DEF PlaceInv
  <2>3. f.sndFileId \in UInt8 /\ name \in Nat /\ size \in Nat
    BY <2>1, <2>2, FrameFields DEF FileInfo
  <2>4. /\ name \in 1 .. opened[Peer(e)] /\ f.sndFileId = name - 1
        /\ size = offered[Peer(e)][name]
    BY <2>1, <2>2 DEF GoodFrame
  <2>5. size \in 1 .. BuiltMaxFileSize
    BY <2>4, PeerTyped DEF PlaceInv, OpenedFilesFit
  <2>6. Chunks(Peer(e), name) = n
    BY <2>4 DEF Chunks
  <2>7. /\ parameters[e] \in Parameters
        /\ parameters[e].chunkSize = BuiltChunkSize
        /\ parameters[e].maxFileSize = BuiltMaxFileSize
    BY DEF TypeOK, PlaceInv, SizesStand
  <2>8. /\ ProgressInitializable(size, parameters[e])
        /\ fresh.numberOfChunksNeeded = n /\ fresh.chunkStatus = 0 .. n - 1
    BY <2>3, <2>5, <2>7, FileThatFits
  <2>9. fresh \in Progress
    BY <2>3, <2>7, ProgressInitializeTyped
  <2>10. rx' = [rx EXCEPT ![e] = p]
    BY <1>5, <2>8 DEF StartReception
  <2> HIDE DEF f, size, name, fresh, n
  <2>11. /\ p \in Progress
         /\ p.fileName = name /\ p.fileId = f.sndFileId
         /\ p.numberOfChunksNeeded = n /\ p.chunkStatus = 0 .. n - 1
    BY <2>3, <2>8, <2>9 DEF Progress
  <2> HIDE DEF p
  <2>12. Good(e, p)
    BY <2>4, <2>6, <2>11 DEF IsRecordOf
  <2> QED
    BY <1>2, <2>10, <2>11, <2>12
<1>6. rx' = rx \/ (HandleDataMessage(e) /\ ChunkWritten(e, f)) \/ StartReception(e)
  BY DEF HandleIncoming, ReadNothing, WaitForSyncProposal, WaitForSyncResponse,
         WaitForSyncAck, IllegalFrame, HandleDataMessage, ChunkNotWritten,
         CannotStartReception, RejectReception, ReadsFileStart, transfer
<1> QED
  BY <1>3, <1>4, <1>5, <1>6

(* The sender's record p is about a file of e's, and its place is in it. *)
HasItsPlace(e, p) ==
  p.running => /\ IsRecordOf(e, p)
               /\ p.chunkNo <= p.numberOfChunksNeeded
               /\ p.waitForFeedback <=> p.chunkNo = p.numberOfChunksNeeded

LEMMA PlaceKept ==
  ASSUME TypeOK, PlaceInv, FilesKept, NEW e \in Role,
         NEW p \in Progress, HasItsPlace(e, p)', tx' = [tx EXCEPT ![e] = p]
  PROVE  SenderKnowsItsFile' /\ SenderHasAPlace'
<1>1. ASSUME NEW x \in Role PROVE HasItsPlace(x, tx[x])'
  <2>1. CASE x = e
    <3>1. tx'[x] = p
      BY <2>1 DEF TypeOK
    <3> QED
      BY <2>1, <3>1 DEF HasItsPlace, IsRecordOf
  <2>2. CASE x # e
    <3>1. PICK q \in Progress : q = tx[x] /\ tx'[x] = q
      BY <2>2 DEF TypeOK
    <3>2. HasItsPlace(x, q)
      BY <3>1 DEF HasItsPlace, PlaceInv, SenderKnowsItsFile, SenderHasAPlace
    <3>3. q.running => IsRecordOf(x, q)'
      BY <3>2, RecordStands DEF HasItsPlace
    <3> QED
      BY <3>1, <3>2, <3>3 DEF HasItsPlace, IsRecordOf
  <2> QED
    BY <2>1, <2>2
<1> QED
  BY <1>1 DEF HasItsPlace, SenderKnowsItsFile, SenderHasAPlace

LEMMA PlaceUntouched ==
  ASSUME TypeOK, PlaceInv, FilesKept, tx' = tx
  PROVE  SenderKnowsItsFile' /\ SenderHasAPlace'
<1> DEFINE e == "master"
<1>1. e \in Role /\ tx' = [tx EXCEPT ![e] = tx[e]]
  BY DEF Role, TypeOK
<1>2. PICK q \in Progress : q = tx[e]
  BY <1>1 DEF TypeOK
<1>3. HasItsPlace(e, q)
  BY <1>1, <1>2 DEF HasItsPlace, PlaceInv, SenderKnowsItsFile, SenderHasAPlace
<1>4. q.running => IsRecordOf(e, q)'
  BY <1>1, <1>3, RecordStands DEF HasItsPlace
<1>5. HasItsPlace(e, q)'
  BY <1>3, <1>4 DEF HasItsPlace
<1> HIDE DEF e
<1> QED
  BY <1>1, <1>2, <1>5, PlaceKept

(* Feedback that names a chunk names one of the file it is about. *)
LEMMA ReadingKeepsTx ==
  ASSUME TypeOK, PlaceInv, NEW e \in Role, HandleIncoming(e)
  PROVE  SenderKnowsItsFile' /\ SenderHasAPlace'
<1> DEFINE f == Head(link[e])
<1>1. FilesKept
  BY ReadingKeepsFiles
<1>2. tx[e] \in Progress /\ HasItsPlace(e, tx[e])
  BY DEF TypeOK, HasItsPlace, PlaceInv, SenderKnowsItsFile, SenderHasAPlace
<1>3. CASE tx' = tx
  BY <1>1, <1>3, PlaceUntouched
<1>4. CASE HandleDataMessage(e) /\ tx' # tx
  <2>1. /\ link[e] # <<>> /\ f.code = "DATA_TRANSFER"
        /\ TakeFeedback(e, f)
    BY <1>4 DEF HandleDataMessage, Reads
  <2>2. f \in Frame /\ GoodFrame(e, f)
    BY <2>1, HeadIsGood DEF PlaceInv
  <2>3. f.recFeedback \in UInt8
    BY <2>1, <2>2, FrameFields
  <2> HIDE DEF f
  <2>4. /\ tx[e].running /\ f.recFileId = tx[e].fileId
        /\ \/ tx' = [tx EXCEPT ![e].running = FALSE]
           \/ /\ f.recFeedback # FEEDBACK_FILE_IS_READY
              /\ tx' = [tx EXCEPT ![e] = NextRound(@, f.recFeedback)]
    BY <1>4, <2>1 DEF TakeFeedback
  <2>5. CASE tx' = [tx EXCEPT ![e].running = FALSE]
    <3>1. PICK p \in Progress : p = [tx[e] EXCEPT !.running = FALSE]
      BY <1>2 DEF Progress
    <3>2. ~p.running
      BY <1>2, <3>1 DEF Progress
    <3>3. HasItsPlace(e, p)'
      BY <3>2 DEF HasItsPlace
    <3>4. tx' = [tx EXCEPT ![e] = p]
      BY <2>5, <3>1
    <3> QED
      BY <1>1, <3>3, <3>4, PlaceKept
  <2>6. CASE /\ f.recFeedback # FEEDBACK_FILE_IS_READY
             /\ tx' = [tx EXCEPT ![e] = NextRound(@, f.recFeedback)]
    <3>1. /\ f.recFeedback < Chunks(e, f.recFileId + 1)
          /\ IsRecordOf(e, tx[e])
      BY <1>2, <2>1, <2>2, <2>4, <2>6 DEF GoodFrame, HasItsPlace
    <3>2. f.recFileId + 1 = tx[e].fileName
      <4>1. tx[e].fileId = tx[e].fileName - 1 /\ tx[e].fileName \in Nat
        BY <1>2, <3>1 DEF IsRecordOf, Progress
      <4> QED
        BY <2>4, <4>1
    <3>3. f.recFeedback < tx[e].numberOfChunksNeeded
      BY <3>1, <3>2 DEF IsRecordOf
    <3>4. PICK p \in Progress : p = NextRound(tx[e], f.recFeedback)
      BY <1>2, <2>3, NextRoundTyped
    <3>5. /\ p.waitForFeedback = FALSE /\ p.chunkNo = f.recFeedback
          /\ p.fileName = tx[e].fileName /\ p.fileId = tx[e].fileId
          /\ p.numberOfChunksNeeded = tx[e].numberOfChunksNeeded
      BY <1>2, <3>3, <3>4 DEF NextRound, Progress
    <3>6. IsRecordOf(e, p)
      BY <3>1, <3>5 DEF IsRecordOf
    <3>7. IsRecordOf(e, p)'
      BY <1>1, <3>6, RecordStands
    <3>8. p.chunkNo < p.numberOfChunksNeeded /\ p.chunkNo \in Nat
      BY <2>3, <3>3, <3>5 DEF UInt8
    <3>9. p.numberOfChunksNeeded \in Nat
      BY DEF Progress, UInt8
    <3>10. HasItsPlace(e, p)'
      BY <3>5, <3>7, <3>8, <3>9 DEF HasItsPlace
    <3> QED
      BY <1>1, <2>6, <3>4, <3>10, PlaceKept
  <2> QED
    BY <2>4, <2>5, <2>6
<1>5. tx' = tx \/ HandleDataMessage(e)
  BY DEF HandleIncoming, ReadNothing, WaitForSyncProposal, WaitForSyncResponse,
         WaitForSyncAck, IllegalFrame, StartReception,
         CannotStartReception, RejectReception, ReadsFileStart, transfer
<1> QED
  BY <1>3, <1>4, <1>5

LEMMA ReadingKeepsPlace ==
  ASSUME BuiltAlike, TypeOK, PlaceInv, NEW e \in Role, HandleIncoming(e)
  PROVE  PlaceInv'
<1>1. SizesStand' /\ ReceiverKnowsItsFile' /\ SenderKnowsItsFile' /\ SenderHasAPlace'
  BY ReadingKeepsSizes, ReadingKeepsRx, ReadingKeepsTx
<1>2. OpenedFilesFit' /\ \A x \in Role : GoodLine(x)'
  BY ReadingKeepsFiles
<1> QED
  BY <1>1, <1>2 DEF PlaceInv

-----------------------------------------------------------------------------
(* What is left to show of a step that sends nothing, or a good frame. *)
LEMMA SendingKeepsPlace ==
  ASSUME TypeOK, PlaceInv, NEW e \in Role,
         FilesKept, OpenedFilesFit', parameters' = parameters, rx' = rx,
         SenderKnowsItsFile', SenderHasAPlace',
         \/ link' = link
         \/ \E f \in Frame : /\ link' = [link EXCEPT ![Peer(e)] = Append(@, f)]
                             /\ GoodFrame(Peer(e), f)'
  PROVE  PlaceInv'
<1>1. SizesStand'
  BY DEF PlaceInv, SizesStand
<1>2. ASSUME NEW x \in Role PROVE GoodLine(x)'
  <2>1. CASE link'[x] = link[x]
    BY <2>1, LineStaysGood DEF PlaceInv
  <2>2. CASE link'[x] # link[x]
    <3>1. PICK f \in Frame : /\ link' = [link EXCEPT ![Peer(e)] = Append(@, f)]
                             /\ GoodFrame(Peer(e), f)'
      BY <2>2
    <3>2. x = Peer(e) /\ link'[x] = Append(link[x], f)
      BY <2>2, <3>1 DEF TypeOK
    <3>3. GoodFrame(x, f)'
      BY <3>1, <3>2
    <3> QED
      BY <3>2, <3>3, LineGrowsGood DEF PlaceInv
  <2> QED
    BY <2>1, <2>2
<1>3. ReceiverKnowsItsFile'
  <2> SUFFICES ASSUME NEW x \in Role, rx[x].running
               PROVE  /\ IsRecordOf(Peer(x), rx[x])'
                      /\ rx[x].chunkStatus \subseteq 0 .. rx[x].numberOfChunksNeeded - 1
    BY DEF ReceiverKnowsItsFile
  <2>1. PICK q \in Progress : q = rx[x]
    BY DEF TypeOK
  <2>2. /\ IsRecordOf(Peer(x), q)
        /\ rx[x].chunkStatus \subseteq 0 .. rx[x].numberOfChunksNeeded - 1
    BY <2>1 DEF PlaceInv, ReceiverKnowsItsFile
  <2>3. IsRecordOf(Peer(x), q)'
    BY <2>2, RecordStands, PeerTyped
  <2> QED
    BY <2>1, <2>2, <2>3 DEF IsRecordOf
<1> QED
  BY <1>1, <1>2, <1>3 DEF PlaceInv

(* A data frame names, as missing, a chunk of the file being received. *)
LEMMA DataFrameIsGood ==
  ASSUME TypeOK, PlaceInv, FilesKept, NEW e \in Role, NEW chunk,
         NEW f \in Frame, f = DataFrame(e, chunk)
  PROVE  GoodFrame(Peer(e), f)'
<1>1. Peer(e) \in Role
  BY PeerTyped
<1>2. rx[e] \in Progress
  BY DEF TypeOK
<1>3. /\ f.code = "DATA_TRANSFER"
      /\ f.recFeedback = GetFeedback(rx[e])
      /\ f.recFileId = IF rx[e].running THEN rx[e].fileId ELSE 0
  BY DEF DataFrame
<1>4. ASSUME f.recFeedback # FEEDBACK_FILE_IS_READY
      PROVE  /\ f.recFileId + 1 \in 1 .. opened[Peer(e)]
             /\ f.recFeedback < Chunks(Peer(e), f.recFileId + 1)
  <2>1. rx[e].running /\ f.recFeedback \in rx[e].chunkStatus
    BY <1>2, <1>3, <1>4, FeedbackNamesDirty
  <2>2. /\ IsRecordOf(Peer(e), rx[e])
        /\ rx[e].chunkStatus \subseteq 0 .. rx[e].numberOfChunksNeeded - 1
    BY <2>1 DEF PlaceInv, ReceiverKnowsItsFile
  <2>3. rx[e].numberOfChunksNeeded \in Nat /\ rx[e].fileName \in Nat
    BY <1>2 DEF Progress, UInt8
  <2>4. f.recFeedback < rx[e].numberOfChunksNeeded
    BY <2>1, <2>2, <2>3
  <2>5. f.recFileId + 1 = rx[e].fileName
    BY <1>3, <2>1, <2>2, <2>3 DEF IsRecordOf
  <2> QED
    BY <2>2, <2>4, <2>5 DEF IsRecordOf
<1>5. GoodFrame(Peer(e), f)
  BY <1>3, <1>4 DEF GoodFrame
<1> QED
  BY <1>1, <1>5, FrameStaysGood

(* The steps that leave the files and the records of both transfers alone. *)
LEMMA TalkKeepsPlace ==
  ASSUME TypeOK, PlaceInv, NEW e \in Role,
         \/ SendSyncProposal(e) \/ SendSyncResponse(e) \/ SendSyncAck(e)
         \/ LeaveOutOfSync(e) \/ AwaitHandshake(e) \/ SendWTF(e)
         \/ SendNoChunk(e) \/ RefuseFile(e) \/ SendEmptyData(e)
  PROVE  PlaceInv'
<1>1. /\ opened' = opened /\ offered' = offered /\ tx' = tx
      /\ rx' = rx /\ parameters' = parameters
  BY DEF SendSyncProposal, SendSyncResponse, SendSyncAck, LeaveOutOfSync,
         InitializeState, AwaitHandshake, SendWTF, SendNoChunk, RefuseFile,
         SendEmptyData, Sends, Outgoing, session, transfer, files
<1>2. FilesKept /\ OpenedFilesFit'
  BY <1>1 DEF FilesKept, TypeOK, PlaceInv, OpenedFilesFit
<1>3. SenderKnowsItsFile' /\ SenderHasAPlace'
  BY <1>1, <1>2, PlaceUntouched
<1>4. Peer(e) \in Role
  BY PeerTyped
<1>5. CASE link' = link
  BY <1>1, <1>2, <1>3, <1>5, SendingKeepsPlace
<1>6. ASSUME NEW f \in Frame, Sends(e, f), GoodFrame(Peer(e), f)'
      PROVE  PlaceInv'
  <2>1. link' = [link EXCEPT ![Peer(e)] = Append(@, f)]
    BY <1>6 DEF Sends
  <2> QED
    BY <1>1, <1>2, <1>3, <1>6, <2>1, SendingKeepsPlace
<1>7. CASE SendSyncProposal(e)
  <2>1. [code |-> "SYNC_PROPOSAL", payload |-> parameters[e]] \in Frame
    BY DEF Frame, TypeOK
  <2>2. PICK f \in Frame : f = [code |-> "SYNC_PROPOSAL", payload |-> parameters[e]]
    BY <2>1
  <2>3. GoodFrame(Peer(e), f)
    BY <2>2 DEF GoodFrame, PlaceInv, SizesStand
  <2>4. GoodFrame(Peer(e), f)'
    BY <1>2, <1>4, <2>3, FrameStaysGood
  <2> QED
    BY <1>6, <1>7, <2>2, <2>4 DEF SendSyncProposal
<1>8. CASE SendSyncResponse(e)
  <2>1. [code |-> "SYNC_RESPONSE", payload |-> parameters[e]] \in Frame
    BY DEF Frame, TypeOK
  <2>2. PICK f \in Frame : f = [code |-> "SYNC_RESPONSE", payload |-> parameters[e]]
    BY <2>1
  <2>3. GoodFrame(Peer(e), f)'
    BY <1>4, <2>2, PlainFrameIsGood
  <2> QED
    BY <1>6, <1>8, <2>2, <2>3 DEF SendSyncResponse
<1>9. ASSUME NEW code \in {"SYNC_ACK", "OUT_OF_SYNC", "WRITE_TERMINATED_FORCEFULLY"},
             Sends(e, [code |-> code])
      PROVE  PlaceInv'
  <2>1. [code |-> code] \in Frame
    BY <1>9 DEF Frame
  <2>2. GoodFrame(Peer(e), [code |-> code])'
    BY <1>4, <1>9, <2>1, PlainFrameIsGood
  <2> QED
    BY <1>6, <1>9, <2>1, <2>2
<1>10. CASE SendSyncAck(e) \/ SendWTF(e)
  BY <1>9, <1>10 DEF SendSyncAck, SendWTF
<1>11. CASE LeaveOutOfSync(e)
  BY <1>5, <1>9, <1>11 DEF LeaveOutOfSync
<1>12. CASE SendEmptyData(e)
  <2>1. DataFrame(e, NoChunk) \in Frame
    BY ChunkTyped, DataFrameTyped
  <2>2. PICK f \in Frame : f = DataFrame(e, NoChunk)
    BY <2>1
  <2>3. GoodFrame(Peer(e), f)'
    BY <1>2, <2>2, DataFrameIsGood
  <2> QED
    BY <1>6, <1>12, <2>2, <2>3 DEF SendEmptyData
<1>13. CASE AwaitHandshake(e) \/ SendNoChunk(e) \/ RefuseFile(e)
  BY <1>5, <1>13 DEF AwaitHandshake, SendNoChunk, RefuseFile
<1> QED
  BY <1>7, <1>8, <1>10, <1>11, <1>12, <1>13

(* The chunk sent was one of the file's; the next is, or the wait begins. *)
LEMMA SendChunkKeepsPlace ==
  ASSUME TypeOK, PlaceInv, NEW e \in Role, SendChunk(e)
  PROVE  PlaceInv'
<1>1. /\ opened' = opened /\ offered' = offered
      /\ rx' = rx /\ parameters' = parameters
      /\ tx' = [tx EXCEPT ![e] = ChunkSent(@)]
      /\ link' = [link EXCEPT ![Peer(e)] = Append(@, DataFrame(e, CurrentChunk(e)))]
      /\ tx[e].running /\ ~tx[e].waitForFeedback
      /\ tx[e].chunkNo < tx[e].numberOfChunksNeeded
  BY DEF SendChunk, MaySendChunk, ChunkReadable, Sends, Outgoing, session, files
<1>2. FilesKept /\ OpenedFilesFit'
  BY <1>1 DEF FilesKept, TypeOK, PlaceInv, OpenedFilesFit
<1>3. PICK f \in Frame : f = DataFrame(e, CurrentChunk(e))
  BY ChunkTyped, DataFrameTyped
<1>4. GoodFrame(Peer(e), f)'
  BY <1>2, <1>3, DataFrameIsGood
<1>5. SenderKnowsItsFile' /\ SenderHasAPlace'
  <2>1. tx[e] \in Progress /\ IsRecordOf(e, tx[e])
    BY <1>1 DEF TypeOK, PlaceInv, SenderKnowsItsFile
  <2>2. PICK p \in Progress : p = ChunkSent(tx[e])
    BY <1>1, <2>1, ChunkSentTyped
  <2>3. /\ p.fileName = tx[e].fileName /\ p.fileId = tx[e].fileId
        /\ p.numberOfChunksNeeded = tx[e].numberOfChunksNeeded
        /\ p.chunkNo = tx[e].chunkNo + 1
        /\ p.waitForFeedback <=> tx[e].chunkNo + 1 >= tx[e].numberOfChunksNeeded
    BY <1>1, <2>1, <2>2 DEF ChunkSent, Progress
  <2>4. tx[e].chunkNo \in Nat /\ tx[e].numberOfChunksNeeded \in Nat
    BY <2>1 DEF Progress, UInt8
  <2>5. /\ p.chunkNo <= p.numberOfChunksNeeded
        /\ p.waitForFeedback <=> p.chunkNo = p.numberOfChunksNeeded
    BY <1>1, <2>3, <2>4
  <2>6. IsRecordOf(e, p)
    BY <2>1, <2>3 DEF IsRecordOf
  <2>7. IsRecordOf(e, p)'
    BY <1>2, <2>6, RecordStands
  <2>8. HasItsPlace(e, p)'
    BY <2>5, <2>7 DEF HasItsPlace
  <2> QED
    BY <1>1, <1>2, <2>2, <2>8, PlaceKept
<1> QED
  BY <1>1, <1>2, <1>3, <1>4, <1>5, SendingKeepsPlace

LEMMA SmallModulo ==
  ASSUME NEW a \in Nat, NEW b \in Nat \ {0}, a < b
  PROVE  a % b = a
OBVIOUS

(* A file is started only if it fits, and under an id of its own. *)
LEMMA SendFileInfoKeepsPlace ==
  ASSUME BuiltAlike, NoIdTwice, TypeOK, PlaceInv, NEW e \in Role, SendFileInfo(e)
  PROVE  PlaceInv'
<1> DEFINE name  == opened[e] + 1
           size  == NextFileSize(e)
           id    == NextOutgoingFileId(e)
           info  == [code |-> "NEW_FILE_START", sndFileId |-> id,
                     payload |-> [name |-> name, size |-> size]]
           fresh == ProgressInitialize(size, parameters[e])
           n     == DivisionRoundedUp(size, BuiltChunkSize)
           p     == [fresh EXCEPT !.fileId = id, !.fileName = name]
<1>1. /\ offered' = offered /\ rx' = rx /\ parameters' = parameters
      /\ opened' = [opened EXCEPT ![e] = name]
      /\ tx' = [tx EXCEPT ![e] = p]
      /\ link' = [link EXCEPT ![Peer(e)] = Append(@, info)]
      /\ opened[e] < Len(offered[e])
      /\ ProgressInitializable(size, parameters[e])
  BY DEF SendFileInfo, FileAvailable, Sends, Outgoing, session
<1>2. opened[e] \in Nat /\ name \in Nat \ {0}
  BY DEF TypeOK
<1>3. offered[e] \in Seq(FileSizes) /\ Len(offered[e]) \in Nat
  BY LenProperties DEF TypeOK
<1>4. size \in Nat /\ size = offered[e][name]
  <2>1. name \in 1 .. Len(offered[e])
    BY <1>1, <1>2, <1>3
  <2>2. offered[e][name] \in FileSizes
    BY <1>3, <2>1, ElementOfSeq
  <2> QED
    BY <2>2, ThermitAssumption DEF NextFileSize
<1>5. id = opened[e] /\ id \in UInt8
  <2>1. FileIdMax \in 1 .. 255 /\ MaxFiles \in Nat /\ MaxFiles <= FileIdMax
    BY FileIdMaxAssumption, ThermitAssumption DEF NoIdTwice
  <2>2. Len(offered[e]) <= MaxFiles
    BY DEF PlaceInv, OpenedFilesFit
  <2>3. opened[e] < FileIdMax
    <3>1. opened[e] < Len(offered[e])
      BY <1>1
    <3> QED
      BY <1>2, <1>3, <2>1, <2>2, <3>1
  <2>4. opened[e] % FileIdMax = opened[e]
    BY <1>2, <2>1, <2>3, SmallModulo
  <2> QED
    BY <1>2, <2>1, <2>3, <2>4 DEF NextOutgoingFileId, UInt8
<1>6. /\ parameters[e] \in Parameters
      /\ parameters[e].chunkSize = BuiltChunkSize
      /\ parameters[e].maxFileSize = BuiltMaxFileSize
  BY DEF TypeOK, PlaceInv, SizesStand
<1>7. size \in 1 .. BuiltMaxFileSize
  BY <1>1, <1>4, <1>6, FileThatFits
<1>8. /\ n \in 1 .. 255 /\ fresh.numberOfChunksNeeded = n
      /\ fresh.chunkNo = 0 /\ fresh.waitForFeedback = FALSE
  BY <1>4, <1>6, <1>7, FileThatFits
<1>9. fresh \in Progress
  BY <1>4, <1>6, ProgressInitializeTyped
<1> HIDE DEF size, id, fresh, n
<1>10. /\ p \in Progress
       /\ p.fileName = name /\ p.fileId = id /\ p.numberOfChunksNeeded = n
       /\ p.chunkNo = 0 /\ p.waitForFeedback = FALSE
  BY <1>2, <1>5, <1>8, <1>9 DEF Progress
<1> HIDE DEF name, p
<1>11. name = opened[e] + 1
  BY DEF name
<1>12. FilesKept
  BY <1>1, <1>2, <1>11 DEF FilesKept, TypeOK
<1>13. OpenedFilesFit'
  <2> SUFFICES ASSUME NEW x \in Role
               PROVE  /\ opened'[x] <= Len(offered'[x]) /\ Len(offered'[x]) <= MaxFiles
                      /\ \A k \in 1 .. opened'[x] : offered'[x][k] \in 1 .. BuiltMaxFileSize
    BY DEF OpenedFilesFit
  <2>1. CASE x = e
    <3>1. opened'[e] = name
      BY <1>1 DEF TypeOK
    <3>2. name <= Len(offered[e]) /\ Len(offered[e]) <= MaxFiles
      BY <1>1, <1>2, <1>3, <1>11 DEF PlaceInv, OpenedFilesFit
    <3>3. ASSUME NEW k \in 1 .. name PROVE offered[e][k] \in 1 .. BuiltMaxFileSize
      <4>1. k = name \/ k \in 1 .. opened[e]
        BY <1>2, <1>11
      <4> QED
        BY <1>4, <1>7, <4>1 DEF PlaceInv, OpenedFilesFit
    <3> QED
      BY <1>1, <2>1, <3>1, <3>2, <3>3
  <2>2. CASE x # e
    BY <1>1, <2>2 DEF TypeOK, PlaceInv, OpenedFilesFit
  <2> QED
    BY <2>1, <2>2
<1>14. opened'[e] = name
  BY <1>1 DEF TypeOK
<1>15. SenderKnowsItsFile' /\ SenderHasAPlace'
  <2>1. PICK q \in Progress : q = p
    BY <1>10
  <2>2. Chunks(e, q.fileName)' = n
    BY <1>1, <1>4, <1>10, <2>1 DEF Chunks, n
  <2>3. q.fileName = name /\ q.fileId = name - 1 /\ q.numberOfChunksNeeded = n
    BY <1>2, <1>5, <1>10, <1>11, <2>1
  <2>4. name \in 1 .. opened'[e]
    BY <1>2, <1>14
  <2>5. IsRecordOf(e, q)'
    BY <2>2, <2>3, <2>4 DEF IsRecordOf
  <2>6. HasItsPlace(e, q)'
    BY <1>8, <1>10, <2>1, <2>5 DEF HasItsPlace
  <2> QED
    BY <1>1, <1>12, <2>1, <2>6, PlaceKept
<1>16. PICK f \in Frame : f = info
  BY <1>2, <1>4, <1>5, <1>11 DEF Frame, FileInfo
<1>17. GoodFrame(Peer(e), f)'
  <2>1. Peer(Peer(e)) = e
    BY PeerTyped
  <2>2. /\ f.code = "NEW_FILE_START" /\ f.sndFileId = id
        /\ f.payload.name = name /\ f.payload.size = size
    BY <1>16
  <2>3. name \in 1 .. opened'[e] /\ id = name - 1 /\ size = offered'[e][name]
    BY <1>1, <1>2, <1>4, <1>5, <1>11, <1>14
  <2> QED
    BY <2>1, <2>2, <2>3 DEF GoodFrame
<1> QED
  BY <1>1, <1>12, <1>13, <1>15, <1>16, <1>17, SendingKeepsPlace

LEMMA EnvironmentKeepsPlace ==
  ASSUME TypeOK, PlaceInv, NEW e \in Role, OfferFile(e) \/ LoseFrame(e)
  PROVE  PlaceInv'
<1>1. /\ opened' = opened /\ tx' = tx /\ rx' = rx /\ parameters' = parameters
  BY DEF OfferFile, LoseFrame, session, transfer, files
<1>2. FilesKept /\ OpenedFilesFit'
  <2>1. CASE offered' = offered
    BY <1>1, <2>1 DEF FilesKept, TypeOK, PlaceInv, OpenedFilesFit
  <2>2. CASE OfferFile(e)
    <3>1. PICK size \in FileSizes : offered' = [offered EXCEPT ![e] = Append(@, size)]
      BY <2>2 DEF OfferFile
    <3> DEFINE s == offered[e]
               t == Append(s, size)
    <3>2. s \in Seq(FileSizes) /\ Len(s) \in Nat /\ Len(s) < MaxFiles /\ MaxFiles \in Nat
      BY <2>2, LenProperties, ThermitAssumption DEF OfferFile, TypeOK
    <3>3. Len(t) = Len(s) + 1 /\ \A k \in 1 .. Len(s) : t[k] = s[k]
      BY <3>2, AppendProperties
    <3>4. /\ offered'[e] = t
          /\ \A x \in Role : x # e => offered'[x] = offered[x]
      BY <3>1 DEF TypeOK
    <3>5. opened[e] \in Nat /\ opened[e] <= Len(s)
      BY DEF TypeOK, PlaceInv, OpenedFilesFit
    <3>6. \A k \in 1 .. opened[e] : t[k] = s[k]
      BY <3>2, <3>3, <3>5
    <3>7. Len(t) <= MaxFiles /\ opened[e] <= Len(t)
      BY <3>2, <3>3, <3>5
    <3> HIDE DEF t
    <3>8. \A x \in Role : \A k \in 1 .. opened[x] : offered'[x][k] = offered[x][k]
      BY <3>4, <3>6
    <3>9. FilesKept
      <4>1. \A x \in Role : opened'[x] \in Nat /\ opened[x] <= opened'[x]
        BY <1>1 DEF TypeOK
      <4> QED
        BY <3>8, <4>1 DEF FilesKept
    <3>10. OpenedFilesFit'
      BY <1>1, <3>4, <3>7, <3>8 DEF PlaceInv, OpenedFilesFit
    <3> QED
      BY <3>9, <3>10
  <2> QED
    BY <2>1, <2>2 DEF LoseFrame
<1>3. SenderKnowsItsFile' /\ SenderHasAPlace'
  BY <1>1, <1>2, PlaceUntouched
<1>4. CASE OfferFile(e)
  BY <1>1, <1>2, <1>3, <1>4, SendingKeepsPlace DEF OfferFile
<1>5. CASE LoseFrame(e)
  <2>1. ASSUME NEW x \in Role PROVE GoodLine(x)'
    <3>1. \/ link'[x] = link[x]
          \/ link[x] # <<>> /\ link'[x] = Tail(link[x])
      BY <1>5 DEF LoseFrame, TypeOK
    <3> QED
      BY <1>2, <3>1, LineStaysGood DEF PlaceInv
  <2>2. offered' = offered
    BY <1>5 DEF LoseFrame
  <2>3. SizesStand' /\ ReceiverKnowsItsFile'
    BY <1>1, <2>2 DEF PlaceInv, SizesStand, ReceiverKnowsItsFile, IsRecordOf, Chunks
  <2> QED
    BY <1>2, <1>3, <2>1, <2>3 DEF PlaceInv
<1> QED
  BY <1>4, <1>5

LEMMA InitHasPlace == BuiltAlike /\ Init => PlaceInv
<1> SUFFICES ASSUME BuiltAlike, Init PROVE PlaceInv
  OBVIOUS
<1>1. SizesStand
  BY DEF Init, BuiltAlike, SizesStand
<1>2. OpenedFilesFit
  <2>1. \A e \in Role : opened[e] = 0 /\ Len(offered[e]) = 0
    BY EmptySeq DEF Init
  <2> QED
    BY <2>1, ThermitAssumption DEF OpenedFilesFit
<1>3. \A e \in Role : GoodLine(e)
  <2>1. \A e \in Role : DOMAIN link[e] = {}
    BY DEF Init
  <2> QED
    BY <2>1 DEF GoodLine
<1>4. \A e \in Role : ~tx[e].running /\ ~rx[e].running
  BY DEF Init, NoProgress
<1> QED
  BY <1>1, <1>2, <1>3, <1>4
  DEF PlaceInv, ReceiverKnowsItsFile, SenderKnowsItsFile, SenderHasAPlace

LEMMA StepKeepsPlace ==
  BuiltAlike /\ NoIdTwice /\ TypeOK /\ PlaceInv /\ [Next]_vars => PlaceInv'
<1> SUFFICES ASSUME BuiltAlike, NoIdTwice, TypeOK, PlaceInv, [Next]_vars PROVE PlaceInv'
  OBVIOUS
<1>1. ASSUME NEW e \in Role, HandleOutgoing(e) PROVE PlaceInv'
  BY <1>1, TalkKeepsPlace, SendChunkKeepsPlace, SendFileInfoKeepsPlace DEF HandleOutgoing
<1>2. CASE Next
  <2>1. PICK e \in Role : Step(e) \/ OfferFile(e) \/ LoseFrame(e)
    BY <1>2 DEF Next
  <2> QED
    BY <1>1, <2>1, ReadingKeepsPlace, EnvironmentKeepsPlace DEF Step
<1>3. CASE UNCHANGED vars
  BY <1>3 DEF vars, session, transfer, files, PlaceInv, SizesStand, OpenedFilesFit,
     GoodLine, GoodFrame, Chunks, IsRecordOf, ReceiverKnowsItsFile, SenderKnowsItsFile,
     SenderHasAPlace
<1> QED
  BY <1>2, <1>3

(***************************************************************************)
(* The sender keeps its place: whatever is lost, refused or overtaken, the *)
(* next chunk is one of the file's, or all are sent and feedback is        *)
(* awaited; feedback never sends it past the end (handleDataMessage        *)
(* 1073-1090, updateOutGoingState 1165-1180).  The ends are built alike,   *)
(* and no file id is used twice: the ids wrap at FileIdMax, and feedback   *)
(* about a file of the same id could name a chunk this one does not have.  *)
(***************************************************************************)
THEOREM SenderKeepsItsPlace ==
  ASSUME BuiltAlike, NoIdTwice
  PROVE  Spec => []SenderHasAPlace
<1>1. Init => TypeOK /\ PlaceInv
  BY InitTyped, InitHasPlace
<1>2. TypeOK /\ PlaceInv /\ [Next]_vars => (TypeOK /\ PlaceInv)'
  BY StepTyped, StepKeepsPlace
<1>3. TypeOK /\ PlaceInv => SenderHasAPlace
  BY DEF PlaceInv
<1> QED
  BY <1>1, <1>2, <1>3, PTL DEF Spec
=============================================================================
