------------------------------ MODULE Thermit ------------------------------
(***************************************************************************)
(* Two instances of thermit.c, a master and a slave, on one serial line.   *)
(*                                                                         *)
(* An endpoint's mStep() is handleIncoming() followed by handleOutgoing(). *)
(* Each half is a step here: phase says which half comes next, so that the *)
(* peer may run between the two.  The first half takes at most one frame   *)
(* off the line and handles it; the second sends at most one.  What the    *)
(* application, the file system and the line do around them (offer a file, *)
(* refuse to open, read or write, damage a frame) are choices of the       *)
(* environment.                                                            *)
(***************************************************************************)
EXTENDS Sequences, ThermitParameters, ThermitProgress

CONSTANTS
  BuildParameters,  \* the Parameters each endpoint is built with
  EasyMode,         \* THERMIT_EASY_MODE: only the master sends files
  LockStep,         \* TRUE: the endpoints step in turn (half-duplex line)
  FileSizes,        \* the sizes of the files the applications offer
  Senders,          \* the endpoints whose application offers files
  IoFaults,         \* the file operations that may fail
  LossyCodes,       \* the frames that noise may destroy
  MaxFiles,         \* bound: files offered at each sender
  MaxLosses,        \* bound: frames destroyed
  QueueMax          \* bound: frames under way in one direction (see HasRoom)

Role == {"master", "slave"}
Peer(e) == IF e = "master" THEN "slave" ELSE "master"

FCode == {"SYNC_PROPOSAL", "SYNC_RESPONSE", "SYNC_ACK", "DATA_TRANSFER",
          "NEW_FILE_START", "WRITE_TERMINATED_FORCEFULLY", "OUT_OF_SYNC"}

ASSUME ThermitAssumption ==
  /\ BuildParameters \in [Role -> Parameters]
  /\ EasyMode \in BOOLEAN /\ LockStep \in BOOLEAN
  /\ FileSizes \subseteq Nat
  /\ Senders \subseteq Role
  /\ IoFaults \subseteq {"open", "read", "write"}
  /\ LossyCodes \subseteq FCode
  /\ MaxFiles \in Nat /\ MaxLosses \in Nat /\ QueueMax \in Nat \ {0}

VARIABLES
  phase,            \* the half of mStep() each endpoint runs next
  turn,             \* with LockStep, the endpoint whose step it is
  state,            \* thermitState_t
  proposalReceived,
  ackReceived,
  sendWTF,
  parameters,
  tx, rx,           \* txProgress, rxProgress
  link,             \* link[e]: the frames on their way to e
  losses,           \* frames destroyed so far
  offered,          \* offered[e]: sizes of the files e's application offers
  opened,           \* opened[e]: how many of them e has opened for sending
  storage,          \* storage[e]: the file e writes what it receives to
  received,         \* files e closed as "successfully received"
  confirmed         \* files e closed as "sending finished successfully"

session  == <<state, proposalReceived, ackReceived, parameters>>
transfer == <<tx, rx, sendWTF>>
files    == <<opened, storage, received, confirmed>>
vars     == <<phase, turn, session, transfer, files, link, losses, offered>>

State == {"SYNC_FIRST", "SYNC_SECOND", "RUNNING", "OUT_OF_SYNC"}

(***************************************************************************)
(* Frames.  Of the header each code carries the fields its receiver reads. *)
(* A chunk is length bytes of file name, beginning at byte from.           *)
(***************************************************************************)
Chunk    == [name : Nat, from : Nat, length : Nat]
NoChunk  == [name |-> NoName, from |-> 0, length |-> 0]
FileInfo == [name : Nat, size : Nat]

Frame ==
  [code : {"SYNC_PROPOSAL", "SYNC_RESPONSE"}, payload : Parameters]
  \cup [code : {"SYNC_ACK", "OUT_OF_SYNC", "WRITE_TERMINATED_FORCEFULLY"}]
  \cup [code : {"NEW_FILE_START"}, sndFileId : UInt8, payload : FileInfo]
  \cup [code : {"DATA_TRANSFER"}, recFileId : UInt8, recFeedback : UInt8,
        sndFileId : UInt8, sndChunkNo : UInt8, payload : Chunk]

(* A byte stored: byte number byte of file name, at offset at. *)
StoredByte == [at : Nat, name : Nat, byte : Nat]

Storage  == [openedAs : Nat, written : SUBSET StoredByte]
Received == [name : Nat, storedAs : Nat, intact : BOOLEAN]

TypeOK ==
  /\ phase \in [Role -> {"in", "out"}]
  /\ turn \in Role
  /\ state \in [Role -> State]
  /\ proposalReceived \in [Role -> BOOLEAN]
  /\ ackReceived \in [Role -> BOOLEAN]
  /\ sendWTF \in [Role -> BOOLEAN]
  /\ parameters \in [Role -> Parameters]
  /\ tx \in [Role -> Progress]
  /\ rx \in [Role -> Progress]
  /\ link \in [Role -> Seq(Frame)]
  /\ losses \in Nat
  /\ offered \in [Role -> Seq(FileSizes)]
  /\ opened \in [Role -> Nat]
  /\ storage \in [Role -> Storage]
  /\ received \in [Role -> SUBSET Received]
  /\ confirmed \in [Role -> SUBSET Nat]

-----------------------------------------------------------------------------
(* thermitNew: a cleared instance with its initial parameters, in the first *)
(* state of the handshake.                                                  *)
Init ==
  /\ phase = [e \in Role |-> "in"]
  /\ turn = "master"
  /\ state = [e \in Role |-> "SYNC_FIRST"]
  /\ proposalReceived = [e \in Role |-> FALSE]
  /\ ackReceived = [e \in Role |-> FALSE]
  /\ sendWTF = [e \in Role |-> FALSE]
  /\ parameters = BuildParameters
  /\ tx = [e \in Role |-> NoProgress]
  /\ rx = [e \in Role |-> NoProgress]
  /\ link = [e \in Role |-> <<>>]
  /\ losses = 0
  /\ offered = [e \in Role |-> <<>>]
  /\ opened = [e \in Role |-> 0]
  /\ storage = [e \in Role |-> [openedAs |-> NoName, written |-> {}]]
  /\ received = [e \in Role |-> {}]
  /\ confirmed = [e \in Role |-> {}]

(***************************************************************************)
(* handleIncoming: devRead, parsePacketContent, masterRx or slaveRx.       *)
(***************************************************************************)
MayStep(e, half) == phase[e] = half /\ (LockStep => turn = e)

(* Bound: an endpoint whose peer has QueueMax frames to read waits with its *)
(* step, unless it has as many to read itself.                              *)
HasRoom(e) == Len(link[Peer(e)]) < QueueMax \/ Len(link[e]) >= QueueMax

(* The first half of the step is over; the second comes next. *)
Incoming(e) ==
  /\ MayStep(e, "in") /\ HasRoom(e)
  /\ phase' = [phase EXCEPT ![e] = "out"]
  /\ UNCHANGED <<turn, losses, offered>>

(* devRead has a whole frame and its CRC is right. *)
Reads(e) ==
  /\ Incoming(e)
  /\ link[e] # <<>>
  /\ link' = [link EXCEPT ![e] = Tail(@)]

(* No complete frame yet.  In lockstep the line is given time to deliver. *)
ReadNothing(e) ==
  /\ Incoming(e) /\ Len(link[e]) < QueueMax
  /\ LockStep => link[e] = <<>>
  /\ UNCHANGED <<session, transfer, files, link>>

(* waitForSyncProposal; a new proposal shrinks the slave's own set. *)
WaitForSyncProposal(e) ==
  /\ e = "slave" /\ state[e] = "SYNC_FIRST"
  /\ Reads(e)
  /\ Head(link[e]).code = "SYNC_PROPOSAL"
  /\ parameters' = [parameters EXCEPT
       ![e] = FindBestCommonParameterSet(Head(link[e]).payload, @)]
  /\ proposalReceived' = [proposalReceived EXCEPT ![e] = TRUE]
  /\ UNCHANGED <<state, ackReceived, transfer, files>>

(* waitForSyncResponse: the set the slave answered is compared with what   *)
(* the master would make of it, and not stored.                            *)
WaitForSyncResponse(e) ==
  /\ e = "master" /\ state[e] = "SYNC_FIRST"
  /\ Reads(e)
  /\ Head(link[e]).code = "SYNC_RESPONSE"
  /\ LET params == Head(link[e]).payload
         result == FindBestCommonParameterSet(params, parameters[e])
     IN state' = [state EXCEPT
          ![e] = IF CompareParameterSet(params, result) THEN "SYNC_SECOND" ELSE @]
  /\ UNCHANGED <<proposalReceived, ackReceived, parameters, transfer, files>>

(* waitForSyncAck, with what slaveRx and masterRx do when it returns 0. *)
WaitForSyncAck(e) ==
  /\ state[e] = "SYNC_SECOND"
  /\ Reads(e)
  /\ Head(link[e]).code = "SYNC_ACK"
  /\ IF e = "slave"
     THEN ackReceived' = [ackReceived EXCEPT ![e] = TRUE] /\ UNCHANGED state
     ELSE state' = [state EXCEPT ![e] = "RUNNING"] /\ UNCHANGED ackReceived
  /\ UNCHANGED <<proposalReceived, parameters, transfer, files>>

(* The frames an endpoint expects in a state.  The second half of a step  *)
(* always ends OUT_OF_SYNC, so that no frame is read in that state.       *)
Expected(e) ==
  CASE state[e] = "SYNC_FIRST"  ->
         {IF e = "master" THEN "SYNC_RESPONSE" ELSE "SYNC_PROPOSAL"}
    [] state[e] = "SYNC_SECOND" -> {"SYNC_ACK"}
    [] state[e] = "RUNNING"     -> {"DATA_TRANSFER", "NEW_FILE_START"}
    [] OTHER                    -> FCode

(***************************************************************************)
(* "all other function codes are considered illegal": OUT_OF_SYNC.  But in *)
(* SYNC_SECOND waitForSyncAck returns what changeState returned, 0, and    *)
(* its callers go on as if the acknowledgement had arrived.                *)
(***************************************************************************)
IllegalFrame(e) ==
  /\ Reads(e)
  /\ Head(link[e]).code \notin Expected(e)
  /\ LET takenForAck == state[e] = "SYNC_SECOND"
     IN /\ state' = [state EXCEPT
             ![e] = IF takenForAck /\ e = "master" THEN "RUNNING" ELSE "OUT_OF_SYNC"]
        /\ ackReceived' = [ackReceived EXCEPT ![e] = @ \/ (takenForAck /\ e = "slave")]
  /\ UNCHANGED <<proposalReceived, parameters, transfer, files>>

(***************************************************************************)
(* handleDataMessage, receiving side: a chunk of the file being received   *)
(* is written at chunkNo times the receiver's chunk size and marked done;  *)
(* the file is closed when no dirty chunk is found.                        *)
(***************************************************************************)
(* Mutant: the id of the file is not looked at. *)
IsForAnyFile(e, f) == rx[e].running

IsForCurrentFile(e, f) == rx[e].running /\ f.sndFileId = rx[e].fileId

(* Mutant: the file is not positioned before it is written. *)
FileWriteAtStart(written, offset, p) ==
  {b \in written : b.at >= p.length}
  \cup {[at |-> o, name |-> p.name, byte |-> p.from + o] : o \in 0 .. p.length - 1}

(* The bytes that writing chunk p at offset leaves in the file. *)
FileWrite(written, offset, p) ==
  LET last == offset + p.length - 1
  IN {b \in written : b.at \notin offset .. last}
     \cup {[at |-> o, name |-> p.name, byte |-> p.from + o - offset] : o \in offset .. last}

WholeFile(name, size) == {[at |-> o, name |-> name, byte |-> o] : o \in 0 .. size - 1}

ChunkWritten(e, f) ==
  LET written == FileWrite(storage[e].written,
                           f.sndChunkNo * parameters[e].chunkSize, f.payload)
      after   == ProgressSetChunkDone(rx[e], f.sndChunkNo)
      ready   == ~DirtyFound(after)
  IN /\ IsForCurrentFile(e, f)
     /\ storage' = [storage EXCEPT ![e].written = written]
     /\ rx' = [rx EXCEPT ![e] = [after EXCEPT !.running = ~ready]]
     /\ received' =
          IF ready
          THEN [received EXCEPT ![e] = @ \cup
                 {[name     |-> rx[e].fileName,
                   storedAs |-> storage[e].openedAs,
                   intact   |-> written = WholeFile(rx[e].fileName, rx[e].fileSize)]}]
          ELSE received

ChunkNotWritten(e, f) ==
  /\ IsForCurrentFile(e, f) => "write" \in IoFaults
  /\ UNCHANGED <<rx, storage, received>>

(***************************************************************************)
(* handleDataMessage, sending side: the feedback of a frame that names the *)
(* file being sent ends the transfer, or starts the next round at the      *)
(* chunk it names.                                                         *)
(***************************************************************************)
TakeFeedback(e, f) ==
  IF ~(tx[e].running /\ f.recFileId = tx[e].fileId)
  THEN UNCHANGED <<tx, confirmed>>
  ELSE IF f.recFeedback = FEEDBACK_FILE_IS_READY
  THEN /\ tx' = [tx EXCEPT ![e].running = FALSE]
       /\ confirmed' = [confirmed EXCEPT ![e] = @ \cup {tx[e].fileName}]
  ELSE /\ tx' = IF tx[e].waitForFeedback
                THEN [tx EXCEPT ![e] = NextRound(@, f.recFeedback)]
                ELSE tx
       /\ UNCHANGED confirmed

HandleDataMessage(e) ==
  /\ state[e] = "RUNNING"
  /\ Reads(e)
  /\ LET f == Head(link[e])
     IN /\ f.code = "DATA_TRANSFER"
        /\ ChunkWritten(e, f) \/ ChunkNotWritten(e, f)
        /\ TakeFeedback(e, f)
  /\ UNCHANGED <<session, sendWTF, opened>>

(***************************************************************************)
(* NEW_FILE_START.  The file is opened under the name left in rxProgress   *)
(* by the file before, and only then is the name of the new one stored.    *)
(* When progressInitialize refuses the size, the old progress stays, and   *)
(* reception starts all the same.                                          *)
(***************************************************************************)
ReadsFileStart(e) ==
  /\ state[e] = "RUNNING"
  /\ Reads(e)
  /\ Head(link[e]).code = "NEW_FILE_START"
  /\ UNCHANGED <<session, tx, opened, received, confirmed>>

StartReception(e) ==
  /\ ReadsFileStart(e)
  /\ ~rx[e].running
  /\ LET f     == Head(link[e])
         size  == f.payload.size
         fresh == IF ProgressInitializable(size, parameters[e])
                  THEN ProgressInitialize(size, parameters[e])
                  ELSE rx[e]
     IN rx' = [rx EXCEPT ![e] = [fresh EXCEPT !.running  = TRUE,
                                              !.fileId   = f.sndFileId,
                                              !.fileName = f.payload.name]]
  /\ storage' = [storage EXCEPT ![e] = [openedAs |-> rx[e].fileName, written |-> {}]]
  /\ UNCHANGED sendWTF

(* "opening new rx file failed": nobody is told. *)
CannotStartReception(e) ==
  /\ ReadsFileStart(e)
  /\ ~rx[e].running /\ "open" \in IoFaults
  /\ UNCHANGED <<rx, storage, sendWTF>>

(* "remote tried to start new file during transfer" *)
RejectReception(e) ==
  /\ ReadsFileStart(e)
  /\ rx[e].running
  /\ sendWTF' = [sendWTF EXCEPT ![e] = TRUE]
  /\ UNCHANGED <<rx, storage>>

HandleIncoming(e) ==
  \/ ReadNothing(e)
  \/ WaitForSyncProposal(e) \/ WaitForSyncResponse(e) \/ WaitForSyncAck(e)
  \/ IllegalFrame(e)
  \/ HandleDataMessage(e)
  \/ StartReception(e) \/ CannotStartReception(e) \/ RejectReception(e)

-----------------------------------------------------------------------------
(***************************************************************************)
(* handleOutgoing: masterTx or slaveTx, then devWrite if a frame was made. *)
(* In lockstep the turn passes to the peer with it.                        *)
(***************************************************************************)
Outgoing(e) ==
  /\ MayStep(e, "out")
  /\ phase' = [phase EXCEPT ![e] = "in"]
  /\ turn' = IF LockStep THEN Peer(e) ELSE turn
  /\ UNCHANGED <<losses, offered>>

Sends(e, frame) ==
  /\ Outgoing(e)
  /\ link' = [link EXCEPT ![Peer(e)] = Append(@, frame)]

SendSyncProposal(e) ==
  /\ e = "master" /\ state[e] = "SYNC_FIRST"
  /\ Sends(e, [code |-> "SYNC_PROPOSAL", payload |-> parameters[e]])
  /\ UNCHANGED <<session, transfer, files>>

SendSyncResponse(e) ==
  /\ e = "slave" /\ state[e] = "SYNC_FIRST" /\ proposalReceived[e]
  /\ Sends(e, [code |-> "SYNC_RESPONSE", payload |-> parameters[e]])
  /\ state' = [state EXCEPT ![e] = "SYNC_SECOND"]
  /\ UNCHANGED <<proposalReceived, ackReceived, parameters, transfer, files>>

(* Mutant: the slave answers the acknowledgement without going on. *)
SendSyncAckStay(e) ==
  /\ state[e] = "SYNC_SECOND"
  /\ e = "slave" => ackReceived[e]
  /\ Sends(e, [code |-> "SYNC_ACK"])
  /\ UNCHANGED <<session, transfer, files>>

(* The master repeats its acknowledgement; the slave's ends its handshake. *)
SendSyncAck(e) ==
  /\ state[e] = "SYNC_SECOND"
  /\ e = "slave" => ackReceived[e]
  /\ Sends(e, [code |-> "SYNC_ACK"])
  /\ state' = [state EXCEPT ![e] = IF e = "slave" THEN "RUNNING" ELSE @]
  /\ UNCHANGED <<proposalReceived, ackReceived, parameters, transfer, files>>

(* initializeState: the transfers and the parameters are left as they are. *)
InitializeState(e) ==
  /\ state' = [state EXCEPT ![e] = "SYNC_FIRST"]
  /\ proposalReceived' = [proposalReceived EXCEPT ![e] = FALSE]
  /\ ackReceived' = [ackReceived EXCEPT ![e] = FALSE]
  /\ UNCHANGED parameters

(* Mutant: the slave is silent, too. *)
LeaveOutOfSyncSilent(e) ==
  /\ state[e] = "OUT_OF_SYNC"
  /\ InitializeState(e)
  /\ Outgoing(e)
  /\ UNCHANGED <<transfer, files, link>>

(* Only the slave tells its peer; the master falls back in silence. *)
LeaveOutOfSync(e) ==
  /\ state[e] = "OUT_OF_SYNC"
  /\ InitializeState(e)
  /\ IF e = "slave" THEN Sends(e, [code |-> "OUT_OF_SYNC"])
                    ELSE Outgoing(e) /\ UNCHANGED link
  /\ UNCHANGED <<transfer, files>>

-----------------------------------------------------------------------------
(***************************************************************************)
(* sendDataMessage with updateOutGoingState, in state RUNNING.  framePrepare *)
(* puts 0 for the id of a file that is not running.                        *)
(***************************************************************************)
DataFrame(e, chunk) ==
  [code        |-> "DATA_TRANSFER",
   recFileId   |-> IF rx[e].running THEN rx[e].fileId ELSE 0,
   recFeedback |-> GetFeedback(rx[e]),
   sndFileId   |-> IF tx[e].running THEN tx[e].fileId ELSE 0,
   sndChunkNo  |-> tx[e].chunkNo,
   payload     |-> chunk]

SendWTF(e) ==
  /\ state[e] = "RUNNING" /\ sendWTF[e]
  /\ Sends(e, [code |-> "WRITE_TERMINATED_FORCEFULLY"])
  /\ sendWTF' = [sendWTF EXCEPT ![e] = FALSE]
  /\ UNCHANGED <<session, tx, rx, files>>

(* fileRead gets what the file has from offset on, length bytes at most; a *)
(* frame is made only of a complete chunk.                                 *)
ChunkReadable(e) ==
  LET chunkSize == parameters[e].chunkSize
      length    == ChunkLength(tx[e].chunkNo, tx[e], chunkSize)
  IN /\ tx[e].chunkNo < tx[e].numberOfChunksNeeded
     /\ tx[e].chunkNo * chunkSize + length <= tx[e].fileSize

(* Mutant: chunks counted from 1. *)
CurrentChunkFromOne(e) ==
  LET chunkSize == parameters[e].chunkSize
  IN [name   |-> tx[e].fileName,
      from   |-> (tx[e].chunkNo - 1) * chunkSize,
      length |-> ChunkLength(tx[e].chunkNo, tx[e], chunkSize)]

CurrentChunk(e) ==
  LET chunkSize == parameters[e].chunkSize
      length    == ChunkLength(tx[e].chunkNo, tx[e], chunkSize)
  IN IF length = 0 THEN NoChunk
     ELSE [name |-> tx[e].fileName, from |-> tx[e].chunkNo * chunkSize, length |-> length]

MaySendChunk(e) ==
  state[e] = "RUNNING" /\ ~sendWTF[e] /\ tx[e].running

SendChunk(e) ==
  /\ MaySendChunk(e)
  /\ ~tx[e].waitForFeedback /\ ChunkReadable(e)
  /\ Sends(e, DataFrame(e, CurrentChunk(e)))
  /\ tx' = [tx EXCEPT ![e] = ChunkSent(@)]
  /\ UNCHANGED <<session, rx, sendWTF, files>>

(* All chunks are sent and feedback is awaited, or the file cannot be read. *)
SendNoChunk(e) ==
  /\ MaySendChunk(e)
  /\ tx[e].waitForFeedback \/ ~ChunkReadable(e) \/ "read" \in IoFaults
  /\ Outgoing(e)
  /\ UNCHANGED <<session, transfer, files, link>>

MayStartFile(e) ==
  state[e] = "RUNNING" /\ ~sendWTF[e] /\ ~tx[e].running

(* In easy mode only the master asks its application for a file. *)
FileAvailable(e) ==
  /\ EasyMode => e = "master"
  /\ opened[e] < Len(offered[e])

NextFileSize(e) == offered[e][opened[e] + 1]

NextOutgoingFileId(e) == opened[e] % FileIdMax

SendFileInfo(e) ==
  /\ MayStartFile(e) /\ FileAvailable(e)
  /\ ProgressInitializable(NextFileSize(e), parameters[e])
  /\ LET name == opened[e] + 1
     IN /\ Sends(e, [code      |-> "NEW_FILE_START",
                     sndFileId |-> NextOutgoingFileId(e),
                     payload   |-> [name |-> name, size |-> NextFileSize(e)]])
        /\ tx' = [tx EXCEPT
             ![e] = [ProgressInitialize(NextFileSize(e), parameters[e]) EXCEPT
                       !.fileId = NextOutgoingFileId(e),
                       !.fileName = name]]
        /\ opened' = [opened EXCEPT ![e] = name]
  /\ UNCHANGED <<session, rx, sendWTF, storage, received, confirmed>>

(* fileOpen or progressInitialize fails: the file stays with the application. *)
RefuseFile(e) ==
  /\ MayStartFile(e) /\ FileAvailable(e)
  /\ \/ ~ProgressInitializable(NextFileSize(e), parameters[e])
     \/ "open" \in IoFaults
  /\ Outgoing(e)
  /\ UNCHANGED <<session, transfer, files, link>>

SendEmptyData(e) ==
  /\ MayStartFile(e) /\ ~FileAvailable(e)
  /\ Sends(e, DataFrame(e, NoChunk))
  /\ UNCHANGED <<session, transfer, files>>

(* The slave has nothing to say in the handshake before it is spoken to. *)
AwaitHandshake(e) ==
  /\ e = "slave"
  /\ \/ state[e] = "SYNC_FIRST" /\ ~proposalReceived[e]
     \/ state[e] = "SYNC_SECOND" /\ ~ackReceived[e]
  /\ Outgoing(e)
  /\ UNCHANGED <<session, transfer, files, link>>

HandleOutgoing(e) ==
  \/ SendSyncProposal(e) \/ SendSyncResponse(e) \/ SendSyncAck(e)
  \/ LeaveOutOfSync(e) \/ AwaitHandshake(e)
  \/ SendWTF(e)
  \/ SendChunk(e) \/ SendNoChunk(e)
  \/ SendFileInfo(e) \/ RefuseFile(e) \/ SendEmptyData(e)

-----------------------------------------------------------------------------
(* The application makes one more file available for sending. *)
OfferFile(e) ==
  /\ e \in Senders /\ Len(offered[e]) < MaxFiles
  /\ \E size \in FileSizes : offered' = [offered EXCEPT ![e] = Append(@, size)]
  /\ UNCHANGED <<phase, turn, session, transfer, files, link, losses>>

(* Noise: parsePacketContent finds a wrong CRC and the frame is dropped. *)
LoseFrame(e) ==
  /\ link[e] # <<>> /\ losses < MaxLosses
  /\ Head(link[e]).code \in LossyCodes
  /\ link' = [link EXCEPT ![e] = Tail(@)]
  /\ losses' = losses + 1
  /\ UNCHANGED <<phase, turn, session, transfer, files, offered>>

Step(e) == HandleIncoming(e) \/ HandleOutgoing(e)

Next == \E e \in Role : Step(e) \/ OfferFile(e) \/ LoseFrame(e)

Spec == Init /\ [][Next]_vars

(* main() steps its instance for ever.  Nothing obliges an application to *)
(* offer files, and noise is never obliged to strike.                      *)
Fairness == \A e \in Role : WF_vars(HandleIncoming(e)) /\ WF_vars(HandleOutgoing(e))

FairSpec == Spec /\ Fairness

-----------------------------------------------------------------------------
(* The places of the frames of one code under way to e. *)
InFlight(e, code) == {i \in DOMAIN link[e] : link[e][i].code = code}

(***************************************************************************)
(* The sender's place in its file.  Between a file's start and its         *)
(* confirmation the next chunk is one of the file's, or all chunks are     *)
(* sent and the sender waits for feedback: feedback that is late, or about *)
(* something else, never leaves it past the end and not waiting            *)
(* (handleDataMessage 1073-1090), where it could send nothing more.        *)
(***************************************************************************)
SenderHasAPlace ==
  \A e \in Role : tx[e].running =>
    /\ tx[e].chunkNo <= tx[e].numberOfChunksNeeded
    /\ tx[e].waitForFeedback <=> tx[e].chunkNo = tx[e].numberOfChunksNeeded

(***************************************************************************)
(* What a receiver has written while a file is being received came from    *)
(* that file, each byte at its own offset: chunks of an earlier or a later *)
(* file, or of the file under another chunk number, never get in           *)
(* (handleDataMessage 1029-1038).                                          *)
(***************************************************************************)
NoMixing ==
  \A e \in Role : rx[e].running =>
    \A b \in storage[e].written : b.name = rx[e].fileName /\ b.byte = b.at

(***************************************************************************)
(* Feedback under way, however old, is sound: the receiver it came from    *)
(* has every chunk below the one it names (getFeedback 1201-1219).         *)
(***************************************************************************)
FeedbackIsSound ==
  \A e \in Role : \A i \in InFlight(e, "DATA_TRANSFER") :
    LET f == link[e][i]
        r == rx[Peer(e)]
    IN r.running /\ f.recFileId = r.fileId /\ f.recFeedback # FEEDBACK_FILE_IS_READY
       => \A c \in r.chunkStatus : f.recFeedback <= c

(***************************************************************************)
(* When the sender goes back it goes back far enough: once it returns from *)
(* waiting to chunk k, no chunk below k is missing at the receiver         *)
(* (handleDataMessage 1082-1090).                                          *)
(***************************************************************************)
RewindSkipsNothing ==
  [][\A e \in Role :
       LET r == rx[Peer(e)]
       IN /\ tx[e].running /\ tx'[e].running /\ tx'[e].chunkNo < tx[e].chunkNo
          /\ r.running /\ r.fileName = tx[e].fileName
          => \A c \in r.chunkStatus : tx'[e].chunkNo <= c]_vars

(***************************************************************************)
(* What a running slave has said stands until it is revoked: every         *)
(* acknowledgement, data frame or file start of the slave's that is still  *)
(* under way was sent by a slave that is still up, or it is followed by    *)
(* the news that the slave no longer is.  Nothing of a run that is over    *)
(* stays under way without the end of that run behind it (slaveTx          *)
(* 1743-1766, sendOutOfSync 1640-1658).                                    *)
(***************************************************************************)
SlaveIsUp == state["slave"] \in {"RUNNING", "OUT_OF_SYNC"}

SaidWhenUp == {"SYNC_ACK", "DATA_TRANSFER", "NEW_FILE_START", "WRITE_TERMINATED_FORCEFULLY"}

OutOfSyncAfter(frames, k) ==
  \E j \in DOMAIN frames : j > k /\ frames[j].code = "OUT_OF_SYNC"

SlaveWordStands ==
  \A i \in DOMAIN link["master"] :
    link["master"][i].code \in SaidWhenUp =>
      SlaveIsUp \/ OutOfSyncAfter(link["master"], i)
=============================================================================
