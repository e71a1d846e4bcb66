--------------------------- MODULE RestartProofs ---------------------------
(***************************************************************************)
(* What gets into the files when endpoints are restarted: any number of    *)
(* times, at any moment, whatever is lost.                                 *)
(***************************************************************************)
EXTENDS ThermitRestart, ThermitTransferProofs

(* Both ends are built with one chunk size. *)
ChunksAlike == \A e \in Role : BuildParameters[e].chunkSize = BuiltChunkSize

(* A file with this id, of this life of its sender or of an earlier one. *)
HasId(name, id) ==
  id \in 0 .. MaxFiles - 1 /\ \E k \in Nat : name = id + 1 + k * MaxFiles

(* The frames that name a file. *)
Names(f) == IsStart(f) \/ (IsData(f) /\ f.payload.length > 0)

SaysTrue(f) ==
  /\ f.code = "SYNC_PROPOSAL" => f.payload.chunkSize = BuiltChunkSize
  /\ Names(f) => HasId(f.payload.name, f.sndFileId)
  /\ Names(f) /\ IsData(f) => f.payload.from = f.sndChunkNo * BuiltChunkSize

(* Of two files with one id the one that is named later is of a later life: *)
(* a life counts its files from 1, and the former ones from beyond that.    *)
NamesFall(frames) ==
  \A i, j \in DOMAIN frames :
    i < j /\ Names(frames[i]) /\ Names(frames[j])
    /\ frames[i].sndFileId = frames[j].sndFileId
      => frames[j].payload.name <= frames[i].payload.name

GoodFrames(frames) ==
  (\A i \in DOMAIN frames : SaysTrue(frames[i])) /\ NamesFall(frames)

NoneBefore(name, id, frames) ==
  \A i \in DOMAIN frames :
    Names(frames[i]) /\ frames[i].sndFileId = id => frames[i].payload.name <= name

(* Bytes of file name, and of files with its id in later lives. *)
OfNamesakes(written, name, id) ==
  \A b \in written : b.byte = b.at /\ b.name <= name /\ HasId(b.name, id)

GoodReception(r, s, frames) ==
  r.running => /\ HasId(r.fileName, r.fileId)
               /\ NoneBefore(r.fileName, r.fileId, frames)
               /\ OfNamesakes(s.written, r.fileName, r.fileId)

SizesAgree == \A e \in Role : parameters[e].chunkSize = BuiltChunkSize

OffersBounded == \A e \in Role : Len(offered[e]) <= MaxFiles

(* What is being sent is of the life its sender is in. *)
SentInThisLife ==
  \A e \in Role : tx[e].running =>
    tx[e].fileId \in 0 .. MaxFiles - 1 /\ tx[e].fileName = tx[e].fileId + 1

LinesGood == \A e \in Role : GoodFrames(link[e])

ReceptionsGood == \A e \in Role : GoodReception(rx[e], storage[e], link[e])

RestartInv ==
  SizesAgree /\ OffersBounded /\ SentInThisLife /\ LinesGood /\ ReceptionsGood

-----------------------------------------------------------------------------
(* Lemmas about names and ids. *)

LEMMA Multiples ==
  ASSUME NEW m \in Nat \ {0}, NEW k \in Nat
  PROVE  (k * m) % m = 0
OBVIOUS

LEMMA NameFacts ==
  ASSUME NEW name, NEW id, HasId(name, id)
  PROVE  /\ id \in Nat /\ name \in Nat /\ id + 1 <= name
         /\ MaxFiles \in Nat \ {0}
         /\ HasId(Former(name), id) /\ Former(name) = name + MaxFiles
<1>1. PICK k \in Nat : name = id + 1 + k * MaxFiles
  BY DEF HasId
<1>2. MaxFiles \in Nat \ {0} /\ id \in Nat
  BY ThermitAssumption DEF HasId
<1>3. k * MaxFiles \in Nat
  BY <1>2
<1>4. Former(name) = name + MaxFiles
  BY <1>1, <1>2, <1>3 DEF Former, NoName
<1>5. k + 1 \in Nat /\ name + MaxFiles = id + 1 + (k + 1) * MaxFiles
  BY <1>1, <1>2
<1>6. \E j \in Nat : Former(name) = id + 1 + j * MaxFiles
  BY <1>4, <1>5
<1>7. HasId(Former(name), id)
  BY <1>6 DEF HasId
<1>8. name \in Nat /\ id + 1 <= name
  BY <1>1, <1>2, <1>3
<1> QED
  BY <1>2, <1>4, <1>7, <1>8

LEMMA FirstName ==
  ASSUME NEW id \in 0 .. MaxFiles - 1
  PROVE  HasId(id + 1, id)
<1>1. MaxFiles \in Nat
  BY ThermitAssumption
<1>2. 0 \in Nat /\ id + 1 = id + 1 + 0 * MaxFiles
  BY <1>1
<1> QED
  BY <1>2 DEF HasId

(* Files with one id are a number of lives apart. *)
LEMMA LivesApart ==
  ASSUME NEW id, NEW name, NEW later, HasId(name, id), HasId(later, id),
         later <= name
  PROVE  (name - later) % MaxFiles = 0
<1>1. PICK k \in Nat : name = id + 1 + k * MaxFiles
  BY DEF HasId
<1>2. PICK j \in Nat : later = id + 1 + j * MaxFiles
  BY DEF HasId
<1>3. MaxFiles \in Nat \ {0} /\ id \in Nat
  BY NameFacts
<1>4. j * MaxFiles \in Nat /\ k * MaxFiles \in Nat /\ j * MaxFiles <= k * MaxFiles
  BY <1>1, <1>2, <1>3
<1>5. j <= k
  BY <1>3, <1>4
<1>6. k - j \in Nat /\ name - later = (k - j) * MaxFiles
  BY <1>1, <1>2, <1>3, <1>5
<1> QED
  BY <1>3, <1>6, Multiples

-----------------------------------------------------------------------------
(* Lemmas about lines: one frame less, one more, and all of a former life. *)

LEMMA NamingFrame ==
  ASSUME NEW f \in Frame, Names(f)
  PROVE  f.payload.name \in Nat /\ f.sndFileId \in Nat
<1>1. f.payload.name \in Nat /\ f.sndFileId \in UInt8
  BY DEF Names, IsStart, IsData, Frame, Chunk, FileInfo
<1> QED
  BY <1>1 DEF UInt8

LEMMA OneFrameLess ==
  ASSUME NEW s \in Seq(Frame), s # <<>>, GoodFrames(s)
  PROVE  /\ SaysTrue(Head(s)) /\ GoodFrames(Tail(s))
         /\ \A name, id : NoneBefore(name, id, s) => NoneBefore(name, id, Tail(s))
         /\ IsStart(Head(s)) =>
              NoneBefore(Head(s).payload.name, Head(s).sndFileId, Tail(s))
         /\ Names(Head(s)) =>
              \A name : NoneBefore(name, Head(s).sndFileId, s)
                          => Head(s).payload.name <= name
<1> DEFINE t == Tail(s)
           f == Head(s)
<1>1. /\ 1 \in DOMAIN s /\ f = s[1]
      /\ \A i \in DOMAIN t : i \in Nat \ {0} /\ i + 1 \in DOMAIN s /\ t[i] = s[i + 1]
  BY TailPlaces
<1> HIDE DEF t, f
<1>2. SaysTrue(f)
  BY <1>1 DEF GoodFrames
<1>3. \A i \in DOMAIN t : SaysTrue(t[i])
  BY <1>1 DEF GoodFrames
<1>4. NamesFall(t)
  <2> SUFFICES ASSUME NEW i \in DOMAIN t, NEW j \in DOMAIN t,
                      i < j, Names(t[i]), Names(t[j]), t[i].sndFileId = t[j].sndFileId
               PROVE  t[j].payload.name <= t[i].payload.name
    BY DEF NamesFall
  <2>1. /\ i + 1 \in DOMAIN s /\ t[i] = s[i + 1]
        /\ j + 1 \in DOMAIN s /\ t[j] = s[j + 1] /\ i + 1 < j + 1
    BY <1>1
  <2> QED
    BY <2>1 DEF GoodFrames, NamesFall
<1>5. ASSUME NEW name, NEW id, NoneBefore(name, id, s)
      PROVE  NoneBefore(name, id, t)
  BY <1>1, <1>5 DEF NoneBefore
<1>6. ASSUME IsStart(f)
      PROVE  NoneBefore(f.payload.name, f.sndFileId, t)
  <2> SUFFICES ASSUME NEW i \in DOMAIN t, Names(t[i]), t[i].sndFileId = f.sndFileId
               PROVE  t[i].payload.name <= f.payload.name
    BY DEF NoneBefore
  <2>1. i + 1 \in DOMAIN s /\ t[i] = s[i + 1] /\ 1 < i + 1
    BY <1>1
  <2>2. Names(s[1])
    BY <1>1, <1>6 DEF Names
  <2> QED
    BY <1>1, <2>1, <2>2 DEF GoodFrames, NamesFall
<1>7. ASSUME Names(f), NEW name, NoneBefore(name, f.sndFileId, s)
      PROVE  f.payload.name <= name
  BY <1>1, <1>7 DEF NoneBefore
<1> QED
  BY <1>2, <1>3, <1>4, <1>5, <1>6, <1>7 DEF GoodFrames, t, f

(* What a life says of its own files has the smallest names. *)
LEMMA OneFrameMore ==
  ASSUME NEW s \in Seq(Frame), NEW f \in Frame, GoodFrames(s), SaysTrue(f),
         Names(f) => f.payload.name = f.sndFileId + 1
  PROVE  /\ GoodFrames(Append(s, f))
         /\ \A name, id : HasId(name, id) /\ NoneBefore(name, id, s)
              => NoneBefore(name, id, Append(s, f))
<1> DEFINE t == Append(s, f)
           n == Len(s)
<1>1. /\ DOMAIN s \subseteq 1 .. n
      /\ \A i \in DOMAIN t : \/ i \in DOMAIN s /\ t[i] = s[i]
                             \/ i = n + 1 /\ t[i] = f
  BY AppendPlaces
<1>2. n \in Nat
  BY LenProperties
<1> HIDE DEF t, n
<1>3. \A i \in DOMAIN t : SaysTrue(t[i])
  BY <1>1 DEF GoodFrames
<1>4. ASSUME NEW name, NEW id, HasId(name, id), Names(f), f.sndFileId = id
      PROVE  f.payload.name <= name
  BY <1>4, NameFacts
<1>5. NamesFall(t)
  <2> SUFFICES ASSUME NEW i \in DOMAIN t, NEW j \in DOMAIN t,
                      i < j, Names(t[i]), Names(t[j]), t[i].sndFileId = t[j].sndFileId
               PROVE  t[j].payload.name <= t[i].payload.name
    BY DEF NamesFall
  <2>1. CASE j \in DOMAIN s /\ t[j] = s[j]
    <3>1. i \in DOMAIN s /\ t[i] = s[i]
      BY <1>1, <1>2, <2>1
    <3> QED
      BY <2>1, <3>1 DEF GoodFrames, NamesFall
  <2>2. CASE j = n + 1 /\ t[j] = f
    <3>1. i \in DOMAIN s /\ t[i] = s[i]
      BY <1>1, <1>2, <2>2
    <3>2. HasId(t[i].payload.name, t[i].sndFileId)
      BY <1>3 DEF SaysTrue
    <3> QED
      BY <1>4, <2>2, <3>2
  <2> QED
    BY <1>1, <2>1, <2>2
<1>6. ASSUME NEW name, NEW id, HasId(name, id), NoneBefore(name, id, s)
      PROVE  NoneBefore(name, id, t)
  BY <1>1, <1>4, <1>6 DEF NoneBefore
<1> QED
  BY <1>3, <1>5, <1>6 DEF GoodFrames, t

(* A line of a former life. *)
LEMMA FormerLine ==
  ASSUME NEW s \in Seq(Frame), GoodFrames(s),
         NEW t, t = [i \in DOMAIN s |-> FormerFrame(s[i])]
  PROVE  /\ t \in Seq(Frame) /\ GoodFrames(t)
         /\ \A name, id : HasId(name, id) /\ NoneBefore(name, id, s)
              => NoneBefore(Former(name), id, t)
<1>1. \A i \in DOMAIN s : s[i] \in Frame
  BY ElementOfSeq, LenProperties
<1>2. ASSUME NEW f \in Frame, SaysTrue(f)
      PROVE  LET g == FormerFrame(f)
             IN /\ g \in Frame /\ SaysTrue(g) /\ (Names(g) <=> Names(f))
                /\ Names(f) => /\ g.sndFileId = f.sndFileId
                               /\ g.payload.name = f.payload.name + MaxFiles
  <2> DEFINE g == FormerFrame(f)
  <2>1. CASE f.code \notin {"DATA_TRANSFER", "NEW_FILE_START"}
    BY <1>2, <2>1 DEF FormerFrame, Names, IsStart, IsData
  <2>2. CASE f.code = "NEW_FILE_START"
    <3>1. /\ f.payload \in FileInfo /\ f.sndFileId \in UInt8
          /\ f = [code |-> "NEW_FILE_START", sndFileId |-> f.sndFileId, payload |-> f.payload]
      BY <2>2 DEF Frame
    <3>2. HasId(f.payload.name, f.sndFileId)
      BY <1>2, <2>2 DEF SaysTrue, Names, IsStart
    <3>3. /\ Former(f.payload.name) = f.payload.name + MaxFiles
          /\ Former(f.payload.name) \in Nat
          /\ HasId(Former(f.payload.name), f.sndFileId)
      BY <3>2, NameFacts
    <3>4. g = [code |-> "NEW_FILE_START", sndFileId |-> f.sndFileId,
               payload |-> [f.payload EXCEPT !.name = Former(f.payload.name)]]
      BY <2>2, <3>1 DEF FormerFrame
    <3>5. [f.payload EXCEPT !.name = Former(f.payload.name)] \in FileInfo
      BY <3>1, <3>3 DEF FileInfo
    <3>6. g.payload.name = Former(f.payload.name)
      BY <3>1, <3>4 DEF FileInfo
    <3>7. g \in Frame
      BY <3>1, <3>4, <3>5 DEF Frame
    <3>8. g.code = "NEW_FILE_START" /\ g.sndFileId = f.sndFileId
      BY <3>4
    <3> HIDE DEF g
    <3>9. Names(f) /\ Names(g)
      BY <2>2, <3>8 DEF Names, IsStart
    <3>10. SaysTrue(g)
      BY <3>3, <3>6, <3>8 DEF SaysTrue, IsData
    <3> QED
      BY <3>3, <3>6, <3>7, <3>8, <3>9, <3>10 DEF g
  <2>3. CASE f.code = "DATA_TRANSFER"
    <3>1. /\ f.payload \in Chunk /\ f.sndFileId \in UInt8
          /\ f \in [code : {"DATA_TRANSFER"}, recFileId : UInt8, recFeedback : UInt8,
                    sndFileId : UInt8, sndChunkNo : UInt8, payload : Chunk]
      BY <2>3 DEF Frame
    <3> DEFINE q == [f.payload EXCEPT !.name = Former(f.payload.name)]
    <3>2. Former(f.payload.name) \in Nat
      BY <3>1, ThermitAssumption DEF Former, Chunk, NoName
    <3>3. /\ q \in Chunk /\ q.name = Former(f.payload.name)
          /\ q.length = f.payload.length /\ q.from = f.payload.from
      BY <3>1, <3>2 DEF Chunk
    <3> HIDE DEF q
    <3>4. g = [f EXCEPT !.payload = q]
      BY <2>3, <3>1 DEF FormerFrame, q
    <3>5. /\ g \in [code : {"DATA_TRANSFER"}, recFileId : UInt8, recFeedback : UInt8,
                    sndFileId : UInt8, sndChunkNo : UInt8, payload : Chunk]
          /\ g.code = "DATA_TRANSFER" /\ g.payload = q
          /\ g.sndFileId = f.sndFileId /\ g.sndChunkNo = f.sndChunkNo
      BY <3>1, <3>3, <3>4
    <3>6. g \in Frame
      BY <3>5 DEF Frame
    <3> HIDE DEF g
    <3>7. Names(g) <=> Names(f)
      BY <2>3, <3>3, <3>5 DEF Names, IsStart, IsData
    <3>8. ASSUME Names(f)
          PROVE  /\ HasId(g.payload.name, g.sndFileId)
                 /\ g.payload.name = f.payload.name + MaxFiles
      <4>1. HasId(f.payload.name, f.sndFileId)
        BY <1>2, <3>8 DEF SaysTrue
      <4> QED
        BY <3>3, <3>5, <4>1, NameFacts
    <3>9. SaysTrue(g)
      BY <1>2, <2>3, <3>3, <3>5, <3>7, <3>8 DEF SaysTrue, IsData
    <3> QED
      BY <3>5, <3>6, <3>7, <3>8, <3>9 DEF g
  <2> QED
    BY <2>1, <2>2, <2>3
<1>3. ASSUME NEW i \in DOMAIN s
      PROVE  /\ t[i] \in Frame /\ SaysTrue(t[i]) /\ (Names(t[i]) <=> Names(s[i]))
             /\ Names(s[i]) => /\ t[i].sndFileId = s[i].sndFileId
                               /\ t[i].payload.name = s[i].payload.name + MaxFiles
                               /\ s[i].payload.name \in Nat
  <2>1. t[i] = FormerFrame(s[i])
    OBVIOUS
  <2>2. s[i] \in Frame /\ SaysTrue(s[i])
    BY <1>1 DEF GoodFrames
  <2> QED
    BY <1>2, <2>1, <2>2, NamingFrame
<1>4. t \in Seq(Frame) /\ DOMAIN t = DOMAIN s
  <2>1. Len(s) \in Nat /\ DOMAIN s = 1 .. Len(s)
    BY LenProperties
  <2>2. t \in [1 .. Len(s) -> Frame]
    BY <1>3, <2>1
  <2> QED
    BY <2>1, <2>2, SeqDef
<1>5. MaxFiles \in Nat
  BY ThermitAssumption
<1>6. NamesFall(t)
  <2> SUFFICES ASSUME NEW i \in DOMAIN s, NEW j \in DOMAIN s,
                      i < j, Names(t[i]), Names(t[j]), t[i].sndFileId = t[j].sndFileId
               PROVE  t[j].payload.name <= t[i].payload.name
    BY <1>4 DEF NamesFall
  <2>1. s[j].payload.name <= s[i].payload.name
    BY <1>3 DEF GoodFrames, NamesFall
  <2> QED
    BY <1>3, <1>5, <2>1
<1>7. ASSUME NEW name, NEW id, HasId(name, id), NoneBefore(name, id, s)
      PROVE  NoneBefore(Former(name), id, t)
  <2> SUFFICES ASSUME NEW i \in DOMAIN s, Names(t[i]), t[i].sndFileId = id
               PROVE  t[i].payload.name <= Former(name)
    BY <1>4 DEF NoneBefore
  <2>1. s[i].payload.name <= name
    BY <1>3, <1>7 DEF NoneBefore
  <2>2. name \in Nat /\ Former(name) = name + MaxFiles
    BY <1>7, NameFacts
  <2> QED
    BY <1>3, <1>5, <2>1, <2>2
<1> QED
  BY <1>3, <1>4, <1>6, <1>7 DEF GoodFrames

-----------------------------------------------------------------------------
(* The steps of the endpoints and of their environment. *)

LEMMA SizesGoOn ==
  ASSUME TypeOK, RestartInv, [Next]_vars
  PROVE  SizesAgree'
<1>1. ASSUME NEW e \in Role, WaitForSyncProposal(e) PROVE SizesAgree'
  <2> DEFINE f   == Head(link[e])
             new == FindBestCommonParameterSet(f.payload, parameters[e])
  <2>1. /\ link[e] # <<>> /\ f.code = "SYNC_PROPOSAL"
        /\ parameters' = [parameters EXCEPT ![e] = new]
    BY <1>1 DEF WaitForSyncProposal, Reads
  <2>2. SaysTrue(f)
    BY <2>1, OneFrameLess DEF RestartInv, LinesGood, TypeOK
  <2>3. f.payload.chunkSize = BuiltChunkSize /\ parameters[e].chunkSize = BuiltChunkSize
    BY <2>1, <2>2 DEF SaysTrue, RestartInv, SizesAgree
  <2> HIDE DEF f
  <2>4. new.chunkSize = BuiltChunkSize
    BY <2>3 DEF FindBestCommonParameterSet, Min2
  <2> HIDE DEF new
  <2> QED
    BY <2>1, <2>4 DEF TypeOK, RestartInv, SizesAgree
<1>2. ASSUME NEW e \in Role, HandleIncoming(e), ~WaitForSyncProposal(e)
      PROVE  parameters' = parameters
  BY <1>2 DEF HandleIncoming, ReadNothing, WaitForSyncResponse, WaitForSyncAck,
     IllegalFrame, HandleDataMessage, StartReception, CannotStartReception,
     RejectReception, ReadsFileStart, session
<1>3. ASSUME NEW e \in Role, HandleOutgoing(e) \/ OfferFile(e) \/ LoseFrame(e)
      PROVE  parameters' = parameters
  BY <1>3 DEF HandleOutgoing, SendSyncProposal, SendSyncResponse, SendSyncAck,
     LeaveOutOfSync, InitializeState, AwaitHandshake, SendWTF, SendChunk, SendNoChunk,
     SendFileInfo, RefuseFile, SendEmptyData, OfferFile, LoseFrame, session
<1>4. CASE parameters' = parameters
  BY <1>4 DEF RestartInv, SizesAgree
<1>5. CASE UNCHANGED vars
  BY <1>4, <1>5 DEF vars, session
<1> QED
  BY <1>1, <1>2, <1>3, <1>4, <1>5 DEF Next, Step

LEMMA OffersGoOn ==
  ASSUME TypeOK, RestartInv, [Next]_vars
  PROVE  OffersBounded'
<1>1. CASE offered' = offered
  BY <1>1 DEF RestartInv, OffersBounded
<1>2. ASSUME NEW e \in Role, OfferFile(e) PROVE OffersBounded'
  <2>1. PICK size \in FileSizes : offered' = [offered EXCEPT ![e] = Append(@, size)]
    BY <1>2 DEF OfferFile
  <2>2. offered[e] \in Seq(FileSizes) /\ Len(offered[e]) < MaxFiles
    BY <1>2 DEF OfferFile, TypeOK
  <2>3. Len(offered[e]) \in Nat /\ Len(Append(offered[e], size)) = Len(offered[e]) + 1
    BY <2>2, LenProperties, AppendProperties
  <2>4. MaxFiles \in Nat
    BY ThermitAssumption
  <2>5. Len(offered'[e]) <= MaxFiles
    BY <2>1, <2>2, <2>3, <2>4 DEF TypeOK
  <2> QED
    BY <2>1, <2>5 DEF RestartInv, OffersBounded, TypeOK
<1>3. ASSUME NEW e \in Role, Step(e) \/ LoseFrame(e) PROVE offered' = offered
  <2>1. CASE HandleIncoming(e)
    BY <2>1 DEF HandleIncoming, ReadNothing, WaitForSyncProposal, WaitForSyncResponse,
       WaitForSyncAck, IllegalFrame, HandleDataMessage, StartReception,
       CannotStartReception, RejectReception, ReadsFileStart, Reads, Incoming
  <2>2. CASE HandleOutgoing(e)
    BY <2>2 DEF HandleOutgoing, SendSyncProposal, SendSyncResponse, SendSyncAck,
       LeaveOutOfSync, AwaitHandshake, SendWTF, SendChunk, SendNoChunk,
       SendFileInfo, RefuseFile, SendEmptyData, Sends, Outgoing
  <2>3. CASE LoseFrame(e)
    BY <2>3 DEF LoseFrame
  <2> QED
    BY <1>3, <2>1, <2>2, <2>3 DEF Step
<1>4. CASE UNCHANGED vars
  BY <1>1, <1>4 DEF vars
<1> QED
  BY <1>1, <1>2, <1>3, <1>4 DEF Next

(* The ids of one life are its numbers, and no larger than the names. *)
LEMMA NextIdIsOwn ==
  ASSUME NoIdTwice, TypeOK, RestartInv, NEW e \in Role, FileAvailable(e)
  PROVE  /\ NextOutgoingFileId(e) = opened[e]
         /\ opened[e] \in 0 .. MaxFiles - 1
<1>1. opened[e] \in Nat /\ Len(offered[e]) \in Nat
  BY LenProperties DEF TypeOK
<1>2. opened[e] < Len(offered[e]) /\ Len(offered[e]) <= MaxFiles
  BY DEF FileAvailable, RestartInv, OffersBounded
<1>3. FileIdMax \in Nat \ {0} /\ MaxFiles \in Nat /\ MaxFiles <= FileIdMax
  BY FileIdMaxAssumption, ThermitAssumption DEF NoIdTwice
<1>4. opened[e] % FileIdMax = opened[e]
  BY <1>1, <1>2, <1>3, SmallModulo
<1> QED
  BY <1>1, <1>2, <1>3, <1>4 DEF NextOutgoingFileId

LEMMA SendersGoOn ==
  ASSUME NoIdTwice, TypeOK, RestartInv, [Next]_vars
  PROVE  SentInThisLife'
<1> DEFINE Own(p) == p.running => p.fileId \in 0 .. MaxFiles - 1 /\ p.fileName = p.fileId + 1
<1>1. \A e \in Role : tx[e] \in Progress /\ Own(tx[e])
  BY DEF TypeOK, RestartInv, SentInThisLife
<1>2. ASSUME NEW e \in Role, NEW p, Own(p), tx' = [tx EXCEPT ![e] = p]
      PROVE  SentInThisLife'
  <2>1. tx'[e] = p /\ \A x \in Role : x # e => tx'[x] = tx[x]
    BY <1>2 DEF TypeOK
  <2> QED
    BY <1>1, <1>2, <2>1 DEF SentInThisLife
<1>3. CASE tx' = tx
  BY <1>1, <1>3 DEF SentInThisLife
<1>4. ASSUME NEW e \in Role, HandleDataMessage(e) PROVE SentInThisLife'
  <2> DEFINE f == Head(link[e])
  <2>1. TakeFeedback(e, f)
    BY <1>4 DEF HandleDataMessage
  <2> HIDE DEF f
  <2>2. \/ tx' = tx
        \/ tx' = [tx EXCEPT ![e].running = FALSE]
        \/ tx' = [tx EXCEPT ![e] = NextRound(@, f.recFeedback)]
    BY <2>1 DEF TakeFeedback
  <2>3. CASE tx' = [tx EXCEPT ![e].running = FALSE]
    <3> DEFINE p == [tx[e] EXCEPT !.running = FALSE]
    <3>1. ~p.running
      BY <1>1 DEF Progress
    <3> QED
      BY <1>2, <2>3, <3>1
  <2>4. CASE tx' = [tx EXCEPT ![e] = NextRound(@, f.recFeedback)]
    <3> DEFINE p == NextRound(tx[e], f.recFeedback)
    <3>1. /\ p.running = tx[e].running /\ p.fileId = tx[e].fileId
          /\ p.fileName = tx[e].fileName
      BY <1>1 DEF NextRound, Progress
    <3> HIDE DEF p
    <3>2. Own(p)
      BY <1>1, <3>1
    <3> HIDE DEF Own
    <3> QED
      BY <1>2, <2>4, <3>2 DEF p
  <2> QED
    BY <1>3, <2>2, <2>3, <2>4
<1>5. ASSUME NEW e \in Role, SendChunk(e) PROVE SentInThisLife'
  <2> DEFINE p == ChunkSent(tx[e])
  <2>1. /\ p.running = tx[e].running /\ p.fileId = tx[e].fileId
        /\ p.fileName = tx[e].fileName
    BY <1>1 DEF ChunkSent, Progress
  <2>2. tx' = [tx EXCEPT ![e] = p]
    BY <1>5 DEF SendChunk
  <2> HIDE DEF p
  <2>3. Own(p)
    BY <1>1, <2>1
  <2> HIDE DEF Own
  <2> QED
    BY <1>2, <2>2, <2>3
<1>6. ASSUME NEW e \in Role, SendFileInfo(e) PROVE SentInThisLife'
  <2> DEFINE fresh == ProgressInitialize(NextFileSize(e), parameters[e])
             id    == NextOutgoingFileId(e)
             p     == [fresh EXCEPT !.fileId = id, !.fileName = opened[e] + 1]
  <2>1. FileAvailable(e) /\ tx' = [tx EXCEPT ![e] = p]
    BY <1>6 DEF SendFileInfo
  <2>2. fresh \in Progress
    BY <2>1, FileInfoTyped, ProgressInitializeTyped DEF TypeOK
  <2>3. id = opened[e] /\ opened[e] \in 0 .. MaxFiles - 1
    BY <2>1, NextIdIsOwn
  <2> HIDE DEF fresh, id
  <2>4. p.fileId = id /\ p.fileName = opened[e] + 1
    BY <2>2 DEF Progress
  <2> HIDE DEF p
  <2>5. Own(p)
    BY <2>3, <2>4
  <2> HIDE DEF Own
  <2> QED
    BY <1>2, <2>1, <2>5
<1>7. ASSUME NEW e \in Role, HandleIncoming(e), ~HandleDataMessage(e)
      PROVE  tx' = tx
  BY <1>7 DEF HandleIncoming, ReadNothing, WaitForSyncProposal, WaitForSyncResponse,
     WaitForSyncAck, IllegalFrame, StartReception, CannotStartReception,
     RejectReception, ReadsFileStart, transfer
<1>8. ASSUME NEW e \in Role, HandleOutgoing(e), ~SendChunk(e), ~SendFileInfo(e)
      PROVE  tx' = tx
  BY <1>8 DEF HandleOutgoing, SendSyncProposal, SendSyncResponse, SendSyncAck,
     LeaveOutOfSync, AwaitHandshake, SendWTF, SendNoChunk, RefuseFile, SendEmptyData,
     transfer
<1>9. ASSUME NEW e \in Role, OfferFile(e) \/ LoseFrame(e) PROVE tx' = tx
  BY <1>9 DEF OfferFile, LoseFrame, transfer
<1>10. CASE UNCHANGED vars
  BY <1>3, <1>10 DEF vars, transfer
<1> QED
  BY <1>3, <1>4, <1>5, <1>6, <1>7, <1>8, <1>9, <1>10 DEF Next, Step

(* What an endpoint says is so, and of files of the life it is in. *)
LEMMA SaidIsTrue ==
  ASSUME NoIdTwice, TypeOK, RestartInv, NEW e \in Role, NEW f \in Frame, MaySay(e, f)
  PROVE  /\ SaysTrue(f)
         /\ Names(f) => f.payload.name = f.sndFileId + 1
<1>1. CASE IsStart(f)
  <2>1. /\ f.payload.name = opened[e] + 1 /\ f.sndFileId = opened[e]
        /\ f.sndFileId \in 0 .. MaxFiles - 1
    BY <1>1, NextIdIsOwn DEF MaySay
  <2>2. HasId(f.payload.name, f.sndFileId)
    BY <2>1, FirstName
  <2> QED
    BY <1>1, <2>1, <2>2 DEF SaysTrue, IsStart, IsData
<1>2. CASE IsData(f)
  <2>1. PICK chunk \in {NoChunk, CurrentChunk(e)} :
          f = DataFrame(e, chunk) /\ (chunk # NoChunk => tx[e].running)
    BY <1>2 DEF MaySay
  <2>2. CASE chunk = NoChunk
    <3>1. f.payload.length = 0
      BY <2>1, <2>2 DEF DataFrame, NoChunk
    <3> QED
      BY <1>2, <3>1 DEF SaysTrue, Names, IsStart, IsData
  <2>3. CASE chunk # NoChunk
    <3>1. /\ chunk.name = tx[e].fileName
          /\ chunk.from = tx[e].chunkNo * BuiltChunkSize
      BY <2>1, <2>3 DEF CurrentChunk, RestartInv, SizesAgree
    <3>2. /\ f.payload = chunk /\ f.sndFileId = tx[e].fileId
          /\ f.sndChunkNo = tx[e].chunkNo
      BY <2>1, <2>3 DEF DataFrame
    <3>3. tx[e].fileId \in 0 .. MaxFiles - 1 /\ tx[e].fileName = tx[e].fileId + 1
      BY <2>1, <2>3 DEF RestartInv, SentInThisLife
    <3>4. HasId(f.payload.name, f.sndFileId)
      BY <3>1, <3>2, <3>3, FirstName
    <3> QED
      BY <1>2, <3>1, <3>2, <3>3, <3>4 DEF SaysTrue, IsData
  <2> QED
    BY <2>2, <2>3
<1>3. CASE ~IsStart(f) /\ ~IsData(f)
  <2>1. f.code = "SYNC_PROPOSAL" => f.payload.chunkSize = BuiltChunkSize
    BY DEF MaySay, RestartInv, SizesAgree
  <2> QED
    BY <1>3, <2>1 DEF SaysTrue, Names
<1> QED
  BY <1>1, <1>2, <1>3

(* Nothing that is put on a line names a file before one that is on it. *)
NoneBeforeStands ==
  \A e \in Role : \A name, id :
    HasId(name, id) /\ NoneBefore(name, id, link[e]) => NoneBefore(name, id, link'[e])

LEMMA LinesGoOn ==
  ASSUME NoIdTwice, TypeOK, RestartInv, [Next]_vars
  PROVE  LinesGood' /\ NoneBeforeStands
<1>1. \A e \in Role : link[e] \in Seq(Frame) /\ GoodFrames(link[e])
  BY DEF TypeOK, RestartInv, LinesGood
<1>2. ASSUME NEW e \in Role, NEW t, link' = [link EXCEPT ![e] = t], GoodFrames(t),
             \A name, id : HasId(name, id) /\ NoneBefore(name, id, link[e])
                            => NoneBefore(name, id, t)
      PROVE  LinesGood' /\ NoneBeforeStands
  <2>1. link'[e] = t /\ \A x \in Role : x # e => link'[x] = link[x]
    BY <1>2 DEF TypeOK
  <2>2. LinesGood'
    BY <1>1, <1>2, <2>1 DEF LinesGood
  <2>3. NoneBeforeStands
    BY <1>2, <2>1 DEF NoneBeforeStands
  <2> QED
    BY <2>2, <2>3
<1>3. CASE link' = link
  BY <1>1, <1>3 DEF LinesGood, NoneBeforeStands
<1>4. ASSUME NEW e \in Role, link[e] # <<>>, link' = [link EXCEPT ![e] = Tail(@)]
      PROVE  LinesGood' /\ NoneBeforeStands
  <2> DEFINE t == Tail(link[e])
  <2>1. GoodFrames(t) /\ \A name, id : NoneBefore(name, id, link[e])
                                       => NoneBefore(name, id, t)
    BY <1>1, <1>4, OneFrameLess
  <2>2. link' = [link EXCEPT ![e] = t]
    BY <1>4
  <2> HIDE DEF t
  <2> QED
    BY <1>2, <2>1, <2>2
<1>5. ASSUME NEW e \in Role, NEW f \in Frame, Says(e, f)
      PROVE  LinesGood' /\ NoneBeforeStands
  <2> DEFINE p == Peer(e)
             t == Append(link[p], f)
  <2>1. p \in Role
    BY PeerTyped
  <2>2. SaysTrue(f) /\ (Names(f) => f.payload.name = f.sndFileId + 1)
    BY <1>5, SaidIsTrue DEF Says
  <2>3. GoodFrames(t) /\ \A name, id : HasId(name, id) /\ NoneBefore(name, id, link[p])
                                       => NoneBefore(name, id, t)
    BY <1>1, <2>1, <2>2, OneFrameMore
  <2>4. link' = [link EXCEPT ![p] = t]
    BY <1>5 DEF Says
  <2> HIDE DEF p, t
  <2> QED
    BY <1>2, <2>1, <2>3, <2>4
<1> QED
  BY <1>3, <1>4, <1>5, LineChanges

(* What a chunk that says the truth leaves in a file with its id. *)
LEMMA NamesakesWritten ==
  ASSUME NEW written, NEW name, NEW id, NEW offset \in Nat, NEW p \in Chunk,
         p.length > 0 => HasId(p.name, id) /\ p.name <= name /\ p.from = offset,
         OfNamesakes(written, name, id)
  PROVE  OfNamesakes(FileWrite(written, offset, p), name, id)
<1> DEFINE last == offset + p.length - 1
<1>1. p.from \in Nat /\ p.length \in Nat
  BY DEF Chunk
<1>2. ASSUME NEW o \in offset .. last
      PROVE  HasId(p.name, id) /\ p.name <= name /\ p.from + o - offset = o
  <2>1. p.length > 0
    BY <1>1, <1>2
  <2> QED
    BY <1>1, <1>2, <2>1
<1> HIDE DEF last
<1>3. FileWrite(written, offset, p) =
        {b \in written : b.at \notin offset .. last}
        \cup {[at |-> o, name |-> p.name, byte |-> p.from + o - offset] : o \in offset .. last}
  BY DEF FileWrite, last
<1>4. ASSUME NEW o \in offset .. last
      PROVE  LET b == [at |-> o, name |-> p.name, byte |-> p.from + o - offset]
             IN b.byte = b.at /\ b.name <= name /\ HasId(b.name, id)
  BY <1>2, <1>4
<1> QED
  BY <1>3, <1>4 DEF OfNamesakes

LEMMA ReceptionsGoOn ==
  ASSUME NoIdTwice, TypeOK, RestartInv, [Next]_vars
  PROVE  ReceptionsGood'
<1>1. NoneBeforeStands
  BY LinesGoOn
<1>2. ASSUME NEW x \in Role, rx'[x] = rx[x], storage'[x] = storage[x]
      PROVE  GoodReception(rx[x], storage[x], link[x])'
  <2>1. GoodReception(rx[x], storage[x], link[x])
    BY DEF RestartInv, ReceptionsGood
  <2> QED
    BY <1>1, <1>2, <2>1 DEF GoodReception, NoneBeforeStands
<1>3. CASE rx' = rx /\ storage' = storage
  BY <1>2, <1>3 DEF ReceptionsGood
<1>4. ASSUME NEW e \in Role, StartReception(e) PROVE ReceptionsGood'
  <2> DEFINE f == Head(link[e])
  <2>1. /\ link[e] # <<>> /\ IsStart(f) /\ link' = [link EXCEPT ![e] = Tail(@)]
    BY <1>4 DEF StartReception, ReadsFileStart, Reads, IsStart
  <2>2. \A x \in Role : x # e => rx'[x] = rx[x] /\ storage'[x] = storage[x]
    BY <1>4 DEF StartReception, TypeOK
  <2>3. link[e] \in Seq(Frame) /\ link'[e] = Tail(link[e]) /\ GoodFrames(link[e])
    BY <2>1 DEF TypeOK, RestartInv, LinesGood
  <2>4. HasId(f.payload.name, f.sndFileId)
    BY <2>1, <2>3, OneFrameLess DEF SaysTrue, Names
  <2>5. NoneBefore(f.payload.name, f.sndFileId, link'[e])
    BY <2>1, <2>3, OneFrameLess
  <2>6. rx'[e].fileName = f.payload.name /\ rx'[e].fileId = f.sndFileId
    <3> DEFINE size  == f.payload.size
               fresh == IF ProgressInitializable(size, parameters[e])
                        THEN ProgressInitialize(size, parameters[e])
                        ELSE rx[e]
    <3>1. rx' = [rx EXCEPT ![e] = [fresh EXCEPT !.running  = TRUE,
                                                !.fileId   = f.sndFileId,
                                                !.fileName = f.payload.name]]
      BY <1>4 DEF StartReception
    <3>2. f \in Frame /\ f.code = "NEW_FILE_START"
      BY <2>1, <2>3, HeadTailProperties DEF IsStart
    <3>3. f.payload.size \in Nat
      BY <3>2, FrameFields DEF FileInfo
    <3>4. fresh \in Progress
      BY <3>3, ProgressInitializeTyped DEF TypeOK
    <3> HIDE DEF fresh, f
    <3> QED
      BY <3>1, <3>4 DEF TypeOK, Progress
  <2>7. storage'[e].written = {}
    BY <1>4 DEF StartReception, TypeOK
  <2>8. OfNamesakes(storage'[e].written, rx'[e].fileName, rx'[e].fileId)
    BY <2>7 DEF OfNamesakes
  <2> HIDE DEF f
  <2>9. GoodReception(rx[e], storage[e], link[e])'
    BY <2>4, <2>5, <2>6, <2>8 DEF GoodReception
  <2> QED
    BY <1>2, <2>2, <2>9 DEF ReceptionsGood
<1>5. ASSUME NEW e \in Role, HandleDataMessage(e), ChunkWritten(e, Head(link[e]))
      PROVE  ReceptionsGood'
  <2> DEFINE f       == Head(link[e])
             offset  == f.sndChunkNo * parameters[e].chunkSize
             written == FileWrite(storage[e].written, offset, f.payload)
             after   == ProgressSetChunkDone(rx[e], f.sndChunkNo)
             ready   == ~DirtyFound(after)
             name    == rx[e].fileName
             id      == rx[e].fileId
  <2>1. /\ rx[e].running /\ f.sndFileId = id
        /\ storage' = [storage EXCEPT ![e].written = written]
        /\ rx' = [rx EXCEPT ![e] = [after EXCEPT !.running = ~ready]]
    BY <1>5 DEF ChunkWritten, IsForCurrentFile
  <2>2. link[e] # <<>> /\ IsData(f)
    BY <1>5 DEF HandleDataMessage, Reads, IsData
  <2>3. /\ link[e] \in Seq(Frame) /\ rx[e] \in Progress /\ storage[e] \in Storage
        /\ parameters[e].chunkSize = BuiltChunkSize /\ GoodFrames(link[e])
        /\ GoodReception(rx[e], storage[e], link[e])
    BY DEF TypeOK, RestartInv, SizesAgree, LinesGood, ReceptionsGood
  <2>4. f \in Frame
    BY <2>2, <2>3, HeadTailProperties
  <2>5. f.sndChunkNo \in Nat /\ f.payload \in Chunk
    <3> HIDE DEF f
    <3>1. f.sndChunkNo \in UInt8 /\ f.payload \in Chunk
      BY <2>2, <2>4, FrameFields DEF IsData
    <3> QED
      BY <3>1 DEF UInt8
  <2>6. SaysTrue(f) /\ (Names(f) => \A n : NoneBefore(n, f.sndFileId, link[e])
                                             => f.payload.name <= n)
    BY <2>2, <2>3, OneFrameLess
  <2>7. HasId(name, id) /\ NoneBefore(name, id, link[e]) /\ OfNamesakes(storage[e].written, name, id)
    BY <2>1, <2>3 DEF GoodReception
  <2>8. f.payload.length > 0 =>
          HasId(f.payload.name, id) /\ f.payload.name <= name /\ f.payload.from = offset
    <3> HIDE DEF f, name, id
    <3> SUFFICES ASSUME f.payload.length > 0
                 PROVE  HasId(f.payload.name, id) /\ f.payload.name <= name
                        /\ f.payload.from = offset
      OBVIOUS
    <3>1. Names(f)
      BY <2>2 DEF Names
    <3> QED
      BY <2>1, <2>2, <2>3, <2>6, <2>7, <3>1 DEF SaysTrue
  <2>9. offset \in Nat
    <3> HIDE DEF f
    <3> QED
      BY <2>3, <2>5, BuiltTyped
  <2>10. OfNamesakes(written, name, id)
    <3> HIDE DEF f, offset, name, id
    <3> QED
      BY <2>5, <2>7, <2>8, <2>9, NamesakesWritten
  <2>11. /\ after.fileName = name /\ after.fileId = id
         /\ after \in [DOMAIN rx[e] -> {after[k] : k \in DOMAIN rx[e]}]
    BY <2>3 DEF ProgressSetChunkDone, Progress
  <2> HIDE DEF f, written, after, ready, name, id
  <2>12. /\ rx'[e].fileName = name /\ rx'[e].fileId = id
         /\ storage'[e].written = written
    BY <2>1, <2>3, <2>11 DEF TypeOK, Progress, Storage
  <2>13. \A x \in Role : x # e => rx'[x] = rx[x] /\ storage'[x] = storage[x]
    BY <2>1 DEF TypeOK
  <2>14. NoneBefore(name, id, link'[e])
    BY <1>1, <2>7 DEF NoneBeforeStands
  <2>15. GoodReception(rx[e], storage[e], link[e])'
    BY <2>7, <2>10, <2>12, <2>14 DEF GoodReception
  <2> QED
    BY <1>2, <2>13, <2>15 DEF ReceptionsGood
<1> QED
  BY <1>3, <1>4, <1>5, ReceptionChanges

-----------------------------------------------------------------------------
(* A restart. *)

(* What the peer of a restarted endpoint has and is sent, under other names. *)
LEMMA RestartRenames ==
  ASSUME TypeOK, NEW e \in Role, Restart(e)
  PROVE  LET p == Peer(e)
             t == [i \in DOMAIN link[p] |-> FormerFrame(link[p][i])]
             r == [rx[p] EXCEPT !.fileName = Former(@)]
             s == [openedAs |-> Former(storage[p].openedAs),
                   written  |-> {[b EXCEPT !.name = Former(@)] : b \in storage[p].written}]
         IN /\ p \in Role /\ \A x \in Role : x = e \/ x = p
            /\ link'[e] = <<>> /\ link'[p] = t
            /\ rx'[e] = NoProgress /\ rx'[p] = r
            /\ storage'[e] = [openedAs |-> NoName, written |-> {}] /\ storage'[p] = s
<1> DEFINE p == Peer(e)
           t == [i \in DOMAIN link[p] |-> FormerFrame(link[p][i])]
           r == [rx[p] EXCEPT !.fileName = Former(@)]
           s == [openedAs |-> Former(storage[p].openedAs),
                 written  |-> {[b EXCEPT !.name = Former(@)] : b \in storage[p].written}]
<1>1. p \in Role /\ p # e /\ \A x \in Role : x = e \/ x = p
  BY DEF Role, Peer
<1> HIDE DEF p
<1>2. /\ link' = [link EXCEPT ![e] = <<>>, ![p] = t]
      /\ rx' = [rx EXCEPT ![e] = NoProgress, ![p].fileName = Former(@)]
      /\ storage' = [storage EXCEPT ![e] = [openedAs |-> NoName, written |-> {}], ![p] = s]
  BY <1>1 DEF Restart, RenameSentBy, p
<1>3. rx' = [rx EXCEPT ![e] = NoProgress, ![p] = r]
  BY <1>1, <1>2 DEF TypeOK
<1> HIDE DEF t, r, s
<1>4. /\ link'[e] = <<>> /\ link'[p] = t
      /\ rx'[e] = NoProgress /\ rx'[p] = r
      /\ storage'[e] = [openedAs |-> NoName, written |-> {}] /\ storage'[p] = s
  BY <1>1, <1>2, <1>3 DEF TypeOK
<1> QED
  BY <1>1, <1>4 DEF p, t, r, s

LEMMA FormerTyped ==
  ASSUME NEW name \in Nat
  PROVE  Former(name) \in Nat
BY ThermitAssumption DEF Former, NoName

LEMMA FormerFrameTyped ==
  ASSUME NEW f \in Frame
  PROVE  FormerFrame(f) \in Frame
<1> DEFINE q == [f.payload EXCEPT !.name = Former(@)]
<1>1. CASE f.code \notin {"DATA_TRANSFER", "NEW_FILE_START"}
  BY <1>1 DEF FormerFrame
<1>2. CASE f.code = "NEW_FILE_START"
  <2>1. /\ f.payload \in FileInfo /\ f.sndFileId \in UInt8
        /\ f = [code |-> "NEW_FILE_START", sndFileId |-> f.sndFileId, payload |-> f.payload]
    BY <1>2 DEF Frame
  <2>2. q \in FileInfo
    BY <2>1, FormerTyped DEF FileInfo
  <2> HIDE DEF q
  <2>3. FormerFrame(f) = [code |-> "NEW_FILE_START", sndFileId |-> f.sndFileId, payload |-> q]
    BY <1>2, <2>1 DEF FormerFrame, q
  <2> QED
    BY <2>1, <2>2, <2>3 DEF Frame
<1>3. CASE f.code = "DATA_TRANSFER"
  <2>1. /\ f.payload \in Chunk
        /\ f \in [code : {"DATA_TRANSFER"}, recFileId : UInt8, recFeedback : UInt8,
                  sndFileId : UInt8, sndChunkNo : UInt8, payload : Chunk]
    BY <1>3 DEF Frame
  <2>2. q \in Chunk
    BY <2>1, FormerTyped DEF Chunk
  <2> HIDE DEF q
  <2>3. FormerFrame(f) = [f EXCEPT !.payload = q]
    BY <1>3, <2>1 DEF FormerFrame, q
  <2> QED
    BY <2>1, <2>2, <2>3 DEF Frame
<1> QED
  BY <1>1, <1>2, <1>3

LEMMA FormerLineTyped ==
  ASSUME NEW s \in Seq(Frame)
  PROVE  [i \in DOMAIN s |-> FormerFrame(s[i])] \in Seq(Frame)
<1>1. \A i \in DOMAIN s : s[i] \in Frame
  BY ElementOfSeq, LenProperties
<1>2. Len(s) \in Nat /\ DOMAIN s = 1 .. Len(s)
  BY LenProperties
<1>3. [i \in DOMAIN s |-> FormerFrame(s[i])] \in [1 .. Len(s) -> Frame]
  BY <1>1, <1>2, FormerFrameTyped
<1> QED
  BY <1>2, <1>3, SeqDef

LEMMA RestartTyped ==
  ASSUME TypeOK, NEW e \in Role, Restart(e)
  PROVE  TypeOK'
<1>1. NoProgress \in Progress /\ <<>> \in Seq(Frame) /\ <<>> \in Seq(FileSizes)
  BY EmptySeq, SMT DEF NoProgress, NoName, Progress, UInt8
<1>2. BuildParameters[e] \in Parameters
  BY ThermitAssumption
<1>3. /\ phase' \in [Role -> {"in", "out"}] /\ turn' \in Role
      /\ state' \in [Role -> State]
      /\ proposalReceived' \in [Role -> BOOLEAN] /\ ackReceived' \in [Role -> BOOLEAN]
      /\ sendWTF' \in [Role -> BOOLEAN] /\ losses' \in Nat
  BY DEF TypeOK, Restart, State
<1>4. parameters' \in [Role -> Parameters] /\ tx' \in [Role -> Progress]
  BY <1>1, <1>2 DEF TypeOK, Restart
<1>5. /\ offered' \in [Role -> Seq(FileSizes)] /\ opened' \in [Role -> Nat]
      /\ confirmed' \in [Role -> SUBSET Nat]
  BY <1>1 DEF TypeOK, Restart
<1> DEFINE p == Peer(e)
           t == [i \in DOMAIN link[p] |-> FormerFrame(link[p][i])]
           r == [rx[p] EXCEPT !.fileName = Former(@)]
           w == {[b EXCEPT !.name = Former(@)] : b \in storage[p].written}
           s == [openedAs |-> Former(storage[p].openedAs), written |-> w]
           g == {[q EXCEPT !.name = Former(@), !.storedAs = Former(@)] : q \in received[p]}
<1>6. p \in Role /\ \A x \in Role : x = e \/ x = p
  BY RestartRenames
<1> HIDE DEF p
<1>7. t \in Seq(Frame)
  <2>1. link[p] \in Seq(Frame)
    BY <1>6 DEF TypeOK
  <2> QED
    BY <2>1, FormerLineTyped
<1>8. r \in Progress
  <2>1. rx[p] \in Progress /\ Former(rx[p].fileName) \in Nat
    BY <1>6, FormerTyped DEF TypeOK, Progress
  <2> QED
    BY <2>1 DEF Progress
<1>9. s \in Storage
  <2>1. storage[p] \in Storage
    BY <1>6 DEF TypeOK
  <2>2. Former(storage[p].openedAs) \in Nat
    BY <2>1, FormerTyped DEF Storage
  <2>3. ASSUME NEW b \in storage[p].written
        PROVE  [b EXCEPT !.name = Former(@)] \in StoredByte
    <3>1. b \in StoredByte
      BY <2>1, <2>3 DEF Storage
    <3>2. Former(b.name) \in Nat
      BY <3>1, FormerTyped DEF StoredByte
    <3> QED
      BY <3>1, <3>2 DEF StoredByte
  <2>4. w \in SUBSET StoredByte
    BY <2>3
  <2> HIDE DEF w
  <2> QED
    BY <2>2, <2>4 DEF Storage
<1>10. g \in SUBSET Received
  <2>1. ASSUME NEW q \in received[p]
        PROVE  [q EXCEPT !.name = Former(@), !.storedAs = Former(@)] \in Received
    <3>1. q \in Received
      BY <1>6, <2>1 DEF TypeOK
    <3>2. Former(q.name) \in Nat /\ Former(q.storedAs) \in Nat
      BY <3>1, FormerTyped DEF Received
    <3> QED
      BY <3>1, <3>2 DEF Received
  <2> QED
    BY <2>1
<1>11. received' = [received EXCEPT ![e] = {}, ![p] = g]
  BY DEF Restart, RenameSentBy, p
<1>12. /\ link'[e] = <<>> /\ link'[p] = t
       /\ rx'[e] = NoProgress /\ rx'[p] = r
       /\ storage'[e] = [openedAs |-> NoName, written |-> {}] /\ storage'[p] = s
  BY RestartRenames DEF p
<1>13. /\ DOMAIN link' = Role /\ DOMAIN rx' = Role /\ DOMAIN storage' = Role
       /\ link' = [x \in Role |-> link'[x]] /\ rx' = [x \in Role |-> rx'[x]]
       /\ storage' = [x \in Role |-> storage'[x]]
  BY DEF TypeOK, Restart, RenameSentBy
<1>14. [openedAs |-> NoName, written |-> {}] \in Storage
  BY DEF Storage, NoName
<1> HIDE DEF t, r, w, s, g
<1>15. received' \in [Role -> SUBSET Received]
  BY <1>6, <1>10, <1>11 DEF TypeOK
<1>16. /\ link' \in [Role -> Seq(Frame)] /\ rx' \in [Role -> Progress]
       /\ storage' \in [Role -> Storage]
  BY <1>1, <1>6, <1>7, <1>8, <1>9, <1>12, <1>13, <1>14
<1> QED
  BY <1>3, <1>4, <1>5, <1>15, <1>16 DEF TypeOK

LEMMA RestartGoesOn ==
  ASSUME ChunksAlike, TypeOK, RestartInv, NEW e \in Role, Restart(e)
  PROVE  RestartInv'
<1>1. SizesAgree'
  BY DEF Restart, ChunksAlike, SizesAgree, RestartInv, TypeOK
<1>2. OffersBounded'
  <2>1. Len(<<>>) = 0 /\ MaxFiles \in Nat
    BY ThermitAssumption
  <2> QED
    BY <2>1 DEF Restart, OffersBounded, RestartInv, TypeOK
<1>3. SentInThisLife'
  BY DEF Restart, SentInThisLife, RestartInv, TypeOK, NoProgress
<1> DEFINE p == Peer(e)
           t == [i \in DOMAIN link[p] |-> FormerFrame(link[p][i])]
           r == [rx[p] EXCEPT !.fileName = Former(@)]
           w == {[b EXCEPT !.name = Former(@)] : b \in storage[p].written}
           s == [openedAs |-> Former(storage[p].openedAs), written |-> w]
<1>4. /\ p \in Role /\ \A x \in Role : x = e \/ x = p
      /\ link'[e] = <<>> /\ link'[p] = t
      /\ rx'[e] = NoProgress /\ rx'[p] = r /\ storage'[p] = s
  BY RestartRenames
<1> HIDE DEF p
<1>5. /\ link[p] \in Seq(Frame) /\ GoodFrames(link[p])
      /\ rx[p] \in Progress /\ storage[p] \in Storage
      /\ GoodReception(rx[p], storage[p], link[p])
  BY <1>4 DEF TypeOK, RestartInv, LinesGood, ReceptionsGood
<1>6. GoodFrames(<<>>)
  BY DEF GoodFrames, NamesFall
<1>7. GoodFrames(t) /\ \A name, id : HasId(name, id) /\ NoneBefore(name, id, link[p])
                                     => NoneBefore(Former(name), id, t)
  BY <1>5, FormerLine
<1>8. LinesGood'
  <2> HIDE DEF t
  <2> QED
    BY <1>4, <1>6, <1>7 DEF LinesGood
<1>9. GoodReception(r, s, t)
  <2> SUFFICES ASSUME r.running
               PROVE  /\ HasId(r.fileName, r.fileId)
                      /\ NoneBefore(r.fileName, r.fileId, t)
                      /\ OfNamesakes(w, r.fileName, r.fileId)
    BY DEF GoodReception
  <2> DEFINE name == rx[p].fileName
             id   == rx[p].fileId
  <2>1. rx[p].running /\ r.fileName = Former(name) /\ r.fileId = id
    BY <1>5 DEF Progress
  <2>2. /\ HasId(name, id) /\ NoneBefore(name, id, link[p])
        /\ OfNamesakes(storage[p].written, name, id)
    BY <1>5, <2>1 DEF GoodReception
  <2> HIDE DEF name, id
  <2>3. /\ HasId(Former(name), id) /\ name \in Nat /\ Former(name) = name + MaxFiles
        /\ MaxFiles \in Nat
    BY <2>2, NameFacts
  <2>4. NoneBefore(Former(name), id, t)
    BY <1>7, <2>2
  <2>5. ASSUME NEW b \in storage[p].written
        PROVE  LET c == [b EXCEPT !.name = Former(@)]
               IN c.byte = c.at /\ c.name <= Former(name) /\ HasId(c.name, id)
    <3> DEFINE c == [b EXCEPT !.name = Former(@)]
    <3>1. b \in StoredByte
      BY <1>5, <2>5 DEF Storage
    <3>2. c.byte = b.byte /\ c.at = b.at /\ c.name = Former(b.name)
      BY <3>1 DEF StoredByte
    <3>3. b.byte = b.at /\ b.name <= name /\ HasId(b.name, id)
      BY <2>2, <2>5 DEF OfNamesakes
    <3>4. /\ HasId(Former(b.name), id) /\ b.name \in Nat
          /\ Former(b.name) = b.name + MaxFiles
      BY <3>3, NameFacts
    <3>5. Former(b.name) <= Former(name)
      BY <2>3, <3>3, <3>4
    <3> HIDE DEF c
    <3>6. c.byte = c.at /\ c.name <= Former(name) /\ HasId(c.name, id)
      BY <3>2, <3>3, <3>4, <3>5
    <3> QED
      BY <3>6 DEF c
  <2>6. OfNamesakes(w, Former(name), id)
    BY <2>5 DEF OfNamesakes
  <2> QED
    BY <2>1, <2>3, <2>4, <2>6
<1>10. ~NoProgress.running
  BY DEF NoProgress
<1>11. ReceptionsGood'
  <2> HIDE DEF r, s, t
  <2> QED
    BY <1>4, <1>9, <1>10 DEF ReceptionsGood, GoodReception
<1> QED
  BY <1>1, <1>2, <1>3, <1>8, <1>11 DEF RestartInv

-----------------------------------------------------------------------------
LEMMA RestartInvImplies == RestartInv => MixesOnlyNamesakes
<1> SUFFICES ASSUME RestartInv, NEW e \in Role, rx[e].running,
                    NEW b \in storage[e].written
             PROVE  /\ b.byte = b.at
                    /\ b.name <= rx[e].fileName
                    /\ (rx[e].fileName - b.name) % MaxFiles = 0
  BY DEF MixesOnlyNamesakes
<1>1. HasId(rx[e].fileName, rx[e].fileId)
  BY DEF RestartInv, ReceptionsGood, GoodReception
<1>2. b.byte = b.at /\ b.name <= rx[e].fileName /\ HasId(b.name, rx[e].fileId)
  BY DEF RestartInv, ReceptionsGood, GoodReception, OfNamesakes
<1> QED
  BY <1>1, <1>2, LivesApart

(***************************************************************************)
(* However often and whenever the endpoints are restarted, and whatever is *)
(* lost, refused or late: what is written to the file of a running         *)
(* transfer is of that file, or of the file that has the same id in a      *)
(* later life of the sender, each byte at its own offset                   *)
(* (handleDataMessage 1029-1038, waitForDataMessage 1385-1420).            *)
(***************************************************************************)
THEOREM RestartsMixOnlyNamesakes ==
  ASSUME ChunksAlike, NoIdTwice
  PROVE  RestartSpec => []MixesOnlyNamesakes
<1>1. RestartInit => TypeOK /\ RestartInv
  <2> SUFFICES ASSUME Init PROVE TypeOK /\ RestartInv
    BY DEF RestartInit
  <2>1. MaxFiles \in Nat /\ Len(<<>>) = 0 /\ DOMAIN <<>> = {}
    BY ThermitAssumption
  <2>2. \A e \in Role : /\ parameters[e] = BuildParameters[e] /\ offered[e] = <<>>
                        /\ ~tx[e].running /\ ~rx[e].running /\ link[e] = <<>>
    BY DEF Init, NoProgress
  <2>3. SizesAgree /\ OffersBounded /\ SentInThisLife
    BY <2>1, <2>2 DEF ChunksAlike, SizesAgree, OffersBounded, SentInThisLife
  <2>4. LinesGood /\ ReceptionsGood
    BY <2>1, <2>2 DEF LinesGood, GoodFrames, NamesFall, ReceptionsGood, GoodReception
  <2> QED
    BY <2>3, <2>4, InitTyped DEF RestartInv
<1>2. TypeOK /\ RestartInv /\ [RestartNext]_<<vars, restarts>> => (TypeOK /\ RestartInv)'
  <2> SUFFICES ASSUME TypeOK, RestartInv, [RestartNext]_<<vars, restarts>>
               PROVE  TypeOK' /\ RestartInv'
    OBVIOUS
  <2>1. CASE [Next]_vars
    BY <2>1, StepTyped, SizesGoOn, OffersGoOn, SendersGoOn, LinesGoOn, ReceptionsGoOn
       DEF RestartInv
  <2>2. ASSUME NEW e \in Role, Restart(e) PROVE TypeOK' /\ RestartInv'
    BY <2>2, RestartTyped, RestartGoesOn
  <2> QED
    BY <2>1, <2>2 DEF RestartNext
<1> QED
  BY <1>1, <1>2, RestartInvImplies, PTL DEF RestartSpec

-----------------------------------------------------------------------------
(***************************************************************************)
(* Ends that take turns and are restarted: all that is left of a life that *)
(* is over has a name beyond MaxFiles, so that of what is begun in the     *)
(* lives that last still holds what holds without restarts (TurnInv).      *)
(***************************************************************************)

(* Only what had no name is not of a former life after a restart. *)
LEMMA FormerIsFormer ==
  ASSUME NEW name \in Nat, Former(name) <= MaxFiles
  PROVE  name = 0
BY ThermitAssumption DEF Former, NoName

LEMMA FormerHead ==
  ASSUME NEW s \in Seq(Frame),
         NEW t, t = [i \in DOMAIN s |-> FormerFrame(s[i])]
  PROVE  /\ s = <<>> => t = <<>>
         /\ s # <<>> /\ Tail(s) = <<>> =>
              t # <<>> /\ Tail(t) = <<>> /\ Head(t) = FormerFrame(Head(s)) /\ Head(s) \in Frame
<1>1. s = <<>> => t = <<>>
  OBVIOUS
<1>2. ASSUME s # <<>>, Tail(s) = <<>>
      PROVE  t # <<>> /\ Tail(t) = <<>> /\ Head(t) = FormerFrame(Head(s)) /\ Head(s) \in Frame
  <2>1. Len(s) = 1
    <3>1. Len(Tail(s)) = Len(s) - 1 /\ Len(Tail(s)) = 0 /\ Len(s) \in Nat
      BY <1>2, HeadTailProperties, EmptySeq, LenProperties
    <3> QED
      BY <3>1
  <2>2. DOMAIN s = 1 .. 1 /\ Head(s) = s[1] /\ s[1] \in Frame
    BY <2>1
  <2>3. t \in Seq(Frame)
    BY FormerLineTyped
  <2>4. DOMAIN t = 1 .. 1 /\ t[1] = FormerFrame(s[1])
    BY <2>2
  <2>5. Len(t) = 1
    BY <2>3, <2>4, LenProperties
  <2> QED
    BY <2>2, <2>3, <2>4, <2>5
<1> QED
  BY <1>1, <1>2

LEMMA RestartKeepsTurns ==
  ASSUME BuiltAlike, TypeOK, TurnInv, NEW e \in Role, Restart(e)
  PROVE  TurnInv'
<1> PICK p \in Role : p = Peer(e)
  BY PeerTyped
<1> DEFINE t == [i \in DOMAIN link[p] |-> FormerFrame(link[p][i])]
<1>1. /\ p # e /\ Peer(p) = e /\ Peer(e) = p /\ \A x \in Role : x = e \/ x = p
      /\ link'[e] = <<>> /\ link'[p] = t
      /\ rx'[e] = NoProgress
  <2>1. p # e /\ Peer(p) = e
    BY PeerTyped
  <2>2. /\ \A x \in Role : x = e \/ x = Peer(e)
        /\ link'[e] = <<>> /\ rx'[e] = NoProgress
        /\ link'[Peer(e)] = [i \in DOMAIN link[Peer(e)] |-> FormerFrame(link[Peer(e)][i])]
    BY RestartRenames, Zenon
  <2> QED
    BY <2>1, <2>2
<1>2. /\ turn' = turn /\ phase'[e] = "in" /\ phase'[p] = phase[p]
      /\ parameters' = [parameters EXCEPT ![e] = BuildParameters[e]]
      /\ tx'[e] = NoProgress /\ tx'[p] = tx[p]
      /\ offered'[e] = <<>> /\ offered'[p] = offered[p]
      /\ opened'[e] = 0 /\ opened'[p] = opened[p]
  BY <1>1 DEF Restart, RenameSentBy, TypeOK
<1>3. rx'[p].running = rx[p].running /\ rx'[p].fileName = Former(rx[p].fileName)
      /\ rx[p].fileName \in Nat
  <2>1. rx'[p] = [rx[p] EXCEPT !.fileName = Former(@)] /\ rx[p] \in Progress
    BY <1>1, RestartRenames DEF TypeOK
  <2> QED
    BY <2>1 DEF Progress
<1>4. /\ link[p] \in Seq(Frame)
      /\ link[p] = <<>> => t = <<>>
      /\ link[p] # <<>> /\ Tail(link[p]) = <<>> =>
           /\ t # <<>> /\ Tail(t) = <<>> /\ Head(t) = FormerFrame(Head(link[p]))
           /\ Head(link[p]) \in Frame
  BY <1>1, FormerHead DEF TypeOK
<1> HIDE DEF t
<1>5. TakeTurns'
  <2>1. turn = e \/ turn = p
    BY <1>1 DEF TypeOK
  <2> QED
    BY <1>1, <1>2, <1>4, <2>1 DEF TurnInv, TakeTurns
<1>6. SizesStand'
  BY <1>2 DEF BuiltAlike, SizesStand, TurnInv, TypeOK
<1>7. ~rx'[e].running /\ ~tx'[e].running
  <2>1. ~NoProgress.running
    BY DEF NoProgress
  <2> QED
    BY <1>1, <1>2, <2>1
<1>8. \A x \in Role : ~IsReceiving(x)'
  <2>1. ASSUME rx[p].running, Former(rx[p].fileName) <= MaxFiles PROVE FALSE
    <3>1. rx[p].fileName = 0 /\ IsReceiving(p)
      BY <1>3, <2>1, FormerIsFormer, ThermitAssumption DEF IsReceiving
    <3>2. tx[e].running /\ tx[e].fileName = 0
      BY <1>1, <3>1 DEF TurnInv, ReceiverKeepsUp, SameFile
    <3> QED
      BY <3>2 DEF TurnInv, SenderStands
  <2> QED
    BY <1>1, <1>3, <1>7, <2>1 DEF IsReceiving
<1>9. LinesAreTrue'
  <2> SUFFICES ASSUME link'[p] # <<>> PROVE FrameIsTrue(p, Head(link[p]))'
    BY <1>1 DEF LinesAreTrue
  <2> DEFINE f == Head(link[p])
             g == FormerFrame(f)
  <2>1. link[p] # <<>> /\ Tail(link[p]) = <<>>
    <3>1. turn = e \/ turn = p
      BY <1>1 DEF TypeOK
    <3> QED
      BY <1>1, <1>4, <3>1 DEF TurnInv, TakeTurns
  <2>2. f \in Frame /\ Head(link'[p]) = g /\ FrameIsTrue(p, f)
    BY <1>1, <1>4, <2>1 DEF TurnInv, LinesAreTrue
  <2> HIDE DEF f, g
  <2>3. f.code = "SYNC_PROPOSAL" => g = f
    BY DEF g, FormerFrame
  <2>4. g.code = f.code
    <3>1. CASE f.code \in {"DATA_TRANSFER", "NEW_FILE_START"}
      BY <2>2, <3>1 DEF g, FormerFrame, Frame
    <3> QED
      BY <3>1 DEF g, FormerFrame
  <2>5. ~(IsStart(g) /\ g.payload.name <= MaxFiles)
    <3> SUFFICES ASSUME IsStart(g), g.payload.name <= MaxFiles PROVE FALSE
      OBVIOUS
    <3>1. /\ f.code = "NEW_FILE_START" /\ f.payload \in FileInfo
          /\ f = [code |-> "NEW_FILE_START", sndFileId |-> f.sndFileId, payload |-> f.payload]
      BY <2>2, <2>4 DEF IsStart, Frame
    <3>2. g.payload.name = Former(f.payload.name) /\ f.payload.name \in Nat
      BY <3>1 DEF g, FormerFrame, FileInfo
    <3>3. f.payload.name = 0
      BY <3>2, FormerIsFormer
    <3>4. tx[e].running /\ tx[e].fileName = 0
      BY <1>1, <2>2, <3>1, <3>3, ThermitAssumption DEF FrameIsTrue, IsStart
    <3> QED
      BY <1>1, <3>4 DEF TurnInv, SenderStands
  <2>6. ~IsReceiving(p)' /\ ~IsReceiving(e)'
    BY <1>1, <1>8
  <2>7. f.code = "SYNC_PROPOSAL" => /\ f.payload.chunkSize = BuiltChunkSize
                                    /\ f.payload.maxFileSize = BuiltMaxFileSize
    BY <2>2 DEF FrameIsTrue
  <2> QED
    BY <1>1, <2>2, <2>3, <2>4, <2>5, <2>6, <2>7 DEF FrameIsTrue
<1>10. \A x \in Role : SenderStands(x)'
  <2>1. SenderStands(e)'
    BY <1>2, <1>7, EmptySeq, ThermitAssumption DEF SenderStands
  <2>2. SenderStands(p)'
    BY <1>1, <1>2 DEF TurnInv, SenderStands
  <2> QED
    BY <1>1, <2>1, <2>2
<1>11. \A x \in Role : ReceivedIsIntact(x)'
  <2> DEFINE h(r) == [r EXCEPT !.name = Former(@)]
             g(r) == [r EXCEPT !.name = Former(@), !.storedAs = Former(@)]
             s == {g(r) : r \in received[p]}
  <2>1. received' = [received EXCEPT ![e] = {}, ![p] = s]
    BY <1>1 DEF Restart, RenameSentBy
  <2>2. ASSUME NEW r \in Received
        PROVE  g(r).name = Former(r.name) /\ g(r).intact = r.intact
    <3>1. h(r).name = Former(r.name) /\ h(r).intact = r.intact
          /\ DOMAIN h(r) = DOMAIN r
      BY DEF Received
    <3>2. g(r) = [h(r) EXCEPT !.storedAs = Former(r.storedAs)]
      OBVIOUS
    <3>3. "name" \in DOMAIN r /\ "intact" \in DOMAIN r
      BY DEF Received
    <3> HIDE DEF g, h
    <3> QED
      BY <3>1, <3>2, <3>3
  <2> HIDE DEF g, h
  <2>3. received'[e] = {} /\ received'[p] = s
    <3> HIDE DEF s
    <3> QED
      BY <1>1, <2>1 DEF TypeOK
  <2>4. ASSUME NEW r \in received[p], g(r).name <= MaxFiles PROVE g(r).intact
    <3>1. r \in Received /\ r.name \in Nat
      BY <1>1 DEF TypeOK, Received
    <3>2. r.name = 0 /\ 0 <= MaxFiles
      BY <2>2, <2>4, <3>1, FormerIsFormer, ThermitAssumption
    <3>3. r.intact
      BY <1>1, <3>2 DEF TurnInv, ReceivedIsIntact
    <3> QED
      BY <2>2, <3>1, <3>3
  <2>5. ReceivedIsIntact(p)' /\ ReceivedIsIntact(e)'
    BY <2>3, <2>4 DEF ReceivedIsIntact
  <2> QED
    BY <1>1, <2>5
<1> QED
  BY <1>5, <1>6, <1>8, <1>9, <1>10, <1>11 DEF TurnInv, ReceiverKeepsUp

LEMMA TurnInvImplies == TypeOK /\ TurnInv => NewFilesAreWhole
<1> SUFFICES ASSUME TypeOK, TurnInv, NEW e \in Role, NEW r \in received[e],
                    ~FormerFile(r.name)
             PROVE  r.intact
  BY DEF NewFilesAreWhole
<1>1. r.name \in Nat /\ MaxFiles \in Nat
  BY ThermitAssumption DEF TypeOK, Received
<1>2. r.name <= MaxFiles
  BY <1>1 DEF FormerFile
<1> QED
  BY <1>2 DEF TurnInv, ReceivedIsIntact

(***************************************************************************)
(* However often and whenever the endpoints are restarted, and whatever is *)
(* lost or refused: of ends that step in turn each file that begins after  *)
(* the last restart of its sender is whole when it is taken for received   *)
(* (handleDataMessage 1027-1052, progressInitialize 314-360).              *)
(***************************************************************************)
THEOREM WholeAfterRestart ==
  ASSUME BuiltAlike, LockStep, EveryFileDeliverable
  PROVE  RestartSpec => []NewFilesAreWhole
<1>1. RestartInit => TypeOK /\ TurnInv
  BY InitTyped, InitInTurn DEF RestartInit
<1>2. TypeOK /\ TurnInv /\ [RestartNext]_<<vars, restarts>> => (TypeOK /\ TurnInv)'
  <2> SUFFICES ASSUME TypeOK, TurnInv, [RestartNext]_<<vars, restarts>>
               PROVE  TypeOK' /\ TurnInv'
    OBVIOUS
  <2>1. CASE [Next]_vars
    BY <2>1, StepTyped, StepInTurn
  <2>2. ASSUME NEW e \in Role, Restart(e) PROVE TypeOK' /\ TurnInv'
    BY <2>2, RestartTyped, RestartKeepsTurns
  <2> QED
    BY <2>1, <2>2 DEF RestartNext
<1> QED
  BY <1>1, <1>2, TurnInvImplies, PTL DEF RestartSpec
=============================================================================
