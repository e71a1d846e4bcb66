---------------------------- MODULE ProgressLife -----------------------------
(***************************************************************************)
(* The life of one receiving progress record: a file is started and its    *)
(* chunks are marked done one after the other, in any order and some more  *)
(* than once.  TLC compares what the endpoints read off the record with    *)
(* the loop of the code and with what the code is for.                     *)
(***************************************************************************)
EXTENDS ThermitProgress

CONSTANTS
  ChunkSizes,       \* the chunk sizes tried
  ChunkCounts,      \* the numbers of chunks tried
  Dirty(_)          \* Dirty(n): the sets of dirty chunks to start with

ASSUME ProgressLifeAssumption ==
  ChunkSizes \subseteq Nat \ {0} /\ ChunkCounts \subseteq Nat \ {0}

VARIABLES chunkSize, progress

lifeVars == <<chunkSize, progress>>

(* Every size that makes n chunks. *)
SizesOf(n, size) == (n - 1) * size + 1 .. n * size

LifeInit ==
  /\ chunkSize \in ChunkSizes
  /\ \E n \in ChunkCounts : \E size \in SizesOf(n, chunkSize) : \E dirty \in Dirty(n) :
       progress = [ProgressInitialize(size, [chunkSize |-> chunkSize])
                     EXCEPT !.chunkStatus = @ \cap dirty]

LifeNext ==
  /\ \E c \in 0 .. progress.numberOfChunksNeeded :
       progress' = ProgressSetChunkDone(progress, c)
  /\ UNCHANGED chunkSize

LifeSpec == LifeInit /\ [][LifeNext]_lifeVars

(***************************************************************************)
(* The form of progressGetFirstDirty that the endpoints use returns what   *)
(* the loop of thermit.c:399-454 returns.                                  *)
(***************************************************************************)
WalkMatchesClosedForm ==
  FirstDirtyWalk(progress) =
    IF DirtyFound(progress) THEN FirstDirty(progress) ELSE FEEDBACK_FILE_IS_READY

(***************************************************************************)
(* Of a file of n chunks progressGetFirstDirty overlooks the last n div 9, *)
(* and no other: up to eight chunks it overlooks nothing.  This is the     *)
(* extent of a fault: a file of nine chunks or more, of which README.md:29 *)
(* promises 250, is closed without its tail (claim_nine_chunks).           *)
(***************************************************************************)
OverlooksOnlyTheTail ==
  LET n == progress.numberOfChunksNeeded
  IN DirtyFound(progress) <=> \E d \in progress.chunkStatus : d < n - n \div 9

(***************************************************************************)
(* The chunks of a file, at their offsets and with their lengths, cover it *)
(* without overlap, each byte being of the chunk its offset says           *)
(* (THERMIT_FILE_OFFSET, THERMIT_CHUNK_LENGTH_TX), but for the last chunk  *)
(* of a file that is a multiple of the chunk size.  That one is taken to   *)
(* be empty, a fault by which no file can have the size of 255*250 bytes   *)
(* that README.md:29 names (claim_full_chunk).                             *)
(***************************************************************************)
BytesOf(c) ==
  c * chunkSize .. c * chunkSize + ChunkLength(c, progress, chunkSize) - 1

ChunksCoverTheFile ==
  LET n == progress.numberOfChunksNeeded
      size == progress.fileSize
      covered == IF size % chunkSize = 0 THEN size - chunkSize ELSE size
  IN /\ UNION {BytesOf(c) : c \in 0 .. n - 1} = 0 .. covered - 1
     /\ \A c \in 0 .. n - 1 : \A b \in BytesOf(c) : b \div chunkSize = c
=============================================================================
