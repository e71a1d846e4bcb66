------------------------- MODULE ThermitParameters -------------------------
(***************************************************************************)
(* The parameter set that master and slave negotiate during the handshake, *)
(* and the three functions of thermit.c that work on it.  Every field is a *)
(* uint16_t that travels in a frame (deSerialize-/serializeParameterStruct *)
(* copy all five fields), so a set received is the set that was sent.      *)
(***************************************************************************)
EXTENDS Integers

CONSTANT
  ChunkCountMax     \* THERMIT_CHUNK_COUNT_MAX, 250 in the code

(* Chunk numbers and the chunk count are uint8_t. *)
ASSUME ChunkCountMaxAssumption == ChunkCountMax \in 1..255

MaxUInt16 == 65535
UInt16 == 0..MaxUInt16

Parameters == [version     : UInt16,
               chunkSize   : UInt16 \ {0},
               maxFileSize : UInt16,
               keepAliveMs : UInt16,
               burstLength : UInt16]

(* Mutant: the comparison the wrong way round. *)
Min2Reversed(a, b) == IF a > b THEN a ELSE b

(* GET_MIN *)
Min2(a, b) == IF a < b THEN a ELSE b

(***************************************************************************)
(* initializeParameters for a build whose THERMIT_PAYLOAD_SIZE is          *)
(* chunkSize: the set every new instance starts from.                      *)
(***************************************************************************)
InitialParameters(chunkSize) ==
  [version     |-> 0,
   chunkSize   |-> chunkSize,
   maxFileSize |-> chunkSize * ChunkCountMax,
   keepAliveMs |-> 1000,
   burstLength |-> 4]

(* Mutants: the burst length of the other end, and the mean of the two. *)
CommonBurstLengthOfSecond(p, q, chunks) == Min2(q.burstLength, chunks)
CommonBurstLengthMean(p, q, chunks) == Min2((p.burstLength + q.burstLength) \div 2, chunks)

(* A burst of the p end that is no longer than a file of so many chunks: the *)
(* last assignment to burstLength overwrites what q had to say.              *)
CommonBurstLength(p, q, chunks) == Min2(p.burstLength, chunks)

(* The compromise of p and q. *)
FindBestCommonParameterSet(p, q) ==
  LET chunkSize   == Min2(p.chunkSize, q.chunkSize)
      maxFileSize == Min2(Min2(p.maxFileSize, q.maxFileSize),
                          chunkSize * ChunkCountMax)
  IN [version     |-> Min2(p.version, q.version),
      chunkSize   |-> chunkSize,
      maxFileSize |-> maxFileSize,
      keepAliveMs |-> Min2(p.keepAliveMs, q.keepAliveMs),
      burstLength |-> CommonBurstLength(p, q, maxFileSize \div chunkSize)]

(***************************************************************************)
(* compareParameterSet compares sizeof - 1 bytes: the high byte of         *)
(* burstLength, the last field of the little-endian struct, is not looked  *)
(* at.                                                                     *)
(***************************************************************************)
CompareParameterSet(p, q) ==
  /\ p.version = q.version
  /\ p.chunkSize = q.chunkSize
  /\ p.maxFileSize = q.maxFileSize
  /\ p.keepAliveMs = q.keepAliveMs
  /\ p.burstLength % 256 = q.burstLength % 256
=============================================================================
