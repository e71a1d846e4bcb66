--------------------------- MODULE ProgressProofs ---------------------------
(***************************************************************************)
(* Theorems about the progress record, for every chunk size and count.     *)
(***************************************************************************)
EXTENDS ProgressLife, WellFoundedInduction, TLAPS

(* The reach of the search in a file of n chunks, as a bound on the chunk. *)
LEMMA Reach ==
  ASSUME NEW d \in Nat, NEW n \in Nat
  PROVE  InReach(d, n) <=> d < n - n \div 9
<1> DEFINE q == d \div 8
           k == n \div 9
<1>1. q \in Nat /\ 8 * q <= d /\ d < 8 * q + 8
  OBVIOUS
<1>2. k \in Nat /\ 9 * k <= n /\ n < 9 * k + 9
  OBVIOUS
<1> HIDE DEF q, k
<1>3. ASSUME d + q < n PROVE d < n - k
  BY <1>1, <1>2, <1>3
<1>4. ASSUME d < n - k PROVE d + q < n
  BY <1>1, <1>2, <1>4
<1> QED
  BY <1>3, <1>4 DEF InReach, q, k

(* What the record keeps while chunks are marked done. *)
ProgressInv ==
  /\ progress.chunkStatus \in SUBSET UInt8
  /\ progress.numberOfChunksNeeded \in UInt8

LEMMA InitProgress == LifeInit => ProgressInv
<1> SUFFICES ASSUME LifeInit PROVE ProgressInv
  OBVIOUS
<1>1. PICK n \in ChunkCounts : \E size \in SizesOf(n, chunkSize) : \E dirty \in Dirty(n) :
        progress = [ProgressInitialize(size, [chunkSize |-> chunkSize])
                      EXCEPT !.chunkStatus = @ \cap dirty]
  BY DEF LifeInit
<1>2. PICK size \in SizesOf(n, chunkSize) : \E dirty \in Dirty(n) :
        progress = [ProgressInitialize(size, [chunkSize |-> chunkSize])
                      EXCEPT !.chunkStatus = @ \cap dirty]
  BY <1>1
<1>3. PICK dirty \in Dirty(n) :
        progress = [ProgressInitialize(size, [chunkSize |-> chunkSize])
                      EXCEPT !.chunkStatus = @ \cap dirty]
  BY <1>2
<1> DEFINE chunks == DivisionRoundedUp(size, chunkSize) % 256
<1>4. chunks \in UInt8
  <2>1. n \in Nat \ {0} /\ chunkSize \in Nat \ {0}
    BY ProgressLifeAssumption DEF LifeInit
  <2>2. (n - 1) * chunkSize \in Nat /\ n * chunkSize \in Nat
    BY <2>1
  <2>3. size \in Nat
    BY <2>2 DEF SizesOf
  <2>4. DivisionRoundedUp(size, chunkSize) \in Nat
    BY <2>1, <2>3 DEF DivisionRoundedUp
  <2> QED
    BY <2>4 DEF UInt8
<1>5. /\ progress.numberOfChunksNeeded = chunks
      /\ progress.chunkStatus = (0 .. chunks - 1) \cap dirty
  <2> HIDE DEF chunks
  <2>1. ProgressInitialize(size, [chunkSize |-> chunkSize]) =
          [NoProgress EXCEPT !.running              = TRUE,
                             !.fileSize             = size,
                             !.chunkStatus          = 0 .. chunks - 1,
                             !.numberOfChunksNeeded = chunks]
    BY DEF ProgressInitialize, chunks
  <2> QED
    BY <1>3, <2>1 DEF NoProgress
<1> HIDE DEF chunks
<1>6. 0 .. chunks - 1 \subseteq UInt8
  BY <1>4 DEF UInt8
<1> QED
  BY <1>4, <1>5, <1>6 DEF ProgressInv

LEMMA ProgressStep == ProgressInv /\ [LifeNext]_lifeVars => ProgressInv'
<1> SUFFICES ASSUME ProgressInv, [LifeNext]_lifeVars PROVE ProgressInv'
  OBVIOUS
<1>1. CASE UNCHANGED lifeVars
  BY <1>1 DEF lifeVars, ProgressInv
<1>2. CASE LifeNext
  <2>1. PICK c \in 0 .. progress.numberOfChunksNeeded :
          progress' = ProgressSetChunkDone(progress, c)
    BY <1>2 DEF LifeNext
  <2>2. /\ progress'.chunkStatus \subseteq progress.chunkStatus
        /\ progress'.numberOfChunksNeeded = progress.numberOfChunksNeeded
    BY <2>1 DEF ProgressSetChunkDone
  <2> QED
    BY <2>2 DEF ProgressInv
<1> QED
  BY <1>1, <1>2

(***************************************************************************)
(* Of a file of n chunks, whatever n, the search for a dirty chunk misses  *)
(* the last n div 9 and no other (progressGetFirstDirty 425-429): a file   *)
(* of nine chunks or more can be taken for complete when it is not, one of *)
(* eight or fewer cannot.                                                  *)
(***************************************************************************)
THEOREM SearchOverlooksTheTail == LifeSpec => []OverlooksOnlyTheTail
<1>1. ProgressInv => OverlooksOnlyTheTail
  <2> SUFFICES ASSUME ProgressInv PROVE OverlooksOnlyTheTail
    OBVIOUS
  <2>1. \A d \in progress.chunkStatus :
          InReach(d, progress.numberOfChunksNeeded)
          <=> d < progress.numberOfChunksNeeded - progress.numberOfChunksNeeded \div 9
    <3>1. progress.chunkStatus \subseteq Nat /\ progress.numberOfChunksNeeded \in Nat
      BY SMT DEF ProgressInv, UInt8
    <3> QED
      BY <3>1, Reach
  <2> QED
    BY <2>1 DEF OverlooksOnlyTheTail, DirtyFound
<1> QED
  BY <1>1, InitProgress, ProgressStep, PTL DEF LifeSpec

-----------------------------------------------------------------------------
(***************************************************************************)
(* What the loop of progressGetFirstDirty finds, for every bitmap: the     *)
(* closed form of it from any values of its variables on.                  *)
(***************************************************************************)

(* Where the loop goes on looking; a zero byte is left as a whole. *)
LooksFrom(dirty, c) ==
  IF ByteIsZero(dirty, c.byteIdx) THEN 8 * c.byteIdx ELSE 8 * c.byteIdx + c.bitIdx

(* What chunksLeft loses before chunk d is looked at: one for each chunk,   *)
(* and one more for each byte that is skipped.                              *)
Cost(dirty, c, d) ==
  IF ByteIsZero(dirty, c.byteIdx)
  THEN d + (d \div 8) - 9 * c.byteIdx - c.bitIdx
  ELSE d - 8 * c.byteIdx - c.bitIdx

IsFound(dirty, c, d) ==
  /\ c.chunksLeft > 0
  /\ d \in dirty /\ LooksFrom(dirty, c) <= d
  /\ \A e \in dirty : LooksFrom(dirty, c) <= e => d <= e
  /\ Cost(dirty, c, d) < c.chunksLeft

Outcome(dirty, c) ==
  IF \E d \in dirty : IsFound(dirty, c, d)
  THEN CHOOSE d \in dirty : IsFound(dirty, c, d)
  ELSE FEEDBACK_FILE_IS_READY

(* Every set of bytes that is not empty has a least element. *)
LEMMA LeastChunk ==
  ASSUME NEW S \in SUBSET UInt8, S # {}
  PROVE  \E d \in S : \A c \in S : d <= c
<1> DEFINE R == OpToRel(<, Nat)
<1>1. S \subseteq Nat
  BY SMT DEF UInt8
<1>2. IsWellFoundedOn(R, Nat)
  BY NatLessThanWellFounded
<1>3. \A x, y \in Nat : <<x, y>> \in R <=> x < y
  BY Zenon DEF OpToRel
<1> HIDE DEF R
<1>4. PICK d \in S : \A c \in S : <<c, d>> \notin R
  BY <1>1, <1>2, WFMin, Zenon
<1>5. \A c \in S : ~(c < d)
  BY <1>1, <1>3, <1>4
<1> QED
  BY <1>1, <1>5

LEMMA OutcomeIs ==
  ASSUME NEW dirty \in SUBSET UInt8, NEW c, NEW d \in dirty, IsFound(dirty, c, d)
  PROVE  Outcome(dirty, c) = d
<1>1. dirty \subseteq Nat
  BY SMT DEF UInt8
<1>2. ASSUME NEW e \in dirty, IsFound(dirty, c, e) PROVE e = d
  <2>1. d <= e /\ e <= d
    BY <1>2 DEF IsFound
  <2> QED
    BY <1>1, <2>1
<1> QED
  BY <1>2 DEF Outcome

(* What is found in both cases is the same, if anything is. *)
LEMMA OutcomesAgree ==
  ASSUME NEW dirty \in SUBSET UInt8, NEW c, NEW k,
         \A d \in dirty : IsFound(dirty, c, d) <=> IsFound(dirty, k, d)
  PROVE  Outcome(dirty, c) = Outcome(dirty, k)
<1>1. CASE \E d \in dirty : IsFound(dirty, c, d)
  BY <1>1, OutcomeIs
<1>2. CASE ~\E d \in dirty : IsFound(dirty, c, d)
  BY <1>2 DEF Outcome
<1> QED
  BY <1>1, <1>2

(* The byte of a chunk. *)
LEMMA ByteOfChunk ==
  ASSUME NEW d \in Nat
  PROVE  /\ d \div 8 \in Nat /\ 8 * (d \div 8) <= d /\ d < 8 * (d \div 8) + 8
         /\ \A y \in Nat : d \in 8 * y .. 8 * y + 7 <=> d \div 8 = y
<1> DEFINE q == d \div 8
<1>1. q \in Nat /\ 8 * q <= d /\ d < 8 * q + 8
  OBVIOUS
<1> HIDE DEF q
<1>2. \A y \in Nat : d \in 8 * y .. 8 * y + 7 <=> q = y
  BY <1>1
<1> QED
  BY <1>1, <1>2 DEF q

(* An iteration of the loop keeps what will be found. *)
LEMMA WalkOnFinds ==
  ASSUME NEW dirty \in SUBSET UInt8, NEW c \in Cursor
  PROVE  WalkOn([k \in Cursor |-> Outcome(dirty, k)], dirty, c) = Outcome(dirty, c)
<1> DEFINE H == [k \in Cursor |-> Outcome(dirty, k)]
           left == c.chunksLeft
           y == c.byteIdx
           b == c.bitIdx
<1>1. left \in Nat /\ y \in Nat /\ b \in Nat
  BY DEF Cursor
<1>2. dirty \subseteq Nat
  BY SMT DEF UInt8
<1>3. ASSUME \A d \in dirty : ~IsFound(dirty, c, d)
      PROVE  Outcome(dirty, c) = FEEDBACK_FILE_IS_READY
  BY <1>3 DEF Outcome
<1>4. CASE left = 0
  <2>1. \A d \in dirty : ~IsFound(dirty, c, d)
    BY <1>4 DEF IsFound
  <2> QED
    BY <1>3, <1>4, <2>1 DEF WalkOn
<1>5. CASE left # 0 /\ ByteIsZero(dirty, y)
  <2>1. \A d \in dirty : IsFound(dirty, c, d) <=>
          /\ 8 * y <= d /\ \A e \in dirty : 8 * y <= e => d <= e
          /\ d + (d \div 8) - 9 * y - b < left
    BY <1>1, <1>5 DEF IsFound, LooksFrom, Cost
  <2>2. \A d \in dirty : /\ d \in Nat /\ d \div 8 \in Nat
                         /\ 8 * (d \div 8) <= d /\ d < 8 * (d \div 8) + 8
                         /\ d \div 8 # y
    BY <1>1, <1>2, <1>5, ByteOfChunk DEF ByteIsZero
  <2>3. \A d \in dirty : 8 * y <= d <=> 8 * (y + 1) <= d
    <3> SUFFICES ASSUME NEW d \in dirty PROVE 8 * y <= d <=> 8 * (y + 1) <= d
      OBVIOUS
    <3> DEFINE q == d \div 8
    <3>1. d \in Nat /\ q \in Nat /\ 8 * q <= d /\ d < 8 * q + 8 /\ q # y
      BY <2>2
    <3> HIDE DEF q, y
    <3> QED
      BY <1>1, <3>1
  <2>4. CASE left - 1 > 8 - b
    <3> DEFINE k == [chunksLeft |-> (left - 1) - (8 - b), byteIdx |-> y + 1, bitIdx |-> 0]
    <3>1. k \in Cursor
      BY <1>1, <2>4 DEF Cursor
    <3>2. WalkOn(H, dirty, c) = Outcome(dirty, k)
      BY <1>5, <2>4, <3>1 DEF WalkOn
    <3>3. k.chunksLeft = left + b - 9 /\ k.byteIdx = y + 1 /\ k.bitIdx = 0
      BY <1>1
    <3> HIDE DEF k
    <3>4. LooksFrom(dirty, k) = 8 * (y + 1)
      BY <1>1, <3>3 DEF LooksFrom
    <3>5. ASSUME NEW d \in dirty, 8 * (y + 1) <= d,
                 \A e \in dirty : 8 * (y + 1) <= e => d <= e
          PROVE  Cost(dirty, k, d) = d + (d \div 8) - 9 * (y + 1)
      <4>1. CASE ByteIsZero(dirty, y + 1)
        BY <1>1, <2>2, <3>3, <4>1 DEF Cost
      <4>2. CASE ~ByteIsZero(dirty, y + 1)
        <5>1. PICK e \in dirty : e \in 8 * (y + 1) .. 8 * (y + 1) + 7
          BY <4>2 DEF ByteIsZero
        <5>2. d <= e
          BY <1>1, <2>2, <3>5, <5>1
        <5>3. d \div 8 = y + 1
          BY <1>1, <2>2, <3>5, <5>1, <5>2
        <5>4. Cost(dirty, k, d) = d - 8 * (y + 1) - 0
          BY <3>3, <4>2 DEF Cost
        <5> QED
          BY <1>1, <2>2, <5>3, <5>4
      <4> QED
        BY <4>1, <4>2
    <3>6. \A d \in dirty : IsFound(dirty, c, d) <=> IsFound(dirty, k, d)
      <4> SUFFICES ASSUME NEW d \in dirty
                   PROVE  IsFound(dirty, c, d) <=> IsFound(dirty, k, d)
        OBVIOUS
      <4> DEFINE Least == 8 * (y + 1) <= d /\ \A e \in dirty : 8 * (y + 1) <= e => d <= e
                 q == d \div 8
      <4>1. IsFound(dirty, c, d) <=> Least /\ d + q - 9 * y - b < left
        BY <2>1, <2>3
      <4>2. IsFound(dirty, k, d) <=> Least /\ Cost(dirty, k, d) < left + b - 9
        BY <1>1, <2>4, <3>3, <3>4 DEF IsFound
      <4>3. Least => Cost(dirty, k, d) = d + q - 9 * (y + 1)
        BY <3>5
      <4>4. q \in Nat /\ d \in Nat
        BY <2>2
      <4> HIDE DEF Least, q
      <4>5. d + q - 9 * (y + 1) < left + b - 9 <=> d + q - 9 * y - b < left
        BY <1>1, <4>4
      <4> QED
        BY <4>1, <4>2, <4>3, <4>5
    <3> QED
      BY <3>2, <3>6, OutcomesAgree
  <2>5. CASE ~(left - 1 > 8 - b)
    <3>1. WalkOn(H, dirty, c) = FEEDBACK_FILE_IS_READY
      BY <1>5, <2>5 DEF WalkOn
    <3>2. ASSUME NEW d \in dirty, IsFound(dirty, c, d) PROVE FALSE
      <4> DEFINE q == d \div 8
      <4>1. 8 * (y + 1) <= d /\ d + q - 9 * y - b < left
        BY <2>1, <2>3, <3>2
      <4>2. q \in Nat /\ d \in Nat /\ 8 * q <= d /\ d < 8 * q + 8
        BY <2>2
      <4> HIDE DEF q
      <4> QED
        BY <1>1, <2>5, <4>1, <4>2
    <3> QED
      BY <1>3, <3>1, <3>2
  <2> QED
    BY <2>4, <2>5
<1>6. CASE left # 0 /\ ~ByteIsZero(dirty, y)
  <2> DEFINE at == 8 * y + b
  <2>1. at \in Nat
    BY <1>1
  <2>2. \A d \in dirty : IsFound(dirty, c, d) <=>
          /\ at <= d /\ \A e \in dirty : at <= e => d <= e
          /\ d - 8 * y - b < left
    BY <1>1, <1>6 DEF IsFound, LooksFrom, Cost
  <2>3. CASE at \in dirty
    <3>1. IsFound(dirty, c, at)
      BY <1>1, <1>2, <1>6, <2>1, <2>2, <2>3
    <3>2. Outcome(dirty, c) = at
      BY <2>3, <3>1, OutcomeIs
    <3> QED
      BY <1>6, <2>3, <3>2 DEF WalkOn
  <2>4. CASE at \notin dirty
    <3> DEFINE k == [chunksLeft |-> left - 1, byteIdx |-> y, bitIdx |-> b + 1]
    <3>1. k \in Cursor
      BY <1>1, <1>6 DEF Cursor
    <3>2. WalkOn(H, dirty, c) = Outcome(dirty, k)
      BY <1>6, <2>4, <3>1 DEF WalkOn
    <3>3. k.chunksLeft = left - 1 /\ k.byteIdx = y /\ k.bitIdx = b + 1
      OBVIOUS
    <3> HIDE DEF k
    <3>4. \A d \in dirty : at <= d <=> at + 1 <= d
      BY <1>2, <2>1, <2>4
    <3>5. LooksFrom(dirty, k) = at + 1
      BY <1>1, <1>6, <3>3 DEF LooksFrom
    <3>6. ASSUME NEW d \in dirty
          PROVE  IsFound(dirty, c, d) <=> IsFound(dirty, k, d)
      <4>1. Cost(dirty, k, d) = d - 8 * y - (b + 1)
        BY <1>6, <3>3 DEF Cost
      <4> DEFINE Least == at + 1 <= d /\ \A e \in dirty : at + 1 <= e => d <= e
      <4>2. IsFound(dirty, c, d) <=> Least /\ d - 8 * y - b < left
        <5> HIDE DEF at
        <5> QED
          BY <2>2, <3>4
      <4>3. IsFound(dirty, k, d) <=>
              Least /\ left - 1 > 0 /\ d - 8 * y - (b + 1) < left - 1
        <5> HIDE DEF at
        <5> QED
          BY <3>3, <3>5, <4>1 DEF IsFound
      <4>4. Least => at + 1 <= d
        OBVIOUS
      <4> HIDE DEF Least
      <4> QED
        BY <1>1, <1>2, <1>6, <4>2, <4>3, <4>4
    <3> QED
      BY <3>2, <3>6, OutcomesAgree
  <2> QED
    BY <2>3, <2>4
<1> QED
  BY <1>4, <1>5, <1>6

(* There is such a function as the loop says. *)
Walk(dirty) == CHOOSE walk : walk = [c \in Cursor |-> WalkOn(walk, dirty, c)]

LEMMA WalkIs ==
  ASSUME NEW dirty \in SUBSET UInt8, NEW c \in Cursor
  PROVE  Walk(dirty)[c] = WalkOn(Walk(dirty), dirty, c)
<1> DEFINE H == [k \in Cursor |-> Outcome(dirty, k)]
           IsWalk(walk) == walk = [k \in Cursor |-> WalkOn(walk, dirty, k)]
<1>1. IsWalk(H)
  BY WalkOnFinds
<1>2. Walk(dirty) = CHOOSE walk : IsWalk(walk)
  BY DEF Walk
<1> HIDE DEF IsWalk, H
<1>3. IsWalk(Walk(dirty))
  BY <1>1, <1>2
<1> QED
  BY <1>3 DEF IsWalk

(* The values the variables of the loop get: within a byte it only walks    *)
(* when the byte is not zero.                                               *)
Reached(dirty, c) == c.bitIdx = 0 \/ ~ByteIsZero(dirty, c.byteIdx)

(* The loop ends, and finds what the closed form says. *)
LEMMA WalkFinds ==
  ASSUME NEW dirty \in SUBSET UInt8, NEW c \in Cursor,
         c.chunksLeft \in UInt8, Reached(dirty, c)
  PROVE  Walk(dirty)[c] = Outcome(dirty, c)
<1> DEFINE W == Walk(dirty)
           Wrong(k) == k \in Cursor /\ Reached(dirty, k) /\ W[k] # Outcome(dirty, k)
           S == {n \in UInt8 : \E k \in Cursor : Wrong(k) /\ k.chunksLeft = n}
<1> SUFFICES ASSUME S # {} PROVE FALSE
  OBVIOUS
<1>1. PICK n \in S : \A m \in S : n <= m
  <2>1. S \in SUBSET UInt8
    OBVIOUS
  <2> HIDE DEF S
  <2> QED
    BY <2>1, LeastChunk
<1>2. PICK k \in Cursor : Wrong(k) /\ k.chunksLeft = n
  OBVIOUS
<1>3. n \in Nat /\ n <= 255 /\ k.chunksLeft = n
      /\ k.byteIdx \in Nat /\ k.bitIdx \in Nat
  BY <1>1, <1>2 DEF UInt8, Cursor
<1>4. ASSUME NEW j \in Cursor, j.chunksLeft < n, Reached(dirty, j)
      PROVE  W[j] = Outcome(dirty, j)
  <2> SUFFICES ASSUME W[j] # Outcome(dirty, j) PROVE FALSE
    OBVIOUS
  <2>1. j.chunksLeft \in UInt8
    BY <1>3, <1>4 DEF Cursor, UInt8
  <2>2. j.chunksLeft \in S
    BY <1>4, <2>1
  <2> QED
    BY <1>1, <1>3, <1>4, <2>1, <2>2 DEF UInt8
<1> DEFINE H == [j \in Cursor |-> Outcome(dirty, j)]
<1>5. W[k] = WalkOn(W, dirty, k) /\ Outcome(dirty, k) = WalkOn(H, dirty, k)
  BY WalkIs, WalkOnFinds
<1>6. Reached(dirty, k) /\ W[k] # Outcome(dirty, k)
  BY <1>2
<1> HIDE DEF W, S, Wrong
<1>7. CASE n = 0
  BY <1>3, <1>5, <1>6, <1>7 DEF WalkOn
<1>8. CASE n # 0 /\ ByteIsZero(dirty, k.byteIdx)
  <2>1. k.bitIdx = 0
    BY <1>6, <1>8 DEF Reached
  <2>2. CASE n - 1 > 8 - k.bitIdx
    <3> DEFINE j == [chunksLeft |-> (n - 1) - (8 - k.bitIdx),
                     byteIdx    |-> k.byteIdx + 1,
                     bitIdx     |-> 0]
    <3>1. /\ j \in Cursor /\ j.chunksLeft < n /\ j.bitIdx = 0
      BY <1>3, <2>1, <2>2 DEF Cursor
    <3>2. WalkOn(W, dirty, k) = W[j] /\ WalkOn(H, dirty, k) = H[j]
      BY <1>3, <1>8, <2>2 DEF WalkOn
    <3> HIDE DEF j
    <3> QED
      BY <1>4, <1>5, <1>6, <3>1, <3>2 DEF Reached
  <2>3. CASE ~(n - 1 > 8 - k.bitIdx)
    BY <1>3, <1>5, <1>6, <1>8, <2>3 DEF WalkOn
  <2> QED
    BY <2>2, <2>3
<1>9. CASE n # 0 /\ ~ByteIsZero(dirty, k.byteIdx)
  <2>1. CASE 8 * k.byteIdx + k.bitIdx \in dirty
    BY <1>3, <1>5, <1>6, <1>9, <2>1 DEF WalkOn
  <2>2. CASE 8 * k.byteIdx + k.bitIdx \notin dirty
    <3> DEFINE j == [chunksLeft |-> n - 1,
                     byteIdx    |-> k.byteIdx,
                     bitIdx     |-> k.bitIdx + 1]
    <3>1. j \in Cursor /\ j.chunksLeft < n /\ j.byteIdx = k.byteIdx
      BY <1>3, <1>9 DEF Cursor
    <3>2. WalkOn(W, dirty, k) = W[j] /\ WalkOn(H, dirty, k) = H[j]
      BY <1>3, <1>9, <2>2 DEF WalkOn
    <3> HIDE DEF j
    <3> QED
      BY <1>4, <1>5, <1>6, <1>9, <3>1, <3>2 DEF Reached
  <2> QED
    BY <2>1, <2>2
<1> QED
  BY <1>7, <1>8, <1>9

(* The outcome from the beginning of the bitmap on. *)
LEMMA ClosedForm ==
  ASSUME NEW p, p.chunkStatus \in SUBSET UInt8, p.numberOfChunksNeeded \in UInt8
  PROVE  FirstDirtyWalk(p) =
           IF DirtyFound(p) THEN FirstDirty(p) ELSE FEEDBACK_FILE_IS_READY
<1> DEFINE dirty == p.chunkStatus
           n == p.numberOfChunksNeeded
           c == [chunksLeft |-> n, byteIdx |-> 0, bitIdx |-> 0]
<1>1. n \in Nat /\ dirty \subseteq Nat
  BY SMT DEF UInt8
<1>2. c \in Cursor
  BY <1>1 DEF Cursor
<1>3. FirstDirtyWalk(p) = Walk(dirty)[c]
  BY Zenon DEF FirstDirtyWalk, Walk
<1>4. c.chunksLeft = n /\ c.byteIdx = 0 /\ c.bitIdx = 0
  OBVIOUS
<1> HIDE DEF c
<1>5. FirstDirtyWalk(p) = Outcome(dirty, c)
  BY <1>2, <1>3, <1>4, WalkFinds DEF Reached
<1>6. LooksFrom(dirty, c) = 0
  BY <1>4 DEF LooksFrom
<1>7. ASSUME NEW d \in dirty, \A e \in dirty : d <= e
      PROVE  Cost(dirty, c, d) = d + (d \div 8)
  <2>1. CASE ByteIsZero(dirty, 0)
    BY <1>1, <1>4, <2>1 DEF Cost
  <2>2. CASE ~ByteIsZero(dirty, 0)
    <3>1. PICK e \in dirty : e \in 0 .. 7
      BY <2>2 DEF ByteIsZero
    <3>2. d \in Nat /\ d <= 7
      BY <1>1, <1>7, <3>1
    <3>3. d \div 8 = 0
      BY <3>2
    <3> QED
      BY <1>4, <2>2, <3>2, <3>3 DEF Cost
  <2> QED
    BY <2>1, <2>2
<1>8. \A d \in dirty : IsFound(dirty, c, d) <=>
        (\A e \in dirty : d <= e) /\ InReach(d, n)
  <2> SUFFICES ASSUME NEW d \in dirty
               PROVE  IsFound(dirty, c, d) <=>
                        (\A e \in dirty : d <= e) /\ InReach(d, n)
    OBVIOUS
  <2> DEFINE q == d \div 8
             Least == \A e \in dirty : d <= e
  <2>1. d \in Nat /\ q \in Nat
    BY <1>1, ByteOfChunk
  <2>2. IsFound(dirty, c, d) <=> n > 0 /\ Least /\ Cost(dirty, c, d) < n
    BY <1>1, <1>4, <1>6 DEF IsFound
  <2>3. Least => Cost(dirty, c, d) = d + q
    BY <1>7
  <2>4. InReach(d, n) <=> d + q < n
    BY DEF InReach
  <2> HIDE DEF q, Least
  <2>5. IsFound(dirty, c, d) <=> Least /\ InReach(d, n)
    BY <1>1, <2>1, <2>2, <2>3, <2>4
  <2> QED
    BY <2>5 DEF Least
<1>9. CASE DirtyFound(p)
  <2>1. PICK d \in dirty : InReach(d, n)
    BY <1>9 DEF DirtyFound
  <2>2. PICK f \in dirty : \A e \in dirty : f <= e
    <3> HIDE DEF dirty
    <3> QED
      BY <2>1, LeastChunk DEF dirty
  <2>3. InReach(f, n)
    <3> DEFINE q == d \div 8
               r == f \div 8
    <3>1. /\ d \in Nat /\ f \in Nat /\ f <= d /\ q \in Nat /\ r \in Nat
          /\ 8 * r <= f /\ d < 8 * q + 8
      BY <1>1, <2>2, ByteOfChunk
    <3>2. d + q < n
      BY <2>1 DEF InReach
    <3> HIDE DEF q, r
    <3>3. f + r < n
      BY <1>1, <3>1, <3>2
    <3> QED
      BY <3>3 DEF InReach, r
  <2>4. Outcome(dirty, c) = f
    BY <1>8, <2>2, <2>3, OutcomeIs
  <2>5. FirstDirty(p) = f
    <3>1. \A e \in dirty : (\A x \in dirty : e <= x) => e = f
      BY <1>1, <2>2
    <3> QED
      BY <2>2, <3>1 DEF FirstDirty
  <2> QED
    BY <1>5, <1>9, <2>4, <2>5
<1>10. CASE ~DirtyFound(p)
  <2>1. \A d \in dirty : ~IsFound(dirty, c, d)
    BY <1>8, <1>10 DEF DirtyFound
  <2> QED
    BY <1>5, <1>10, <2>1 DEF Outcome
<1> QED
  BY <1>9, <1>10

(***************************************************************************)
(* Whatever the size of the file and whichever chunks are missing: the     *)
(* loop of progressGetFirstDirty (399-454) ends, with the first dirty      *)
(* chunk when that is in reach and with none when it is not, which is the  *)
(* form in which the endpoints are modelled.                               *)
(***************************************************************************)
THEOREM LoopIsItsClosedForm == LifeSpec => []WalkMatchesClosedForm
<1>1. ProgressInv => WalkMatchesClosedForm
  <2> SUFFICES ASSUME ProgressInv PROVE WalkMatchesClosedForm
    OBVIOUS
  <2> QED
    BY ClosedForm DEF ProgressInv, WalkMatchesClosedForm
<1> QED
  BY <1>1, InitProgress, ProgressStep, PTL DEF LifeSpec

-----------------------------------------------------------------------------
(* The chunks and the bytes of a file. *)

LEMMA MultiplesCompare ==
  ASSUME NEW s \in Nat \ {0}, NEW a \in Nat, NEW b \in Nat
  PROVE  /\ a < b => a * s + s <= b * s
         /\ a * s < b * s => a < b
<1>1. ASSUME NEW x \in Nat, NEW y \in Nat, x < y PROVE x * s + s <= y * s
  <2>1. PICK d \in Nat : y = x + 1 + d
    <3>1. y - x - 1 \in Nat /\ y = x + 1 + (y - x - 1)
      BY <1>1
    <3> QED
      BY <3>1
  <2>2. y * s = x * s + s + d * s /\ d * s >= 0 /\ x * s \in Nat
    BY <2>1
  <2> QED
    BY <2>2
<1>2. ASSUME a * s < b * s PROVE a < b
  <2>1. a # b
    BY <1>2
  <2>2. ~(b < a)
    <3> SUFFICES ASSUME b < a PROVE FALSE
      OBVIOUS
    <3>1. b * s + s <= a * s /\ a * s \in Nat /\ b * s \in Nat
      BY <1>1
    <3> QED
      BY <1>2, <3>1
  <2> QED
    BY <2>1, <2>2
<1> QED
  BY <1>1, <1>2

(* The quotient is the only one that leaves less than the divider. *)
LEMMA QuotientIs ==
  ASSUME NEW s \in Nat \ {0}, NEW q \in Nat, NEW b \in Nat,
         q * s <= b, b < q * s + s
  PROVE  b \div s = q
<1> DEFINE d == b \div s
           m == b % s
<1>1. d \in Nat /\ m \in Nat /\ m < s /\ b = d * s + m
  OBVIOUS
<1> HIDE DEF d, m
<1>2. d * s \in Nat /\ q * s \in Nat
  BY <1>1
<1>3. ~(d < q)
  BY <1>1, <1>2, MultiplesCompare
<1>4. ~(q < d)
  BY <1>1, <1>2, MultiplesCompare
<1> QED
  BY <1>1, <1>3, <1>4 DEF d

(* A size that makes n chunks: n - 1 full ones and, where it is no multiple *)
(* of the chunk size, the remainder.                                        *)
LEMMA SizeOfChunks ==
  ASSUME NEW s \in Nat \ {0}, NEW n \in Nat \ {0}, NEW size \in SizesOf(n, s)
  PROVE  /\ size \in Nat /\ DivisionRoundedUp(size, s) = n
         /\ size % s \in Nat /\ size % s < s
         /\ (n - 1) * s + (size % s) = IF size % s = 0 THEN size - s ELSE size
<1> DEFINE q == size \div s
           r == size % s
           k == n - 1
<1>1. /\ k \in Nat /\ n = k + 1 /\ k * s \in Nat /\ n * s = k * s + s
      /\ size \in k * s + 1 .. n * s
  BY DEF SizesOf
<1>2. size \in Nat /\ k * s < size /\ size <= k * s + s
  BY <1>1
<1>3. q \in Nat /\ r \in Nat /\ r < s /\ size = q * s + r
  BY <1>2
<1>4. DivisionRoundedUp(size, s) = IF r = 0 THEN q ELSE q + 1
  BY DEF DivisionRoundedUp
<1> HIDE DEF q, r, k
<1>5. CASE r = 0
  <2>1. k < q
    BY <1>1, <1>2, <1>3, <1>5, MultiplesCompare
  <2>2. ~(k + 1 < q)
    <3>1. (k + 1) * s = k * s + s /\ (k + 1) * s \in Nat /\ q * s \in Nat /\ k + 1 \in Nat
      BY <1>1, <1>3
    <3>2. k + 1 < q => (k + 1) * s + s <= q * s
      BY <1>3, <3>1, MultiplesCompare
    <3> QED
      BY <1>2, <1>3, <1>5, <3>1, <3>2
  <2>3. q = n
    BY <1>1, <1>3, <2>1, <2>2
  <2> QED
    BY <1>1, <1>2, <1>3, <1>4, <1>5, <2>3 DEF r, k
<1>6. CASE r # 0
  <2>1. ~(q < k)
    <3>1. q < k => q * s + s <= k * s
      BY <1>1, <1>3, MultiplesCompare
    <3>2. q * s \in Nat
      BY <1>3
    <3> QED
      BY <1>1, <1>2, <1>3, <3>1, <3>2
  <2>2. ~(k < q)
    <3>1. k < q => k * s + s <= q * s
      BY <1>1, <1>3, MultiplesCompare
    <3>2. q * s \in Nat
      BY <1>3
    <3> QED
      BY <1>1, <1>2, <1>3, <1>6, <3>1, <3>2
  <2>3. q = k
    BY <1>1, <1>3, <2>1, <2>2
  <2> QED
    BY <1>1, <1>2, <1>3, <1>4, <1>6, <2>3 DEF r, k
<1> QED
  BY <1>3, <1>5, <1>6

(* The record of a file says how its bytes fall into chunks. *)
CoverInv ==
  LET n    == progress.numberOfChunksNeeded
      size == progress.fileSize
  IN /\ chunkSize \in Nat \ {0} /\ n \in Nat \ {0}
     /\ size % chunkSize \in Nat /\ size % chunkSize < chunkSize
     /\ (n - 1) * chunkSize + (size % chunkSize)
          = IF size % chunkSize = 0 THEN size - chunkSize ELSE size

LEMMA InitCovers == ASSUME ChunkCounts \subseteq 1 .. 255 PROVE LifeInit => CoverInv
<1> SUFFICES ASSUME LifeInit PROVE CoverInv
  OBVIOUS
<1>1. PICK n \in ChunkCounts : \E size \in SizesOf(n, chunkSize) : \E dirty \in Dirty(n) :
        progress = [ProgressInitialize(size, [chunkSize |-> chunkSize])
                      EXCEPT !.chunkStatus = @ \cap dirty]
  BY DEF LifeInit
<1>2. PICK size \in SizesOf(n, chunkSize) : \E dirty \in Dirty(n) :
        progress = [ProgressInitialize(size, [chunkSize |-> chunkSize])
                      EXCEPT !.chunkStatus = @ \cap dirty]
  BY <1>1
<1>3. PICK dirty \in Dirty(n) :
        progress = [ProgressInitialize(size, [chunkSize |-> chunkSize])
                      EXCEPT !.chunkStatus = @ \cap dirty]
  BY <1>2
<1>4. n \in 1 .. 255 /\ chunkSize \in Nat \ {0}
  BY ProgressLifeAssumption DEF LifeInit
<1>5. /\ DivisionRoundedUp(size, chunkSize) = n
      /\ size % chunkSize \in Nat /\ size % chunkSize < chunkSize
      /\ (n - 1) * chunkSize + (size % chunkSize)
           = IF size % chunkSize = 0 THEN size - chunkSize ELSE size
  BY <1>4, SizeOfChunks
<1>6. n % 256 = n
  BY <1>4
<1>7. progress.numberOfChunksNeeded = n /\ progress.fileSize = size
  <2>1. ProgressInitialize(size, [chunkSize |-> chunkSize]) =
          [NoProgress EXCEPT !.running              = TRUE,
                             !.fileSize             = size,
                             !.chunkStatus          = 0 .. n - 1,
                             !.numberOfChunksNeeded = n]
    BY <1>5, <1>6 DEF ProgressInitialize
  <2> QED
    BY <1>3, <2>1 DEF NoProgress
<1> QED
  BY <1>4, <1>5, <1>7 DEF CoverInv

LEMMA CoverStep == CoverInv /\ [LifeNext]_lifeVars => CoverInv'
<1> SUFFICES ASSUME CoverInv, [LifeNext]_lifeVars PROVE CoverInv'
  OBVIOUS
<1>1. /\ chunkSize' = chunkSize
      /\ progress'.numberOfChunksNeeded = progress.numberOfChunksNeeded
      /\ progress'.fileSize = progress.fileSize
  <2>1. CASE UNCHANGED lifeVars
    BY <2>1 DEF lifeVars
  <2>2. CASE LifeNext
    <3>1. PICK c \in 0 .. progress.numberOfChunksNeeded :
            progress' = ProgressSetChunkDone(progress, c)
      BY <2>2 DEF LifeNext
    <3> QED
      BY <2>2, <3>1 DEF LifeNext, ProgressSetChunkDone
  <2> QED
    BY <2>1, <2>2
<1> QED
  BY <1>1 DEF CoverInv

LEMMA CoverInvImplies == CoverInv => ChunksCoverTheFile
<1> SUFFICES ASSUME CoverInv PROVE ChunksCoverTheFile
  OBVIOUS
<1> DEFINE n       == progress.numberOfChunksNeeded
           size    == progress.fileSize
           s       == chunkSize
           r       == size % s
           covered == IF r = 0 THEN size - s ELSE size
<1>1. /\ s \in Nat \ {0} /\ n \in Nat \ {0} /\ r \in Nat /\ r < s
      /\ covered = (n - 1) * s + r
  BY DEF CoverInv
<1>2. \A c \in 0 .. n - 1 :
        BytesOf(c) = c * s .. c * s + (IF c = n - 1 THEN r ELSE s) - 1
  BY DEF BytesOf, ChunkLength
<1> SUFFICES /\ UNION {BytesOf(c) : c \in 0 .. n - 1} = 0 .. covered - 1
             /\ \A c \in 0 .. n - 1 : \A b \in BytesOf(c) : b \div s = c
  BY DEF ChunksCoverTheFile
<1> HIDE DEF n, s, r, covered
<1>3. ASSUME NEW c \in 0 .. n - 1, NEW b \in BytesOf(c)
      PROVE  b \in 0 .. covered - 1 /\ b \div s = c
  <2>1. /\ c \in Nat /\ c * s \in Nat /\ b \in Nat /\ c * s <= b
        /\ b < c * s + (IF c = n - 1 THEN r ELSE s)
    BY <1>1, <1>2, <1>3
  <2>2. b \div s = c
    BY <1>1, <2>1, QuotientIs
  <2>3. b < covered
    <3>1. CASE c = n - 1
      BY <1>1, <2>1, <3>1
    <3>2. CASE c # n - 1
      <4>1. c < n - 1 /\ n - 1 \in Nat
        BY <1>1, <2>1, <3>2
      <4>2. c * s + s <= (n - 1) * s /\ (n - 1) * s \in Nat
        BY <1>1, <2>1, <4>1, MultiplesCompare
      <4> QED
        BY <1>1, <2>1, <3>2, <4>2
    <3> QED
      BY <3>1, <3>2
  <2>4. covered \in Nat
    BY <1>1
  <2> QED
    BY <2>1, <2>2, <2>3, <2>4
<1>4. ASSUME NEW b \in 0 .. covered - 1
      PROVE  \E c \in 0 .. n - 1 : b \in BytesOf(c)
  <2> DEFINE c == b \div s
             m == b % s
  <2>1. b \in Nat /\ b < (n - 1) * s + r /\ (n - 1) * s \in Nat /\ n - 1 \in Nat
    BY <1>1
  <2>2. c \in Nat /\ m \in Nat /\ m < s /\ b = c * s + m
    BY <1>1, <2>1
  <2> HIDE DEF c, m
  <2>3. c * s \in Nat
    BY <1>1, <2>2
  <2>4. ~(n - 1 < c)
    <3>1. n - 1 < c => (n - 1) * s + s <= c * s
      BY <1>1, <2>1, <2>2, MultiplesCompare
    <3> QED
      BY <1>1, <2>1, <2>2, <2>3, <3>1
  <2>5. c \in 0 .. n - 1
    BY <1>1, <2>1, <2>2, <2>4
  <2>6. b < c * s + (IF c = n - 1 THEN r ELSE s)
    BY <1>1, <2>1, <2>2, <2>3
  <2>7. b \in c * s .. c * s + (IF c = n - 1 THEN r ELSE s) - 1
    BY <1>1, <2>1, <2>2, <2>3, <2>6
  <2> QED
    BY <1>2, <2>5, <2>7
<1> QED
  BY <1>3, <1>4

(***************************************************************************)
(* Whatever its size: the chunks of a file cover it without overlap, each  *)
(* byte being of the chunk its offset says, but for a last chunk of the    *)
(* full size, which is taken to be empty (THERMIT_FILE_OFFSET and          *)
(* THERMIT_CHUNK_LENGTH_TX).  The chunk count of the record is 8 bits wide.*)
(***************************************************************************)
THEOREM EveryFileIsCovered ==
  ASSUME ChunkCounts \subseteq 1 .. 255
  PROVE  LifeSpec => []ChunksCoverTheFile
  BY InitCovers, CoverStep, CoverInvImplies, PTL DEF LifeSpec
=============================================================================
