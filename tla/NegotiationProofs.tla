------------------------- MODULE NegotiationProofs -------------------------
(***************************************************************************)
(* Theorems about the negotiation, for ends of any build.                  *)
(***************************************************************************)
EXTENDS Negotiation, ParameterLemmas

(* The compromise is no larger than either set, and it stays a number of   *)
(* chunks that a file may have.                                            *)
LEMMA FindBestBounds ==
  ASSUME NEW p \in Parameters, NEW q \in Parameters
  PROVE  LET r == FindBestCommonParameterSet(p, q)
         IN /\ r.chunkSize <= q.chunkSize
            /\ r.maxFileSize <= q.maxFileSize
            /\ r.maxFileSize <= r.chunkSize * ChunkCountMax
<1> DEFINE r == FindBestCommonParameterSet(p, q)
           c == Min2(p.chunkSize, q.chunkSize)
           n == c * ChunkCountMax
           m == Min2(p.maxFileSize, q.maxFileSize)
<1>1. /\ p.chunkSize \in Nat /\ q.chunkSize \in Nat
      /\ p.maxFileSize \in Nat /\ q.maxFileSize \in Nat
  BY UInt16Facts DEF Parameters
<1>2. r.chunkSize = c /\ r.maxFileSize = Min2(m, n)
  BY DEF FindBestCommonParameterSet
<1>3. c \in Nat /\ c <= q.chunkSize /\ m \in Nat /\ m <= q.maxFileSize
  BY <1>1 DEF Min2
<1>4. n \in Nat
  <2> HIDE DEF c
  <2> QED
    BY <1>3, ChunkCountMaxAssumption
<1> HIDE DEF c, n, m, r
<1>5. Min2(m, n) <= m /\ Min2(m, n) <= n
  BY <1>3, <1>4 DEF Min2
<1>6. Min2(m, n) <= q.maxFileSize
  <2>1. Min2(m, n) \in Nat
    BY <1>3, <1>4 DEF Min2
  <2> QED
    BY <1>1, <1>3, <1>5, <2>1
<1> QED
  BY <1>2, <1>3, <1>5, <1>6 DEF r, n

(* A compromise with p is what p and it would agree on, whoever asks. *)
LEMMA FindBestIdempotent ==
  ASSUME NEW p \in Parameters, NEW q \in Parameters
  PROVE  LET r == FindBestCommonParameterSet(p, q)
         IN /\ FindBestCommonParameterSet(p, r) = r
            /\ FindBestCommonParameterSet(r, p) = r
<1> DEFINE c == Min2(p.chunkSize, q.chunkSize)
           n == c * ChunkCountMax
           m == Min2(Min2(p.maxFileSize, q.maxFileSize), n)
           b == Min2(p.burstLength, m \div c)
           v == Min2(p.version, q.version)
           k == Min2(p.keepAliveMs, q.keepAliveMs)
           r == [version |-> v, chunkSize |-> c, maxFileSize |-> m,
                 keepAliveMs |-> k, burstLength |-> b]
<1>1. FindBestCommonParameterSet(p, q) = r
  BY DEF FindBestCommonParameterSet, CommonBurstLength
<1>2. /\ p.chunkSize \in Nat \ {0} /\ q.chunkSize \in Nat \ {0}
      /\ p.maxFileSize \in Nat /\ q.maxFileSize \in Nat
      /\ p.version \in Nat /\ q.version \in Nat
      /\ p.keepAliveMs \in Nat /\ q.keepAliveMs \in Nat
      /\ p.burstLength \in Nat
  BY UInt16Facts DEF Parameters
<1>3. c \in Nat \ {0} /\ Min2(p.chunkSize, c) = c /\ Min2(c, p.chunkSize) = c
  BY <1>2 DEF Min2
<1>4. /\ Min2(p.version, v) = v /\ Min2(v, p.version) = v
      /\ Min2(p.keepAliveMs, k) = k /\ Min2(k, p.keepAliveMs) = k
  BY <1>2 DEF Min2
<1>5. n \in Nat
  <2> HIDE DEF c
  <2> QED
    BY <1>3, ChunkCountMaxAssumption
<1>6. /\ m \in Nat
      /\ Min2(Min2(p.maxFileSize, m), n) = m /\ Min2(Min2(m, p.maxFileSize), n) = m
  <2> HIDE DEF n
  <2> QED
    BY <1>2, <1>5 DEF Min2
<1>7. m \div c \in Nat
  <2> HIDE DEF m, c
  <2> QED
    BY <1>3, <1>6
<1>8. Min2(p.burstLength, m \div c) = b /\ Min2(b, m \div c) = b
  <2> HIDE DEF m, c
  <2> QED
    BY <1>2, <1>7 DEF Min2
<1>9. /\ FindBestCommonParameterSet(p, r) =
           [version     |-> Min2(p.version, v),
            chunkSize   |-> Min2(p.chunkSize, c),
            maxFileSize |-> Min2(Min2(p.maxFileSize, m), Min2(p.chunkSize, c) * ChunkCountMax),
            keepAliveMs |-> Min2(p.keepAliveMs, k),
            burstLength |-> Min2(p.burstLength,
              Min2(Min2(p.maxFileSize, m), Min2(p.chunkSize, c) * ChunkCountMax)
                \div Min2(p.chunkSize, c))]
      /\ FindBestCommonParameterSet(r, p) =
           [version     |-> Min2(v, p.version),
            chunkSize   |-> Min2(c, p.chunkSize),
            maxFileSize |-> Min2(Min2(m, p.maxFileSize), Min2(c, p.chunkSize) * ChunkCountMax),
            keepAliveMs |-> Min2(k, p.keepAliveMs),
            burstLength |-> Min2(b,
              Min2(Min2(m, p.maxFileSize), Min2(c, p.chunkSize) * ChunkCountMax)
                \div Min2(c, p.chunkSize))]
  <2> HIDE DEF c, m, b, v, k
  <2> QED
    BY DEF FindBestCommonParameterSet, CommonBurstLength
<1>10. Min2(p.chunkSize, c) * ChunkCountMax = n /\ Min2(c, p.chunkSize) * ChunkCountMax = n
  BY <1>3
<1> HIDE DEF c, n, m, b, v, k
<1> QED
  BY <1>1, <1>3, <1>4, <1>6, <1>8, <1>9, <1>10

-----------------------------------------------------------------------------
(***************************************************************************)
(* The inductive invariant.  An answer is what its two ends would agree on *)
(* again, in either order of the arguments.                                *)
(***************************************************************************)
NegotiationInv ==
  /\ master \in Parameters /\ slave \in Parameters
  /\ built.chunkSize \in Nat /\ built.maxFileSize \in Nat
  /\ WithinItsBuild
  /\ answered => /\ FindBestCommonParameterSet(master, slave) = slave
                 /\ FindBestCommonParameterSet(slave, master) = slave

LEMMA InitNegotiation == NegotiationInit => NegotiationInv
<1> SUFFICES ASSUME NegotiationInit PROVE NegotiationInv
  OBVIOUS
<1>1. built \in Parameters /\ built.maxFileSize <= built.chunkSize * ChunkCountMax
  BY BuildsAssumption DEF NegotiationInit
<1>2. built.chunkSize \in Nat /\ built.maxFileSize \in Nat
  BY <1>1, UInt16Facts DEF Parameters
<1>3. WithinItsBuild
  BY <1>1, <1>2 DEF NegotiationInit, WithinItsBuild
<1> QED
  BY <1>1, <1>2, <1>3, BuildsAssumption DEF NegotiationInit, NegotiationInv

LEMMA NegotiationStep == NegotiationInv /\ [NegotiationNext]_negotiationVars => NegotiationInv'
<1> SUFFICES ASSUME NegotiationInv, [NegotiationNext]_negotiationVars PROVE NegotiationInv'
  OBVIOUS
<1>1. CASE Negotiate
  <2>1. slave' \in Parameters /\ master' = master /\ built' = built /\ master \in Parameters
    BY <1>1, FindBestTyped DEF Negotiate, NegotiationInv
  <2>2. slave' = FindBestCommonParameterSet(master, slave)
    BY <1>1 DEF Negotiate
  <2>3. /\ FindBestCommonParameterSet(master', slave') = slave'
        /\ FindBestCommonParameterSet(slave', master') = slave'
    BY <2>1, <2>2, FindBestIdempotent DEF NegotiationInv
  <2>4. /\ slave'.chunkSize <= slave.chunkSize /\ slave'.maxFileSize <= slave.maxFileSize
        /\ slave'.maxFileSize <= slave'.chunkSize * ChunkCountMax
    BY <2>1, <2>2, FindBestBounds DEF NegotiationInv
  <2>5. /\ slave.chunkSize \in Nat /\ slave.maxFileSize \in Nat
        /\ slave'.chunkSize \in Nat /\ slave'.maxFileSize \in Nat
    BY <2>1, UInt16Facts DEF NegotiationInv, Parameters
  <2>6. slave'.chunkSize <= built.chunkSize /\ slave'.maxFileSize <= built.maxFileSize
    BY <2>4, <2>5 DEF NegotiationInv, WithinItsBuild
  <2> QED
    BY <2>1, <2>3, <2>4, <2>6 DEF NegotiationInv, WithinItsBuild
<1>2. CASE ExchangeMaster
  BY <1>2, BuildsAssumption DEF ExchangeMaster, NegotiationInv, WithinItsBuild
<1>3. CASE UNCHANGED negotiationVars
  BY <1>3 DEF negotiationVars, NegotiationInv, WithinItsBuild
<1> QED
  BY <1>1, <1>2, <1>3 DEF NegotiationNext

(***************************************************************************)
(* Whatever the builds of the ends, the master agrees to every answer to   *)
(* its own proposal (findBestCommonParameterSet, compareParameterSet).     *)
(***************************************************************************)
THEOREM NegotiationAgrees == NegotiationSpec => []MasterAgrees
<1>1. NegotiationInv => MasterAgrees
  BY DEF NegotiationInv, MasterAgrees, CompareParameterSet
<1> QED
  BY <1>1, InitNegotiation, NegotiationStep, PTL DEF NegotiationSpec

(***************************************************************************)
(* Whatever masters it meets, one after the other, the slave never runs    *)
(* with more than its build can hold, nor with files of more chunks than   *)
(* the bitmap has (findBestCommonParameterSet 830-853).                  *)
(***************************************************************************)
THEOREM SlaveStaysWithinItsBuild == NegotiationSpec => []WithinItsBuild
<1>1. NegotiationInv => WithinItsBuild
  BY DEF NegotiationInv
<1> QED
  BY <1>1, InitNegotiation, NegotiationStep, PTL DEF NegotiationSpec

(***************************************************************************)
(* Negotiating again with the same master changes nothing: after the first *)
(* answer the slave's set is the fixed point of findBestCommonParameterSet.*)
(***************************************************************************)
THEOREM RenegotiationSettled == NegotiationSpec => RenegotiationIsIdle
<1>1. NegotiationInv /\ [NegotiationNext]_negotiationVars
        => [answered /\ answered' => slave' = slave]_negotiationVars
  BY DEF NegotiationInv, NegotiationNext, Negotiate, ExchangeMaster, negotiationVars
<1> QED
  BY <1>1, InitNegotiation, NegotiationStep, PTL DEF NegotiationSpec, RenegotiationIsIdle
=============================================================================
