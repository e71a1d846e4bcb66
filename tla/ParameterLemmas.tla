-------------------------- MODULE ParameterLemmas --------------------------
(* Lemmas about the parameter sets and their compromise. *)
EXTENDS ThermitParameters, TLAPS

(* The 16-bit numbers: the naturals up to 65535, closed under going down. *)
LEMMA UInt16Facts ==
  /\ \A x \in UInt16 : x \in Nat
  /\ \A x \in UInt16 : \A y \in Nat : y <= x => y \in UInt16
<1>1. MaxUInt16 \in Nat
  BY SMT DEF MaxUInt16
<1> QED
  BY <1>1, SMT DEF UInt16

LEMMA Min2Typed ==
  /\ \A x, y \in UInt16 : Min2(x, y) \in UInt16
  /\ \A x, y \in UInt16 \ {0} : Min2(x, y) \in UInt16 \ {0}
  /\ \A x \in UInt16 : \A y \in Nat : Min2(x, y) \in UInt16
BY UInt16Facts, SMT DEF Min2

(* A compromise of two parameter sets is a parameter set. *)
LEMMA FindBestTyped ==
  ASSUME NEW p \in Parameters, NEW q \in Parameters
  PROVE  FindBestCommonParameterSet(p, q) \in Parameters
<1> DEFINE c == Min2(p.chunkSize, q.chunkSize)
           m == Min2(Min2(p.maxFileSize, q.maxFileSize), c * ChunkCountMax)
<1>1. c \in UInt16 \ {0}
  BY Min2Typed DEF Parameters
<1>2. c \in Nat \ {0}
  BY <1>1, UInt16Facts
<1>3. m \in UInt16
  <2> HIDE DEF c
  <2>1. c * ChunkCountMax \in Nat
    BY <1>2, ChunkCountMaxAssumption, SMT
  <2>2. Min2(p.maxFileSize, q.maxFileSize) \in UInt16
    BY Min2Typed DEF Parameters
  <2> QED
    BY <2>1, <2>2, Min2Typed
<1>4. m \div c \in Nat
  <2> HIDE DEF c, m
  <2>1. m \in Nat
    BY <1>3, UInt16Facts
  <2> QED
    BY <1>2, <2>1, SMT
<1>5. CommonBurstLength(p, q, m \div c) \in UInt16
  <2> HIDE DEF c, m
  <2> QED
    BY <1>4, Min2Typed DEF Parameters, CommonBurstLength
<1>6. Min2(p.version, q.version) \in UInt16 /\ Min2(p.keepAliveMs, q.keepAliveMs) \in UInt16
  BY Min2Typed DEF Parameters
<1> QED
  BY <1>1, <1>3, <1>5, <1>6 DEF FindBestCommonParameterSet, Parameters
=============================================================================
