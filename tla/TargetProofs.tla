---------------------------- MODULE TargetProofs ----------------------------
(***************************************************************************)
(* Theorems about the resources of the Linux target, for any number of     *)
(* instances.                                                              *)
(***************************************************************************)
EXTENDS LinuxTarget, FiniteSetTheorems, TLAPS

-----------------------------------------------------------------------------
(* The descriptors.  What open() returns is known in the two situations in  *)
(* which a process without an instance can be.                              *)
LEMMA SomeLowest ==
  ASSUME NEW used, NEW fd \in 0..Cardinality(used),
         fd \notin used, 0 .. fd - 1 \subseteq used
  PROVE  Lowest(used) \in 0..Cardinality(used) \ used
BY DEF Lowest

LEMMA LowestOfAll == Lowest(0..2) = 3
<1>1. Cardinality(0..2) = 3
  <2>1. 0 \in Int /\ 2 \in Int
    BY SMT
  <2>2. Cardinality(0..2) = IF 0 > 2 THEN 0 ELSE 2 - 0 + 1
    BY <2>1, FS_Interval, Zenon
  <2> QED
    BY <2>2, SMT
<1>2. PICK fd \in 0..3 : fd = 3
  BY SMT
<1>3. fd \in 0..Cardinality(0..2) /\ fd \notin 0..2 /\ 0 .. fd - 1 \subseteq 0..2
  BY <1>1, <1>2
<1>4. Lowest(0..2) \in 0..Cardinality(0..2) \ (0..2)
  BY <1>3, SomeLowest
<1> QED
  BY <1>1, <1>4

LEMMA LowestWithoutInput == Lowest(1..3) = 0
<1>1. Cardinality(1..3) = 3
  <2>1. 1 \in Int /\ 3 \in Int
    BY SMT
  <2>2. Cardinality(1..3) = IF 1 > 3 THEN 0 ELSE 3 - 1 + 1
    BY <2>1, FS_Interval, Zenon
  <2> QED
    BY <2>2, SMT
<1>2. PICK fd \in 0..3 : fd = 0
  BY SMT
<1>3. fd \in 0..Cardinality(1..3) /\ fd \notin 1..3 /\ 0 .. fd - 1 \subseteq 1..3
  BY <1>1, <1>2
<1>4. Lowest(1..3) \in 0..Cardinality(1..3) \ (1..3)
  BY <1>3, SomeLowest
<1> QED
  BY <1>1, <1>4

(* A fresh process, its first instance, and then in turn no instance with   *)
(* one descriptor left over, and an instance on descriptor 0.               *)
DescriptorInv ==
  \/ ~live /\ descriptors = 0..2 /\ onDevice = {}
  \/ live  /\ descriptors = 0..3 /\ onDevice = {3} /\ handle = 3
  \/ ~live /\ descriptors = 1..3 /\ onDevice = {3}
  \/ live  /\ descriptors = 0..3 /\ onDevice = {0, 3} /\ handle = 0

LEMMA NewDescriptor ==
  ASSUME DescriptorInv, NEW master \in BOOLEAN, New(master)
  PROVE  DescriptorInv'
<1>1. ~live /\ live'
  BY DEF New, BeginsToOpen
<1>2. /\ handle' = Lowest(descriptors)
      /\ descriptors' = descriptors \cup {handle'}
      /\ onDevice' = onDevice \cup {handle'}
  BY DEF New
<1>3. CASE descriptors = 0..2 /\ onDevice = {}
  <2>1. handle' = 3
    BY <1>2, <1>3, LowestOfAll
  <2>2. descriptors' = 0..3
    BY <1>2, <1>3, <2>1
  <2>3. onDevice' = {3}
    BY <1>2, <1>3, <2>1
  <2> QED
    BY <1>1, <2>1, <2>2, <2>3 DEF DescriptorInv
<1>4. CASE descriptors = 1..3 /\ onDevice = {3}
  <2>1. handle' = 0
    BY <1>2, <1>4, LowestWithoutInput
  <2>2. descriptors' = 0..3
    BY <1>2, <1>4, <2>1
  <2>3. onDevice' = {0, 3}
    BY <1>2, <1>4, <2>1
  <2> QED
    BY <1>1, <2>1, <2>2, <2>3 DEF DescriptorInv
<1> QED
  BY <1>1, <1>3, <1>4 DEF DescriptorInv

LEMMA DeleteDescriptor ==
  ASSUME DescriptorInv, Delete
  PROVE  DescriptorInv'
<1>1. live /\ ~live'
  BY DEF Delete
<1>2. descriptors' = descriptors \ {0} /\ onDevice' = onDevice \ {0}
  BY DEF Delete, Closed
<1>3. descriptors = 0..3 /\ (onDevice = {3} \/ onDevice = {0, 3})
  BY <1>1 DEF DescriptorInv
<1>4. descriptors' = 1..3
  BY <1>2, <1>3
<1>5. onDevice' = {3}
  BY <1>2, <1>3
<1> QED
  BY <1>1, <1>4, <1>5 DEF DescriptorInv

LEMMA DescriptorStep == DescriptorInv /\ [TargetNext]_targetVars => DescriptorInv'
<1> SUFFICES ASSUME DescriptorInv, [TargetNext]_targetVars PROVE DescriptorInv'
  OBVIOUS
<1>1. ASSUME NEW master \in BOOLEAN, New(master) PROVE DescriptorInv'
  BY <1>1, NewDescriptor
<1>2. CASE Delete
  BY <1>2, DeleteDescriptor
<1>3. CASE UNCHANGED <<live, handle, descriptors, onDevice>>
  BY <1>3 DEF DescriptorInv
<1>4. ASSUME NEW master \in BOOLEAN, NewFails(master) PROVE DescriptorInv'
  BY <1>3, <1>4 DEF NewFails
<1>5. ASSUME NEW direction \in {"tx", "rx"},
             OpenFile(direction) \/ OpenFileFails(direction) \/ CloseFile(direction)
      PROVE  DescriptorInv'
  BY <1>3, <1>5 DEF OpenFile, OpenFileFails, CloseFile, Starts, device
<1>6. CASE UNCHANGED targetVars
  BY <1>3, <1>6 DEF targetVars, device
<1> QED
  BY <1>1, <1>2, <1>4, <1>5, <1>6 DEF TargetNext

LEMMA DescriptorsHold == TargetSpec => []DescriptorInv
<1>1. TargetInit => DescriptorInv
  BY DEF TargetInit, DescriptorInv
<1> QED
  BY <1>1, DescriptorStep, PTL DEF TargetSpec

(***************************************************************************)
(* However many instances come and go, no more than one descriptor is left *)
(* open on the device (ioDeviceClose, ioLinux.c 329).                      *)
(***************************************************************************)
THEOREM OneDescriptorIsLost == TargetSpec => []DescriptorsAreBounded
<1>1. DescriptorInv => DescriptorsAreBounded
  <2> SUFFICES ASSUME DescriptorInv PROVE DescriptorsAreBounded
    OBVIOUS
  <2> DEFINE left == onDevice \ (IF live THEN {handle} ELSE {})
  <2>1. left = {} \/ left = {3}
    BY DEF DescriptorInv
  <2>2. Cardinality(left) = 0 \/ Cardinality(left) = 1
    <3> HIDE DEF left
    <3> QED
      BY <2>1, FS_EmptySet, FS_Singleton, Zenon
  <2>3. Cardinality(left) <= 1
    <3> HIDE DEF left
    <3> QED
      BY <2>2, SMT
  <2> QED
    BY <2>3 DEF DescriptorsAreBounded
<1> QED
  BY <1>1, DescriptorsHold, PTL

-----------------------------------------------------------------------------
(* The file slot.  A file is open for a transfer that runs, or was open for  *)
(* one when its instance was deleted.                                       *)
SlotInv ==
  /\ ~live => running = {}
  /\ fileActive => running # {} \/ abandoned

LEMMA SlotStep == SlotInv /\ [TargetNext]_targetVars => SlotInv'
<1> SUFFICES ASSUME SlotInv, [TargetNext]_targetVars PROVE SlotInv'
  OBVIOUS
<1> USE DEF SlotInv
<1>1. ASSUME NEW master \in BOOLEAN, New(master) \/ NewFails(master) PROVE SlotInv'
  BY <1>1 DEF New, NewFails, BeginsToOpen, file
<1>2. CASE Delete
  BY <1>2 DEF Delete
<1>3. ASSUME NEW direction \in {"tx", "rx"}, OpenFile(direction) PROVE SlotInv'
  BY <1>3 DEF OpenFile, Starts
<1>4. ASSUME NEW direction \in {"tx", "rx"}, OpenFileFails(direction) PROVE SlotInv'
  BY <1>4 DEF OpenFileFails, Refused, Starts
<1>5. ASSUME NEW direction \in {"tx", "rx"}, CloseFile(direction) PROVE SlotInv'
  BY <1>5 DEF CloseFile
<1>6. CASE UNCHANGED targetVars
  BY <1>6 DEF targetVars, file
<1> QED
  BY <1>1, <1>2, <1>3, <1>4, <1>5, <1>6 DEF TargetNext

(***************************************************************************)
(* Nothing but the file of a transfer its instance was deleted in keeps    *)
(* the target from offering a file while nothing is transferred            *)
(* (ioFileAvailableForSending, ioLinux.c 190-205), although a file that is *)
(* received takes the slot from the one being sent (initFiles 111-121).    *)
(***************************************************************************)
THEOREM NothingElseBlocks == TargetSpec => []OnlyAbandonedFilesBlock
<1>1. TargetInit => SlotInv
  BY DEF TargetInit, SlotInv
<1>2. SlotInv => OnlyAbandonedFilesBlock
  BY DEF SlotInv, OnlyAbandonedFilesBlock
<1> QED
  BY <1>1, <1>2, SlotStep, PTL DEF TargetSpec

-----------------------------------------------------------------------------
LEMMA TargetStepTyped == TargetTypeOK /\ DescriptorInv /\ [TargetNext]_targetVars => TargetTypeOK'
<1> SUFFICES ASSUME TargetTypeOK, DescriptorInv, [TargetNext]_targetVars PROVE TargetTypeOK'
  OBVIOUS
<1>1. /\ descriptors' \subseteq 0..3 /\ onDevice' \subseteq descriptors'
      /\ live' => handle' \in 0..3
  <2>1. DescriptorInv'
    BY DescriptorStep
  <2> QED
    BY <2>1 DEF DescriptorInv
<1>2. handle' \in 0..3
  <2>1. ASSUME NEW master \in BOOLEAN, New(master) PROVE live'
    BY <2>1 DEF New
  <2>2. handle' = handle \/ \E master \in BOOLEAN : New(master)
    BY DEF TargetNext, NewFails, Delete, OpenFile, OpenFileFails, CloseFile, Starts,
       targetVars, device
  <2> QED
    BY <1>1, <2>1, <2>2 DEF TargetTypeOK
<1>3. lives' \in 0..LivesMax
  <2>1. lives' = lives \/ (lives < LivesMax /\ lives' = lives + 1)
    BY DEF TargetNext, New, NewFails, BeginsToOpen, Delete, OpenFile, OpenFileFails,
       CloseFile, Starts, targetVars
  <2> QED
    BY <2>1, TargetAssumption DEF TargetTypeOK
<1>4. /\ live' \in BOOLEAN /\ isMaster' \in BOOLEAN /\ deviceActive' \in BOOLEAN
      /\ crashed' \in BOOLEAN
  BY TargetAssumption DEF TargetTypeOK, TargetNext, New, NewFails, BeginsToOpen, Delete, OpenFile, OpenFileFails,
     CloseFile, Starts, targetVars, device
<1>5. /\ fileActive' \in BOOLEAN /\ openedFor' \in {"tx", "rx"}
      /\ running' \subseteq {"tx", "rx"} /\ abandoned' \in BOOLEAN
  BY DEF TargetTypeOK, TargetNext, New, NewFails, BeginsToOpen, Delete, OpenFile, OpenFileFails,
     Refused, CloseFile, Starts, targetVars, file
<1> QED
  BY <1>1, <1>2, <1>3, <1>4, <1>5 DEF TargetTypeOK

(***************************************************************************)
(* The tables of the target and what they refer to stay consistent: no     *)
(* descriptor beyond 3 is ever in use, and one that counts as open on the  *)
(* device is open (ioDeviceOpen 275-319, ioDeviceClose 321-334).           *)
(***************************************************************************)
THEOREM TargetTyped == TargetSpec => []TargetTypeOK
<1>1. TargetInit => TargetTypeOK
  <2> SUFFICES ASSUME TargetInit PROVE TargetTypeOK
    OBVIOUS
  <2>1. descriptors \subseteq 0..3 /\ handle \in 0..3
    BY SMT DEF TargetInit
  <2>2. lives \in 0..LivesMax
    BY TargetAssumption, SMT DEF TargetInit
  <2>3. /\ live \in BOOLEAN /\ isMaster \in BOOLEAN /\ deviceActive \in BOOLEAN
        /\ fileActive \in BOOLEAN /\ abandoned \in BOOLEAN /\ crashed \in BOOLEAN
    BY Zenon DEF TargetInit
  <2>4. onDevice \subseteq descriptors /\ openedFor \in {"tx", "rx"} /\ running \subseteq {"tx", "rx"}
    BY DEF TargetInit
  <2> QED
    BY <2>1, <2>2, <2>3, <2>4 DEF TargetTypeOK
<1> QED
  BY <1>1, TargetStepTyped, DescriptorsHold, PTL DEF TargetSpec
=============================================================================
