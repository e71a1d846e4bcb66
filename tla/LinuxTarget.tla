---------------------------- MODULE LinuxTarget ----------------------------
(***************************************************************************)
(* One process on the target of ioLinux.c, through several instances of    *)
(* thermit.c: the instance table, the device slot with its descriptor and  *)
(* the file slot.  Tables have one entry each, as THERMIT_INSTANCES_MAX,   *)
(* IOLINUX_DEVICES_MAX and IOLINUX_FILES_MAX say.  What is read from and   *)
(* written to the device is module SerialLine.                             *)
(***************************************************************************)
EXTENDS Integers, FiniteSets

CONSTANTS
  EasyMode,     \* THERMIT_EASY_MODE: only the master sends files
  DebugBuild,   \* THERMIT_NO_DEBUG is not defined (make gcc, not make gccnd)
  LivesMax      \* bound: instances created one after the other

ASSUME TargetAssumption ==
  EasyMode \in BOOLEAN /\ DebugBuild \in BOOLEAN /\ LivesMax \in Nat

VARIABLES
  live,          \* thermitInstances[0] is reserved
  isMaster,      \* its role
  deviceActive,  \* communicationDevices[0].active
  handle,        \* communicationDevices[0].handle
  descriptors,   \* the descriptors of the process that are open
  onDevice,      \* those of them that are open on the serial device
  fileActive,    \* storageFiles[0].active
  openedFor,     \* what storageFiles[0] was opened for
  running,       \* the transfers of the instance: "tx", "rx"
  abandoned,     \* the open file is of a transfer whose instance was deleted
  lives,         \* instances created so far
  crashed        \* the process has called a function that is not there

device == <<deviceActive, handle, descriptors, onDevice>>
file   == <<fileActive, openedFor, running, abandoned>>
targetVars == <<live, isMaster, device, file, lives, crashed>>

TargetTypeOK ==
  /\ live \in BOOLEAN /\ isMaster \in BOOLEAN
  /\ deviceActive \in BOOLEAN
  /\ handle \in 0..3
  /\ descriptors \subseteq 0..3 /\ onDevice \subseteq descriptors
  /\ fileActive \in BOOLEAN
  /\ openedFor \in {"tx", "rx"} /\ running \subseteq {"tx", "rx"}
  /\ abandoned \in BOOLEAN
  /\ lives \in 0..LivesMax
  /\ crashed \in BOOLEAN

(* A process begins with its three standard descriptors. *)
TargetInit ==
  /\ live = FALSE /\ isMaster = FALSE
  /\ deviceActive = FALSE /\ handle = 0
  /\ descriptors = 0..2 /\ onDevice = {}
  /\ fileActive = FALSE /\ openedFor = "tx" /\ running = {}
  /\ abandoned = FALSE
  /\ lives = 0
  /\ crashed = FALSE

-----------------------------------------------------------------------------
(***************************************************************************)
(* thermitNew and thermitDelete.                                           *)
(***************************************************************************)
(* A descriptor of open() is the lowest that is free. *)
Lowest(used) == CHOOSE fd \in 0..Cardinality(used) : fd \notin used /\ 0 .. fd - 1 \subseteq used

(* reserveInstance, initDevices and reserveDevice.  The flag initialized of  *)
(* initDevices is never tested: the table is cleared by every call, so that *)
(* the slot is found free even if a failed open() left it reserved.         *)
BeginsToOpen(master) ==
  /\ ~crashed /\ ~live /\ lives < LivesMax
  /\ lives' = lives + 1
  /\ deviceActive' = TRUE
  /\ isMaster' = master
  /\ UNCHANGED <<file, crashed>>

(* thermitNew. *)
New(master) ==
  /\ BeginsToOpen(master)
  /\ LET fd == Lowest(descriptors)
     IN /\ handle' = fd
        /\ descriptors' = descriptors \cup {fd}
        /\ onDevice' = onDevice \cup {fd}
  /\ live' = TRUE

(* open() fails: the instance is released, the device slot is not. *)
NewFails(master) ==
  /\ BeginsToOpen(master)
  /\ UNCHANGED <<live, handle, descriptors, onDevice>>

(* Mutant: nothing is closed. *)
ClosedNothing(open) == open

(* ioDeviceClose closes the descriptor whose number is the slot. *)
Closed(open) == open \ {0}

(* thermitDelete: the instance is cleared; its files stay open.  The clear  *)
(* takes the pointer to sysPrintf with it, which the debug print that       *)
(* follows calls.                                                           *)
Delete ==
  /\ ~crashed /\ live
  /\ live' = FALSE
  /\ deviceActive' = FALSE
  /\ descriptors' = Closed(descriptors)
  /\ onDevice' = Closed(onDevice)
  /\ running' = {}
  /\ abandoned' = (fileActive /\ (abandoned \/ running # {}))
  /\ crashed' = DebugBuild
  /\ UNCHANGED <<isMaster, handle, fileActive, openedFor, lives>>

-----------------------------------------------------------------------------
(***************************************************************************)
(* The file slot, in the order in which the endpoint (module Thermit) uses *)
(* it: a file is opened for a transfer that is not running, and closed     *)
(* when that transfer ends.                                                *)
(***************************************************************************)
(* updateOutGoingState: in easy mode a slave does not send.  A file is      *)
(* received in either role.                                                 *)
MayTransfer(direction) == EasyMode /\ direction = "tx" => isMaster

(* ioFileAvailableForSending is asked before a file is sent. *)
Starts(direction) ==
  /\ ~crashed /\ live /\ direction \notin running
  /\ MayTransfer(direction)
  /\ direction = "tx" => ~fileActive
  /\ abandoned' = FALSE
  /\ UNCHANGED <<live, isMaster, device, lives, crashed>>

(* initFiles clears the table: whoever had the slot, it is free.  Then       *)
(* reserveFile, and a file that can be opened.                              *)
OpenFile(direction) ==
  /\ Starts(direction)
  /\ fileActive' = TRUE
  /\ openedFor' = direction
  /\ running' = running \cup {direction}

(* Mutant: the file is not closed when its size is refused. *)
RefusedLeftOpen == TRUE

(* Nothing is opened, or progressInitialize refuses the size of what is to  *)
(* be sent and the file is closed again.                                    *)
Refused == FALSE

OpenFileFails(direction) ==
  /\ Starts(direction)
  /\ fileActive' = Refused
  /\ UNCHANGED <<openedFor, running>>

(* The transfer ends: ioFileClose. *)
CloseFile(direction) ==
  /\ ~crashed /\ live /\ direction \in running
  /\ fileActive' = FALSE
  /\ running' = running \ {direction}
  /\ abandoned' = FALSE
  /\ UNCHANGED <<live, isMaster, device, openedFor, lives, crashed>>

-----------------------------------------------------------------------------
TargetNext ==
  \/ \E master \in BOOLEAN : New(master) \/ NewFails(master)
  \/ Delete
  \/ \E direction \in {"tx", "rx"} :
       OpenFile(direction) \/ OpenFileFails(direction) \/ CloseFile(direction)

TargetSpec == TargetInit /\ [][TargetNext]_targetVars

-----------------------------------------------------------------------------
(***************************************************************************)
(* What keeps ioFileAvailableForSending (ioLinux.c 190-205) from offering  *)
(* a file while nothing is transferred is the file of a transfer that an   *)
(* instance was deleted in.  A failed or refused open leaves no file       *)
(* behind, and once a later transfer has taken the slot it ends free.      *)
(***************************************************************************)
OnlyAbandonedFilesBlock ==
  fileActive /\ running = {} => abandoned

(***************************************************************************)
(* ioDeviceClose closes the descriptor with the number of the slot and not *)
(* the device's (ioLinux.c 329).  No more than one descriptor is left open *)
(* on the device for that, however many instances come and go: the second  *)
(* is opened as descriptor 0, which is the one that is closed.             *)
(***************************************************************************)
DescriptorsAreBounded ==
  Cardinality(onDevice \ (IF live THEN {handle} ELSE {})) <= 1
=============================================================================
