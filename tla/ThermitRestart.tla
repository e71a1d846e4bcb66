--------------------------- MODULE ThermitRestart ---------------------------
(***************************************************************************)
(* Endpoints that are restarted while their peer lives on.  A process that *)
(* starts calls thermitNew: a cleared instance, file ids from 0 again, and *)
(* a device whose pending bytes are flushed when it is opened.  What it    *)
(* said before is still on the line, and its peer still has the transfers  *)
(* of the life that is over.                                               *)
(***************************************************************************)
EXTENDS Thermit

CONSTANTS
  Restarting,    \* the endpoints that may be restarted
  RestartsMax    \* bound: restarts of either of them

ASSUME RestartAssumption ==
  /\ Restarting \subseteq Role
  /\ RestartsMax \in Nat

VARIABLE restarts   \* restarts so far

(* Files are named by their number at their sender.  When the sender starts *)
(* again its numbers do, too: the files of the life before get other names. *)
Former(name) == IF name = NoName THEN NoName ELSE name + MaxFiles

FormerFile(name) == name > MaxFiles

FormerFrame(f) ==
  IF f.code \in {"DATA_TRANSFER", "NEW_FILE_START"}
  THEN [f EXCEPT !.payload.name = Former(@)]
  ELSE f

RenameSentBy(e) ==
  LET p == Peer(e)
  IN /\ link' = [link EXCEPT ![e] = <<>>,
                             ![p] = [i \in DOMAIN @ |-> FormerFrame(@[i])]]
     /\ rx' = [rx EXCEPT ![e] = NoProgress, ![p].fileName = Former(@)]
     /\ storage' = [storage EXCEPT
          ![e] = [openedAs |-> NoName, written |-> {}],
          ![p] = [openedAs |-> Former(@.openedAs),
                  written  |-> {[b EXCEPT !.name = Former(@)] : b \in @.written}]]
     /\ received' = [received EXCEPT
          ![e] = {},
          ![p] = {[r EXCEPT !.name = Former(@), !.storedAs = Former(@)] : r \in @}]

Restart(e) ==
  /\ e \in Restarting /\ restarts < RestartsMax
  /\ restarts' = restarts + 1
  /\ phase' = [phase EXCEPT ![e] = "in"]
  /\ state' = [state EXCEPT ![e] = "SYNC_FIRST"]
  /\ proposalReceived' = [proposalReceived EXCEPT ![e] = FALSE]
  /\ ackReceived' = [ackReceived EXCEPT ![e] = FALSE]
  /\ sendWTF' = [sendWTF EXCEPT ![e] = FALSE]
  /\ parameters' = [parameters EXCEPT ![e] = BuildParameters[e]]
  /\ tx' = [tx EXCEPT ![e] = NoProgress]
  /\ RenameSentBy(e)
  /\ offered' = [offered EXCEPT ![e] = <<>>]
  /\ opened' = [opened EXCEPT ![e] = 0]
  /\ confirmed' = [confirmed EXCEPT ![e] = {}]
  /\ UNCHANGED <<turn, losses>>

RestartInit == Init /\ restarts = 0

RestartNext ==
  \/ Next /\ UNCHANGED restarts
  \/ \E e \in Role : Restart(e)

RestartSpec == RestartInit /\ [][RestartNext]_<<vars, restarts>>

-----------------------------------------------------------------------------
(***************************************************************************)
(* What is written to the file of a running transfer belongs to that file, *)
(* or, where the sender was restarted since, to the file that has the same *)
(* id in a later life of it: ids begin at 0 again, and nothing but the id  *)
(* tells files apart (handleDataMessage 1029, waitForDataMessage 1385-1420). *)
(* So a file whose transfer began after the restart holds no byte of an    *)
(* earlier life.                                                           *)
(***************************************************************************)
MixesOnlyNamesakes ==
  \A e \in Role : rx[e].running =>
    \A b \in storage[e].written :
      /\ b.byte = b.at
      /\ b.name <= rx[e].fileName
      /\ (rx[e].fileName - b.name) % MaxFiles = 0

(***************************************************************************)
(* A file whose transfer began after the last restart of its sender is     *)
(* whole when it is taken for received, whatever the life before left in   *)
(* the two ends and on the line (handleDataMessage 1027-1052,              *)
(* progressInitialize 314-360, ioDeviceOpen 306-311).                      *)
(***************************************************************************)
NewFilesAreWhole ==
  \A e \in Role : \A r \in received[e] : FormerFile(r.name) \/ r.intact
=============================================================================
