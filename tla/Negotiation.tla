---------------------------- MODULE Negotiation ----------------------------
(***************************************************************************)
(* The negotiation alone, for ends of any build: the master proposes its   *)
(* set, the slave makes the compromise its own and answers with it, and    *)
(* the master compares.  It may be repeated after a loss of sync, and by a *)
(* master of another build.                                                *)
(***************************************************************************)
EXTENDS ThermitParameters

CONSTANT Builds       \* the parameter sets an end may be built with

(* initializeParameters makes maxFileSize the size of ChunkCountMax chunks. *)
ASSUME BuildsAssumption ==
  \A b \in Builds : b \in Parameters /\ b.maxFileSize <= b.chunkSize * ChunkCountMax

VARIABLES
  master,             \* the master's parameters
  slave,              \* the slave's parameters
  built,              \* what the slave was built with
  answered            \* whether slave is an answer to this master's proposal

negotiationVars == <<master, slave, built, answered>>

NegotiationInit ==
  /\ master \in Builds /\ built \in Builds
  /\ slave = built
  /\ answered = FALSE

(* waitForSyncProposal, then sendSyncResponse *)
Negotiate ==
  /\ slave' = FindBestCommonParameterSet(master, slave)
  /\ answered' = TRUE
  /\ UNCHANGED <<master, built>>

(* The slave's peer is exchanged for one of another build. *)
ExchangeMaster ==
  /\ master' \in Builds
  /\ answered' = FALSE
  /\ UNCHANGED <<slave, built>>

NegotiationNext == Negotiate \/ ExchangeMaster

NegotiationSpec == NegotiationInit /\ [][NegotiationNext]_negotiationVars

(***************************************************************************)
(* The master agrees to every answer to its proposal (waitForSyncResponse  *)
(* 958), so that a handshake is never stuck on the parameters.             *)
(***************************************************************************)
MasterAgrees ==
  answered => CompareParameterSet(slave, FindBestCommonParameterSet(slave, master))

(***************************************************************************)
(* Negotiating once more with the same master changes nothing, although    *)
(* the slave starts from the shrunken set (waitForSyncProposal 896).       *)
(***************************************************************************)
RenegotiationIsIdle ==
  [][answered /\ answered' => slave' = slave]_negotiationVars

(***************************************************************************)
(* What the slave runs with is never beyond its own build, nor beyond the  *)
(* number of chunks a file may have, whichever masters it has met.         *)
(***************************************************************************)
WithinItsBuild ==
  /\ slave.chunkSize <= built.chunkSize
  /\ slave.maxFileSize <= built.maxFileSize
  /\ slave.maxFileSize <= slave.chunkSize * ChunkCountMax
=============================================================================
