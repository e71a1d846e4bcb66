------------------------------ MODULE MCClaims ------------------------------
(***************************************************************************)
(* What the repository's documents and comments say of the program and the *)
(* program does not do.  Each is checked by a run in which TLC finds a     *)
(* behaviour that violates it.                                             *)
(***************************************************************************)
EXTENDS MCThermit

(***************************************************************************)
(* "the maximum transferable file size" is "255*250" bytes, in chunks of   *)
(* which the implementation "supports 250" (README.md:29), and a data      *)
(* frame "can also be sent as feedback frame with empty data"              *)
(* (thermit.h:56): a file of a size that may be sent, once the receiver    *)
(* closes it as "successfully received" (thermit.c:1048), holds every byte *)
(* that was sent.                                                          *)
(***************************************************************************)
ReceivedIsWhole ==
  \A e \in Role : \A r \in received[e] : r.intact

(***************************************************************************)
(* "resending of lost packets" (README.md:12): every file offered arrives  *)
(* in the end, since only finitely many frames are lost.                   *)
(***************************************************************************)
EveryFileArrives ==
  \A e \in Senders : \A k \in 1..MaxFiles :
    Len(offered[e]) >= k ~> k \in {r.name : r \in received[Peer(e)]}

(***************************************************************************)
(* "automatic re-synchronization after communication loss" (README.md:16): *)
(* whatever was lost, both ends run again and again, since only finitely   *)
(* many frames are lost.                                                   *)
(***************************************************************************)
ResyncsAfterLoss ==
  []<>(\A e \in Role : state[e] = "RUNNING")

(***************************************************************************)
(* "session keep-alive management" (README.md:17), of a connection that is *)
(* "reliable" (README.md:5): as both ends step for ever, the line does not *)
(* fall silent for good.                                                   *)
(***************************************************************************)
NotSilentForGood ==
  []<>(\E e \in Role : link[e] # <<>>)
=============================================================================
