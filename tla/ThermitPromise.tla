--------------------------- MODULE ThermitPromise ---------------------------
(***************************************************************************)
(* What the endpoints of Thermit promise the applications when they step   *)
(* in turn: the safety and the liveness of FileTransfer, with the master   *)
(* as sender and the slave as receiver.                                    *)
(***************************************************************************)
EXTENDS Thermit

Promise == INSTANCE FileTransfer WITH
  offered   <- Len(offered["master"]),
  received  <- {r.name : r \in {q \in received["slave"] : q.intact}},
  confirmed <- confirmed["master"]

(***************************************************************************)
(* Stepping in turn, the endpoints implement FileTransfer: files arrive    *)
(* whole and in order, and the master reports a file as sent only when it  *)
(* has arrived, whichever frames but acknowledgements and starts of files  *)
(* are lost (handleDataMessage, sendDataMessage).                          *)
(***************************************************************************)
KeepsThePromise == Promise!Spec

(***************************************************************************)
(* Under the same conditions every file offered does arrive, and the first *)
(* of a session is confirmed (the feedback loop of sendDataMessage and     *)
(* handleDataMessage).                                                     *)
(***************************************************************************)
KeepsThePromiseInTime == Promise!Fairness

(***************************************************************************)
(* Under the same conditions the handshake is completed at both ends and   *)
(* stays so once noise has ceased (masterTx, slaveTx, sendOutOfSync).      *)
(***************************************************************************)
BothRunForGood == <>[](\A e \in Role : state[e] = "RUNNING")
=============================================================================
