----------------------------- MODULE MCRestart -----------------------------
(* A small instance of ThermitRestart for TLC: values for its constants. *)
EXTENDS ThermitRestart

(* Both ends built alike, two bytes to a chunk. *)
SameBuild == [e \in Role |-> InitialParameters(2)]

AllFrames == FCode
=============================================================================
