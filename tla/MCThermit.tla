----------------------------- MODULE MCThermit -----------------------------
(* Small instances of Thermit for TLC: values for its constants. *)
EXTENDS ThermitPromise

(* Both ends built alike, two bytes to a chunk. *)
SameBuild == [e \in Role |-> InitialParameters(2)]

AllFrames == FCode
AllButAcksAndStarts == FCode \ {"SYNC_ACK", "NEW_FILE_START"}
=============================================================================
