---------------------------- MODULE MCComponents ----------------------------
(***************************************************************************)
(* The components that are specified alone, on small instances for TLC:    *)
(* the negotiation, a progress record, the serial line and the target.     *)
(* None of them takes part in a step of another, so that each behaviour is *)
(* one of a single component while the others stay as they began.          *)
(***************************************************************************)
EXTENDS MCNegotiation, MCProgress, MCSerial, LinuxTarget

VARIABLE part       \* the component this behaviour is of

(* The builds and the file of a behaviour that is not about them, and the   *)
(* packet its line has sent last.                                           *)
SomeBuild == CHOOSE b \in Builds : TRUE
SomeFile  == ProgressInitialize(1, [chunkSize |-> 1])
SomeIndex == 1

ComponentsInit ==
  /\ part \in {"negotiation", "progress", "line", "target"}
  /\ part # "progress" => chunkSize = 1 /\ progress = SomeFile
  /\ part # "negotiation" => master = SomeBuild /\ built = SomeBuild
  /\ part # "line" => last = SomeIndex
  /\ LifeInit
  /\ NegotiationInit
  /\ Init
  /\ TargetInit

ComponentsNext ==
  /\ UNCHANGED part
  /\ \/ /\ part = "negotiation" /\ NegotiationNext
        /\ UNCHANGED <<lifeVars, vars, targetVars>>
     \/ /\ part = "progress" /\ LifeNext
        /\ UNCHANGED <<negotiationVars, vars, targetVars>>
     \/ /\ part = "line" /\ Next
        /\ UNCHANGED <<negotiationVars, lifeVars, targetVars>>
     \/ /\ part = "target" /\ TargetNext
        /\ UNCHANGED <<negotiationVars, lifeVars, vars>>

ComponentsSpec ==
  ComponentsInit /\ [][ComponentsNext]_<<part, negotiationVars, lifeVars, vars, targetVars>>
=============================================================================
