--------------------------- MODULE MCNegotiation ---------------------------
(* A small instance of Negotiation for TLC. *)
EXTENDS Negotiation

(* Builds that differ in every field, some with more than 255 to a burst. *)
SmallBuilds ==
  {[InitialParameters(c) EXCEPT !.version = v, !.keepAliveMs = k, !.burstLength = b] :
     c \in {1, 2, 3}, v \in {0, 1}, k \in {0, 1000}, b \in {1, 4, 300}}
=============================================================================
