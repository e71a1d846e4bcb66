---------------------------- MODULE FileTransfer ----------------------------
(***************************************************************************)
(* What a pair of thermit endpoints promises the applications: the files   *)
(* the master offers arrive at the slave in order and whole, and a file is *)
(* reported as sent only when it has arrived.                              *)
(***************************************************************************)
EXTENDS Naturals, FiniteSets

VARIABLES
  offered,      \* how many files the sender's application has offered
  received,     \* the files the receiver has closed, whole, as received
  confirmed     \* the files the sender has closed as sent

vars == <<offered, received, confirmed>>

Init ==
  /\ offered = 0
  /\ received = {}
  /\ confirmed = {}

Offer ==
  /\ offered' = offered + 1
  /\ UNCHANGED <<received, confirmed>>

(* Files arrive in the order they were offered. *)
Receive ==
  LET next == Cardinality(received) + 1
  IN /\ next <= offered
     /\ received' = received \cup {next}
     /\ UNCHANGED <<offered, confirmed>>

Confirm ==
  /\ \E file \in received \ confirmed : confirmed' = confirmed \cup {file}
  /\ UNCHANGED <<offered, received>>

Next == Offer \/ Receive \/ Confirm

Spec == Init /\ [][Next]_vars

(* Every file offered arrives, and the arrival of the first is reported. *)
Fairness == WF_vars(Receive) /\ WF_vars(Confirm /\ confirmed = {})
=============================================================================
