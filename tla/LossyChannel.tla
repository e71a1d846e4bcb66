---------------------------- MODULE LossyChannel ----------------------------
(***************************************************************************)
(* What the protocol may expect of the line below it, and what Thermit     *)
(* takes it to be (link, Reads and LoseFrame): frames arrive as they were  *)
(* sent and in order, each at most once, or not at all.                    *)
(***************************************************************************)
EXTENDS Sequences

CONSTANT Packets   \* what may be sent
VARIABLES queue,   \* the packets under way
          handed   \* the packet handed over last

Init == queue = <<>> /\ handed \in Packets

Send == /\ \E pkt \in Packets : queue' = Append(queue, pkt)
        /\ UNCHANGED handed

Deliver == /\ queue # <<>>
           /\ handed' = Head(queue)
           /\ queue' = Tail(queue)

Lose == /\ queue # <<>>
        /\ queue' = Tail(queue)
        /\ UNCHANGED handed

Spec == Init /\ [][Send \/ Deliver \/ Lose]_<<queue, handed>>
=============================================================================
