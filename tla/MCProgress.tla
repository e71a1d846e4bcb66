----------------------------- MODULE MCProgress -----------------------------
(* Small instances of ProgressLife for TLC: the chunks dirty at first. *)
EXTENDS ProgressLife

(* Up to ten chunks all are dirty, as progressInitialize leaves them; of a *)
(* longer file any one, and perhaps the last.                              *)
DirtyAtFirst(n) ==
  IF n <= 10 THEN {0 .. n - 1}
  ELSE {{d} : d \in 0 .. n - 1} \cup {{d, n - 1} : d \in 0 .. n - 1}
=============================================================================
