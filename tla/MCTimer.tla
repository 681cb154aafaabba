------------------------------- MODULE MCTimer -------------------------------
(* Values of the constants of Timer for TLC.                               *)
EXTENDS Timer

CONSTANTS t1, t2, t3, w1, w2

(* Two timers of one window, the third of another.                         *)
TwoWindows == [i \in Ids |-> IF i = t3 THEN w2 ELSE w1]
=============================================================================
