------------------------------ MODULE MCZOrder ------------------------------
(* Values of the constants of ZOrder for TLC.                              *)
EXTENDS ZOrder

CONSTANTS a, b, i, c

(* Two windows of one level with a control of the first, and the input     *)
(* method's window above them.                                             *)
TwoTypes == <<"GLOBAL", "NORMAL">>
OfA      == [w \in {c} |-> a]
ImeAbove == [w \in {a, b, c, i} |-> IF w = i THEN "GLOBAL" ELSE "NORMAL"]
Enough   == [l \in {"GLOBAL", "NORMAL"} |-> IF l = "NORMAL" THEN 3 ELSE 1]
=============================================================================
