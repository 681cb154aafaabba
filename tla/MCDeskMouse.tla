----------------------------- MODULE MCDeskMouse -----------------------------
(* Two main windows, one of which has a control.                           *)
EXTENDS DeskMouse

CONSTANTS main, other, button, left, right

MCMainOf == [w \in {main, other, button} |-> IF w = other THEN other ELSE main]
=============================================================================
