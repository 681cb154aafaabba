------------------------------ MODULE MCMainWin ------------------------------
(* Two main windows and two dialog boxes.                                  *)
EXTENDS MainWin

CONSTANTS r, a, d, e
=============================================================================
