----------------------------- MODULE MCMsgQueue -----------------------------
(* Values of the constants of MsgQueue for TLC.                            *)
EXTENDS MsgQueue

CONSTANTS w1, w2

P(h, m, p) == [hwnd |-> h, message |-> m, wParam |-> p]

(* Two windows that stand alone; a main window w1 with a control w2.       *)
TwoMains   == [w \in {w1, w2} |-> w]
OneMain    == [w \in {w1, w2} |-> w1]

(* A tick, a message that is never merged, and moves of the mouse.         *)
FewPosts  == {P(w2, "MSG_TIMEOUT", 0), P(w1, "MSG_COMMAND", 0)}
RingPosts == FewPosts \cup {P(w1, "MSG_MOUSEMOVE", 0)}
NoPosts   == {}

GetMessage == [api |-> "PeekMessageEx", wanted |-> AllMsgs, remove |-> TRUE, wait |-> TRUE]
LoopCalls  == {GetMessage}
(* A filtered wait, a glance, WaitMessage and HavePendingMessageEx.        *)
MixedCalls ==
    {GetMessage,
     [GetMessage EXCEPT !.wanted = {"MSG_COMMAND"}],
     [GetMessage EXCEPT !.remove = FALSE, !.wait = FALSE],
     [GetMessage EXCEPT !.api = "WaitMessage", !.remove = FALSE],
     [GetMessage EXCEPT !.api = "HavePendingMessageEx", !.remove = FALSE, !.wait = FALSE]}
=============================================================================
