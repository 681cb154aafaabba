------------------------------ MODULE SyncCall ------------------------------
(***************************************************************************)
(* What SendMessage to a window of another thread promises (window.h): the *)
(* message is handed to the window procedure once, and the call returns    *)
(* when the procedure has returned.  A thread makes one such call at a     *)
(* time.                                                                   *)
(***************************************************************************)
CONSTANT Threads

VARIABLE status     \* of the call each thread makes

Init == status = [t \in Threads |-> "none"]

Move(t, from, to) ==
    /\ status[t] = from
    /\ status' = [status EXCEPT ![t] = to]

Ask(t)    == Move(t, "none", "asked")
Handle(t) == Move(t, "asked", "handled")
Answer(t) == Move(t, "handled", "answered")
Return(t) == Move(t, "answered", "none")

Next == \E t \in Threads : Ask(t) \/ Handle(t) \/ Answer(t) \/ Return(t)

Spec == Init /\ [][Next]_status
=============================================================================
