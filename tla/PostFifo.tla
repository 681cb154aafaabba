------------------------------ MODULE PostFifo ------------------------------
(***************************************************************************)
(* What the posted messages of a queue promise, apart from the ring that   *)
(* holds them: a bounded queue read in the order of posting, in which a    *)
(* message that repeats one of the same sort takes that one's place, and   *)
(* from which the messages of a destroyed window are dropped.              *)
(***************************************************************************)
EXTENDS Naturals, Sequences

CONSTANTS Messages,     \* records [hwnd, message, wParam, lParam]
          MoveMsgs,     \* merged with one of the same window and wParam
          TickMsgs,     \* merged with one of the same window
          Cap           \* the most messages the queue holds

VARIABLE q

SameSort(m, n) ==
    /\ m.message = n.message /\ m.hwnd = n.hwnd
    /\ m.message \in TickMsgs \/ (m.message \in MoveMsgs /\ m.wParam = n.wParam)

Alone(m) == \A i \in 1 .. Len(q) : ~SameSort(q[i], m)

Put(m) == Alone(m) /\ Len(q) < Cap /\ q' = Append(q, m)

Merge(m) == \E i \in 1 .. Len(q) :
               SameSort(q[i], m) /\ q' = [q EXCEPT ![i] = m]

Take == q # << >> /\ q' = Tail(q)

Drop == \E i \in 1 .. Len(q) : q' = SubSeq(q, 1, i - 1) \o SubSeq(q, i + 1, Len(q))

Init == q = << >>
Next == (\E m \in Messages : Put(m) \/ Merge(m)) \/ Take \/ Drop
Spec == Init /\ [][Next]_q
=============================================================================
