------------------------------- MODULE ZStack -------------------------------
(* What the z-order of MiniGUI promises (WS_ALWAYSTOP and the window types *)
(* of include/window.h): the windows of each level are a stack, with those *)
(* that are always on top above the others.  ZOrder shows that the linked  *)
(* znodes of src/kernel/desktop.c implement it.                            *)
EXTENDS Naturals, Sequences

CONSTANTS Windows, Levels,
          TypeOf,                   \* [Windows -> Levels]
          MaxNr                     \* [Levels -> Nat]: the room of each level

VARIABLES stack,                    \* for each level its windows, the first on top
          alwaystop                 \* the windows to be kept above the others
vars == <<stack, alwaystop>>

Out(s, i)    == [n \in 1 .. Len(s) - 1 |-> IF n < i THEN s[n] ELSE s[n + 1]]
In(s, k, w)  == [n \in 1 .. Len(s) + 1 |->
                    IF n <= k THEN s[n] ELSE IF n = k + 1 THEN w ELSE s[n - 1]]
Places(w)    == {i \in DOMAIN stack[TypeOf[w]] : stack[TypeOf[w]][i] = w}
Without(i, w) == Out(stack[TypeOf[w]], i)

(* w comes between those of the others that are always on top and those    *)
(* that are not.                                                           *)
Put(w, others, tops) ==
    /\ \E k \in 0 .. Len(others) :
          /\ \A i \in 1 .. Len(others) : others[i] \in tops <=> i <= k
          /\ stack' = [stack EXCEPT ![TypeOf[w]] = In(others, k, w)]
    /\ alwaystop' = tops

Init == stack = [l \in Levels |-> <<>>] /\ alwaystop = {}

(* A new window comes under those that are always on top.                  *)
Add(w) ==
    /\ Places(w) = {} /\ Len(stack[TypeOf[w]]) < MaxNr[TypeOf[w]]
    /\ \E tops \in {alwaystop, alwaystop \cup {w}} : Put(w, stack[TypeOf[w]], tops)

(* So does one that is raised, unless it is the first already.             *)
Raise(w) == \E i \in Places(w) \ {1} : Put(w, Without(i, w), alwaystop)

SetAlwaysTop(w, set) == \E i \in Places(w) :
    Put(w, Without(i, w), IF set THEN alwaystop \cup {w} ELSE alwaystop \ {w})

Remove(w) == \E i \in Places(w) :
    /\ stack' = [stack EXCEPT ![TypeOf[w]] = Without(i, w)]
    /\ alwaystop' = alwaystop \ {w}

Next == vars' # vars /\ \E w \in Windows :
    \/ Add(w) \/ Raise(w) \/ Remove(w)
    \/ \E set \in BOOLEAN : SetAlwaysTop(w, set)

Spec == Init /\ [][Next]_vars
=============================================================================
